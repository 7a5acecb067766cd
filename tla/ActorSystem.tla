---------------------------- MODULE ActorSystem -----------------------------
(***************************************************************************)
(* What skynet promises a service, without threads, locks, reference       *)
(* counts or a global queue: it has a mailbox; its code (the init function *)
(* first, then the callback, one message at a time and in the order of the *)
(* mailbox) is never run twice at once; once it is closed it is not run    *)
(* any more, receives nothing more, and what is left in the mailbox is     *)
(* discarded.                                                              *)
(***************************************************************************)
EXTENDS Sequences

CONSTANTS Services, Message, Boot, FirstMail

VARIABLES status,   \* "none", "starting", "up" or "closed"
          mail,     \* the mailbox of each service
          running   \* the services whose code is being run

vars == <<status, mail, running>>

Init ==
  /\ status = [s \in Services |-> IF s \in Boot THEN "up" ELSE "none"]
  /\ mail = FirstMail
  /\ running = {}

(* Its init function begins to run.                                        *)
Start(s) ==
  /\ status[s] = "none"
  /\ status' = [status EXCEPT ![s] = "starting"]
  /\ running' = running \cup {s}
  /\ UNCHANGED mail

Up(s) ==
  /\ status[s] = "starting"
  /\ s \notin running
  /\ status' = [status EXCEPT ![s] = "up"]
  /\ UNCHANGED <<mail, running>>

Deliver(s, m) ==
  /\ status[s] \in {"starting", "up"}
  /\ mail' = [mail EXCEPT ![s] = Append(@, m)]
  /\ UNCHANGED <<status, running>>

Begin(s) ==
  /\ status[s] = "up"
  /\ s \notin running
  /\ mail[s] # << >>
  /\ mail' = [mail EXCEPT ![s] = Tail(@)]
  /\ running' = running \cup {s}
  /\ UNCHANGED status

(* The init function or the callback returns.                              *)
End(s) ==
  /\ s \in running
  /\ running' = running \ {s}
  /\ UNCHANGED <<status, mail>>

Close(s) ==
  /\ status[s] \in {"starting", "up"}
  /\ s \notin running
  /\ status' = [status EXCEPT ![s] = "closed"]
  /\ UNCHANGED <<mail, running>>

Discard(s) ==
  /\ status[s] = "closed"
  /\ mail[s] # << >>
  /\ mail' = [mail EXCEPT ![s] = Tail(@)]
  /\ UNCHANGED <<status, running>>

Next ==
  \E s \in Services :
    \/ Start(s) \/ Up(s) \/ Begin(s) \/ End(s) \/ Close(s) \/ Discard(s)
    \/ \E m \in Message : Deliver(s, m)

Spec == Init /\ [][Next]_vars
=============================================================================
