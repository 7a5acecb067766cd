---------------------------- MODULE DebugChannel ----------------------------
(***************************************************************************)
(* lualib-src/lua-debugchannel.c: the channel through which debug_agent    *)
(* gives the commands of the console to the service that is being debugged *)
(* (service/debug_agent.lua, lualib/skynet/remotedebug.lua).  The agent    *)
(* creates it and passes its address in a message; the debugged service    *)
(* connects; each end is released when the Lua state of its service        *)
(* collects it, and the last one frees the channel.  The commands are a    *)
(* linked list: list holds those that head reaches, tail is the command    *)
(* the tail pointer names, 0 for NULL.                                     *)
(***************************************************************************)
EXTENDS Integers, Sequences, SequencesExt

CONSTANTS MaxCmd  \* bound: commands typed at the console; the last is "cont"

Ends == {"agent", "target"}

VARIABLES chan,   \* [ref, lock, list, tail, freed]
          at,     \* of each end, where it is in its code
          read,   \* the commands the target has got
          wrote,  \* how many were written
          broken  \* a freed channel or command was touched

channelVars == <<chan, at, read, wrote, broken>>

ChannelInit ==
    /\ chan = [ref |-> 0, lock |-> "none", list |-> <<>>, tail |-> 0, freed |-> 0]
    /\ at = [agent |-> "start", target |-> "start"]
    /\ read = <<>>
    /\ wrote = 0
    /\ broken = FALSE

Go(e, there) == at' = [at EXCEPT ![e] = there]
Touched == broken' = (broken \/ chan.freed > 0)

channel_new(c) == [c EXCEPT !.ref = 1]

\* lcreate, then the call of REMOTEDEBUG with the address
lcreate ==
    /\ at["agent"] = "start"
    /\ chan' = channel_new(chan)
    /\ Go("agent", "calling")
    /\ UNCHANGED <<read, wrote, broken>>

\* SPIN_LOCK of the operation e is about to do
Lock(e, there, held) ==
    /\ at[e] = there /\ chan.lock = "none"
    /\ chan' = [chan EXCEPT !.lock = e]
    /\ Go(e, held)
    /\ Touched
    /\ UNCHANGED <<read, wrote>>

\* the REMOTEDEBUG message has been sent; the service may be in debug mode
\* already, which refuses it
lconnect ==
    /\ at["agent"] # "start" /\ Lock("target", "start", "connect")
Refused ==
    /\ at["agent"] = "calling" /\ at["target"] = "start"
    /\ Go("target", "gone")
    /\ UNCHANGED <<chan, read, wrote, broken>>

channel_connect ==
    /\ at["target"] = "connect"
    /\ chan' = [chan EXCEPT !.lock = "none", !.ref = IF @ = 1 THEN 2 ELSE @]
    /\ Go("target", IF chan.ref = 1 THEN "debug" ELSE "gone")
    /\ Touched
    /\ UNCHANGED <<read, wrote>>

\* CMD.cmd of the agent
lwrite == wrote < MaxCmd /\ Lock("agent", "calling", "write")
channel_write ==
    /\ at["agent"] = "write"
    /\ LET cmd == wrote + 1
           dangling == chan.tail # 0 /\ (chan.list = <<>> \/ (chan.list # <<>> /\ Last(chan.list) # chan.tail)) IN
       /\ chan' = [chan EXCEPT !.lock = "none", !.tail = cmd, !.list = IF dangling THEN @ ELSE Append(@, cmd)]
       /\ wrote' = cmd
       /\ broken' = (broken \/ dangling \/ chan.freed > 0)
    /\ Go("agent", "calling")
    /\ UNCHANGED read

\* the loop of debug_hook polls the channel
lread == Lock("target", "debug", "read")

\* mutant: the tail still names the last command
channel_read_Tail(c) ==
    IF c.list = <<>> THEN c ELSE [c EXCEPT !.list = Tail(@)]
channel_read(c) ==
    IF c.list = <<>> THEN c
    ELSE [c EXCEPT !.list = Tail(@), !.tail = IF Len(c.list) = 1 THEN 0 ELSE @]

ReadOne ==
    /\ at["target"] = "read"
    /\ chan' = [channel_read(chan) EXCEPT !.lock = "none"]
    /\ read' = IF chan.list = <<>> THEN read ELSE Append(read, Head(chan.list))
    /\ Go("target", IF chan.list # <<>> /\ Head(chan.list) = MaxCmd THEN "done" ELSE "debug")
    /\ Touched
    /\ UNCHANGED wrote

\* resp(true) or the error has come back: the agent exits and its state is
\* closed, which releases its end; the target's end is collected later
Answered == at["target"] \in {"done", "releasing", "released", "gone"}
lrelease(e) ==
    \/ e = "agent" /\ Answered /\ Lock("agent", "calling", "releasing")
    \/ e = "target" /\ Lock("target", "done", "releasing")

\* mutant: the end that is released first frees the channel
channel_release_First(c) == [c EXCEPT !.ref = @ - 1, !.lock = "none", !.list = <<>>, !.tail = 0, !.freed = @ + 1]
channel_release(c) ==
    IF c.ref > 1 THEN [c EXCEPT !.ref = @ - 1, !.lock = "none"]
    ELSE [c EXCEPT !.ref = @ - 1, !.lock = "none", !.list = <<>>, !.tail = 0, !.freed = @ + 1]

Release(e) ==
    /\ at[e] = "releasing"
    /\ chan' = channel_release(chan)
    /\ Go(e, "released")
    /\ Touched
    /\ UNCHANGED <<read, wrote>>

ChannelNext ==
    \/ lcreate \/ lconnect \/ Refused \/ channel_connect
    \/ lwrite \/ channel_write \/ lread \/ ReadOne
    \/ \E e \in Ends : lrelease(e) \/ Release(e)

ChannelSpec == ChannelInit /\ [][ChannelNext]_channelVars

-----------------------------------------------------------------------------

(* The debugged service gets the commands of the console in their order,   *)
(* each once; nothing touches the channel or a command after it was freed, *)
(* and once both ends are gone the channel has been freed exactly once.    *)
ChannelKept ==
    /\ ~broken
    /\ \A i \in 1..Len(read) : read[i] = i
    /\ chan.freed <= 1
    /\ (at["agent"] = "released" /\ at["target"] \in {"released", "gone"}) => chan.freed = 1
    /\ (at["target"] = "done" /\ at["agent"] = "calling") => Len(read) = wrote
=============================================================================
