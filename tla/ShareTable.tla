----------------------------- MODULE ShareTable -----------------------------
(***************************************************************************)
(* Lua tables shared without copying: lualib-src/lua-sharetable.c loads a  *)
(* file into a Lua state of its own (a matrix) and marks what it returns   *)
(* shared; the service of lualib/skynet/sharetable.lua counts which client *)
(* uses which version and closes a state nobody uses.                      *)
(*                                                                         *)
(* A source is a graph of tables: [root, node], where a node has the tables *)
(* it refers to and the kind of its other contents: "plain", "meta" (it    *)
(* has a metatable), "closure" (a function with upvalues) or "userdata".   *)
(* A matrix is known by its pointer, which malloc gives out again.         *)
(***************************************************************************)
EXTENDS Integers, Sequences, SequencesExt, FiniteSets, FiniteSetsExt

CONSTANTS Files, Clients, Pointers,
          Sources,  \* what a file may hold when it is loaded
          MaxLoad,  \* bound: loads
          MaxCalls  \* bound: queries of a client

NoMatrix == 0

VARIABLES state,   \* of each pointer: the open matrix there, or Closed
          files,   \* the service: the current matrix of a file, [ptr, gen]
          matrix,  \*   of each pointer [file, gen, refs, used]
          held,    \* clients: the versions a client got, as <<ptr, gen>>
          client,  \*   "run", "call" (waits for an answer), "gone"
          mail,    \* messages to the service, in order
          bound    \* [gen, calls, broken]: bounds; files whose matrix was closed by a load that failed

shareVars == <<state, files, matrix, held, client, mail, bound>>

Closed == [open |-> FALSE, gen |-> 0, shared |-> {}]
NoRef == [used |-> FALSE, file |-> NoMatrix, gen |-> 0, refs |-> {}]
None == [ptr |-> NoMatrix, gen |-> 0]

ShareInit ==
    /\ state = [p \in Pointers |-> Closed]
    /\ files = [f \in Files |-> None]
    /\ matrix = [p \in Pointers |-> NoRef]
    /\ held = [c \in Clients |-> {}]
    /\ client = [c \in Clients |-> "run"]
    /\ mail = <<>>
    /\ bound = [gen |-> 0, calls |-> [c \in Clients |-> 0], broken |-> {}]

-----------------------------------------------------------------------------
(* lua-sharetable.c.                                                       *)

\* marks a table and what it refers to; [ok, shared].  A table is marked before
\* its contents, so that a cycle ends
RECURSIVE mark_shared(_, _, _)
mark_shared(src, t, r) ==
    IF ~r.ok \/ t \in r.shared THEN r
    ELSE LET marked == [r EXCEPT !.shared = @ \cup {t}]
         IN IF src.node[t].kind # "plain" THEN [marked EXCEPT !.ok = FALSE]
            ELSE FoldLeft(LAMBDA acc, u : mark_shared(src, u, acc), marked, src.node[t].refs)

make_matrix(src) == mark_shared(src, src.root, [ok |-> TRUE, shared |-> {}])

\* a new state in which the file's chunk ran: it may raise an error
load_matrixfile(src) == IF src.root = NoMatrix THEN [ok |-> FALSE, shared |-> {}] ELSE make_matrix(src)

FreshPtr(s) == Min({p \in Pointers : ~s[p].open})

\* closes the state of a matrix, if it still has one
IsOpen(s, m) == m.ptr # NoMatrix /\ s[m.ptr].open /\ s[m.ptr].gen = m.gen
close_state(s, m) == IF IsOpen(s, m) THEN [s EXCEPT ![m.ptr] = Closed] ELSE s
get_matrix(s, m) == IF IsOpen(s, m) THEN m.ptr ELSE NoMatrix

-----------------------------------------------------------------------------
(* The service.  A load closes the file's last matrix if nobody uses it;   *)
(* when the load then fails, the file keeps the closed one, and every      *)
(* later load or query of that file fails too (matrix[nil]).               *)

Unused_Always(m) == TRUE
Unused(m) == LET p == get_matrix(state, m) IN ~matrix[p].used \/ matrix[p].refs = {}

close_matrix(f) ==
    IF files[f] = None \/ ~Unused(files[f]) THEN [state |-> state, matrix |-> matrix]
    ELSE [state |-> close_state(state, files[f]), matrix |-> [matrix EXCEPT ![files[f].ptr] = NoRef]]

loadfile(f, src) ==
    /\ bound.gen < MaxLoad /\ f \notin bound.broken
    /\ LET c == close_matrix(f)
           r == load_matrixfile(src)
           gone == files[f] # None /\ ~IsOpen(c.state, files[f])
           g == bound.gen + 1
       IN /\ \E p \in Pointers : ~c.state[p].open
          /\ matrix' = c.matrix
          /\ IF r.ok
             THEN LET p == FreshPtr(c.state) IN
                  /\ state' = [c.state EXCEPT ![p] = [open |-> TRUE, gen |-> g, shared |-> r.shared]]
                  /\ files' = [files EXCEPT ![f] = [ptr |-> p, gen |-> g]]
                  /\ bound' = [bound EXCEPT !.gen = g]
             ELSE /\ state' = c.state /\ files' = files
                  /\ bound' = [bound EXCEPT !.gen = g, !.broken = IF gone THEN @ \cup {f} ELSE @]
    /\ UNCHANGED <<held, client, mail>>

\* the service takes the first message of its queue
query_file(c, f) ==
    IF files[f] = None
    THEN /\ client' = [client EXCEPT ![c] = IF @ = "call" THEN "run" ELSE @]
         /\ UNCHANGED <<matrix, held>>
    ELSE LET m == files[f]
             ref == IF matrix[m.ptr].used THEN matrix[m.ptr] ELSE [used |-> TRUE, file |-> f, gen |-> m.gen, refs |-> {}]
         IN /\ matrix' = [matrix EXCEPT ![m.ptr] = [ref EXCEPT !.refs = @ \cup {c}]]
            /\ IF client[c] = "call"
               THEN held' = [held EXCEPT ![c] = @ \cup {<<m.ptr, m.gen>>}] /\ client' = [client EXCEPT ![c] = "run"]
               ELSE UNCHANGED <<held, client>>

\* a client that ends gives up every version; one that is not current is closed
Released(c, p) == matrix[p].used /\ c \in matrix[p].refs
Superseded(p) == files[matrix[p].file] # [ptr |-> p, gen |-> matrix[p].gen]
CloseClient(c) ==
    LET last == {p \in Pointers : Released(c, p) /\ matrix[p].refs = {c} /\ Superseded(p)}
    IN /\ matrix' = [p \in Pointers |-> IF p \in last THEN NoRef
                                        ELSE IF Released(c, p) THEN [matrix[p] EXCEPT !.refs = @ \ {c}] ELSE matrix[p]]
       /\ state' = [p \in Pointers |-> IF p \in last THEN Closed ELSE state[p]]

Dispatch ==
    /\ mail # <<>>
    /\ mail' = Tail(mail)
    /\ LET m == Head(mail) IN
       IF m.cmd = "query"
       THEN /\ IF m.f \in bound.broken THEN client' = [client EXCEPT ![m.c] = IF @ = "call" THEN "run" ELSE @] /\ UNCHANGED <<matrix, held>>
               ELSE query_file(m.c, m.f)
            /\ UNCHANGED state
       ELSE CloseClient(m.c) /\ UNCHANGED <<held, client>>
    /\ UNCHANGED <<files, bound>>

-----------------------------------------------------------------------------
(* The clients.  A service that exits closes its Lua state, whose __gc     *)
(* tells the service (report_close); a query of it may still be under way. *)

query(c, f) ==
    /\ client[c] = "run" /\ bound.calls[c] < MaxCalls
    /\ client' = [client EXCEPT ![c] = "call"]
    /\ mail' = Append(mail, [cmd |-> "query", c |-> c, f |-> f])
    /\ bound' = [bound EXCEPT !.calls[c] = @ + 1]
    /\ UNCHANGED <<state, files, matrix, held>>

report_close(c) ==
    /\ client[c] # "gone"
    /\ client' = [client EXCEPT ![c] = "gone"]
    /\ held' = [held EXCEPT ![c] = {}]
    /\ mail' = Append(mail, [cmd |-> "close", c |-> c, f |-> NoMatrix])
    /\ UNCHANGED <<state, files, matrix, bound>>

ShareNext ==
    \/ Dispatch
    \/ \E f \in Files, src \in Sources : loadfile(f, src)
    \/ \E c \in Clients : report_close(c) \/ \E f \in Files : query(c, f)

ShareSpec == ShareInit /\ [][ShareNext]_shareVars

-----------------------------------------------------------------------------
(* A client's tables stay: the state of a version it has is not closed, by *)
(* a reload, by another client's exit or by a reload that fails, and its   *)
(* pointer has not become another version's; and a state that is open is   *)
(* the current version of a file or one that some client may still use     *)
(* (close_matrix, sharetable.close, close_state).                          *)
SharedStays ==
    /\ \A c \in Clients : \A v \in held[c] : state[v[1]].open /\ state[v[1]].gen = v[2]
    /\ \A p \in Pointers : state[p].open =>
          \/ \E f \in Files : files[f] = [ptr |-> p, gen |-> state[p].gen]
          \/ matrix[p].used /\ matrix[p].gen = state[p].gen /\ matrix[p].refs # {}
=============================================================================
