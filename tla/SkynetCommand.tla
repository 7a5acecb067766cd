--------------------------- MODULE SkynetCommand ----------------------------
(***************************************************************************)
(* What the callback of a service may ask of the kernel: skynet_send and   *)
(* skynet_sendname with the ownership of the message, the commands of      *)
(* skynet_server.c, the modules, the environment, the message log of a     *)
(* service, skynet_error and the logger, the harbor's entry, the bindings  *)
(* of lua-skynet.c, and the start of a Lua service (service_snlua.c).      *)
(*                                                                         *)
(* A context is dispatched by one thread at a time (SkynetServer), so run  *)
(* gives, of each context, where its thread is.  A command is one step,    *)
(* except where another thread's command can come between two of its       *)
(* accesses: LOGON, LOGOFF, the log in dispatch_message, the search for a  *)
(* module, and the end of a launch.  Message buffers and FILEs are         *)
(* numbers, those that are allocated or open are heap and files.           *)
(***************************************************************************)
EXTENDS Integers, Sequences, SequencesExt, FiniteSets, FiniteSetsExt, Folds

CONSTANTS MaxHandle,   \* bound: handles 1 .. MaxHandle, issued in order
          Names,       \* local names
          Keys,        \* environment variables besides logpath
          Modules,     \* the C services that exist: snlua and others
          NoInit,      \* those among Modules whose library has no _init
          MaxModule,   \* MAX_MODULE_TYPE
          IntMax,      \* INT_MAX
          MaxBuf,      \* bound: message buffers allocated at once
          MaxFile,     \* bound: FILEs ever opened
          MaxOps,      \* bound: operations of the services
          Dests,       \* the handles the services send to; MaxHandle + 1 is remote
          Mutual       \* the sets of operations a behaviour may use together

Handles == 1 .. MaxHandle
Logger == 1
Harbor == 2
Services == {3, 4}     \* the services that are there at the start
Remote == MaxHandle + 1  \* a handle of another harbor
Nobody == 0
None == 0
Free == [at |-> "idle"]

VARIABLES k,    \* the kernel: contexts, names, environment, modules, heap, files
          run,  \* of each context, where the thread that dispatches it is
          ops   \* the operations this behaviour uses

commandVars == <<k, run, ops>>

NoContext == [st |-> "none", reg |-> FALSE, ref |-> 0, cb |-> "none", queue |-> <<>>, logfile |-> None,
              session |-> 0, count |-> 0, endless |-> FALSE, init |-> FALSE, pushed |-> FALSE, hands |-> {}]
Running == [NoContext EXCEPT !.st = "live", !.reg = TRUE, !.ref = 1, !.cb = "lua", !.init = TRUE, !.pushed = TRUE]
Tick == [type |-> "client", source |-> Nobody, session |-> 0, buf |-> None, inner |-> None]

\* the harbor is reserved: skynet_harbor_start gives it a second reference
\* and takes it out of the count of contexts
skynet_harbor_start(c) == [c EXCEPT !.ref = @ + 1]

Kernel ==
    [ctx |-> [h \in Handles |-> CASE h = Logger -> [Running EXCEPT !.cb = "logger"]
                                  [] h = Harbor -> skynet_harbor_start([Running EXCEPT !.cb = "harbor"])
                                  [] h \in Services -> [Running EXCEPT !.queue = <<Tick>>]
                                  [] OTHER      -> NoContext],
     total |-> 3, name |-> [n \in Names \cup {"logger"} |-> IF n = "logger" THEN Logger ELSE Nobody],
     env |-> [e \in Keys \cup {"logpath"} |-> IF e = "logpath" THEN "v" ELSE ""],
     mods |-> <<"logger">>, monitor_exit |-> Nobody, logger |-> Nobody, remote |-> Harbor,
     heap |-> {}, lost |-> {}, files |-> {}, opened |-> 0, logfd |-> 1, used |-> 0,
     wrong |-> {},  \* "free", "close", "write": of what was given back already; "assert"
     late |-> {},   \* "context": a freed one used by its launcher; "log": a line written
                    \* to a file that LOGOFF has closed
     answer |-> [h \in Handles |-> 0]]  \* what the last command or send returned

CommandInit == k = Kernel /\ run = [h \in Handles |-> Free] /\ ops \in Mutual

-----------------------------------------------------------------------------
(* Buffers, contexts, queues.                                              *)

Fresh(s) == Min((1 .. MaxBuf) \ (s.heap \cup s.lost))
Room(s, n) == Cardinality(s.heap \cup s.lost) + n <= MaxBuf
skynet_malloc(s) == [s EXCEPT !.heap = @ \cup {Fresh(s)}]
skynet_free(s, b) ==
    IF b = None THEN s
    ELSE IF b \in s.heap THEN [s EXCEPT !.heap = @ \ {b}] ELSE [s EXCEPT !.wrong = @ \cup {"free"}]
fclose(s, f) == IF f \in s.files THEN [s EXCEPT !.files = @ \ {f}] ELSE [s EXCEPT !.wrong = @ \cup {"close"}]
Wrong(s, why) == [s EXCEPT !.wrong = @ \cup {why}]

context_inc(s) == [s EXCEPT !.total = @ + 1]
context_dec(s) == [s EXCEPT !.total = @ - 1]

delete_context(s, h) ==
    LET closed == IF s.ctx[h].logfile = None THEN s ELSE fclose(s, s.ctx[h].logfile)
        logged == IF h = Logger THEN [closed EXCEPT !.logfd = 0] ELSE closed  \* logger_release
    IN context_dec([logged EXCEPT !.ctx[h].st = "dead", !.ctx[h].logfile = None])

skynet_context_grab(s, h) == [s EXCEPT !.ctx[h].ref = @ + 1]
skynet_context_release(s, h) ==
    LET d == [s EXCEPT !.ctx[h].ref = @ - 1]
    IN IF s.ctx[h].ref = 1 THEN delete_context(d, h) ELSE d

\* skynet_handle_grab finds the context of a handle, or nothing
Found(s, h) == h \in Handles /\ s.ctx[h].reg
skynet_handle_retire(s, h) ==
    IF Found(s, h)
    THEN skynet_context_release([s EXCEPT !.ctx[h].reg = FALSE,
                                          !.name = [n \in DOMAIN @ |-> IF @[n] = h THEN Nobody ELSE @[n]]], h)
    ELSE s
skynet_handle_findname(s, n) == s.name[n]
skynet_handle_namehandle(s, h, n) == IF s.name[n] = Nobody THEN [s EXCEPT !.name[n] = h] ELSE s

skynet_mq_push(s, h, m) == [s EXCEPT !.ctx[h].queue = Append(@, m)]
Message(type, source, session, b) == [type |-> type, source |-> source, session |-> session, buf |-> b, inner |-> None]

skynet_context_newsession(s, c) ==
    LET session == IF s.ctx[c].session = IntMax THEN -IntMax - 1 ELSE s.ctx[c].session + 1
    IN [s EXCEPT !.ctx[c].session = IF session <= 0 THEN 1 ELSE session,
                 !.answer[c] = IF session <= 0 THEN 1 ELSE session]

-----------------------------------------------------------------------------
(* skynet_error: the handle of the logger is looked for once; a line that  *)
(* cannot be pushed is not freed.                                          *)

PushLine(s, source, b) ==
    IF s.logger = Nobody THEN s
    ELSE IF Found(s, s.logger) THEN skynet_mq_push(skynet_malloc(s), s.logger, Message("text", source, 0, b))
    ELSE [s EXCEPT !.lost = @ \cup {b}]

skynet_error(s, source) ==
    PushLine(IF s.logger = Nobody THEN [s EXCEPT !.logger = skynet_handle_findname(s, "logger")] ELSE s, source, Fresh(s))

-----------------------------------------------------------------------------
(* Sending.  A message is [dontcopy, alloc, type, session, buf, big]; buf  *)
(* is the caller's pointer, None for NULL, Own for a Lua string.           *)

Own == MaxBuf + 1

skynet_harbor_message_isremote(h) == h = Remote

\* the message now belongs to the harbor, in an envelope of its own
skynet_harbor_send(s, inner, type, source, session) ==
    LET b == Fresh(s)
    IN IF type \in {"system", "harbor"} \/ s.remote = Nobody THEN Wrong(s, "assert")
       ELSE skynet_mq_push(skynet_malloc(s), s.remote, [Message("system", source, session, b) EXCEPT !.inner = inner])

\* the session and the copy: [s, session, data]
Copies(m) == ~m.dontcopy /\ m.buf # None
Copied(s, c, m) ==
    [s |-> IF Copies(m) THEN skynet_malloc(s) ELSE s, session |-> IF m.alloc THEN s.answer[c] ELSE m.session,
     data |-> IF Copies(m) THEN Fresh(s) ELSE m.buf]
_filter_args(s, c, m) == Copied(IF m.alloc THEN skynet_context_newsession(s, c) ELSE s, c, m)

TooLarge(s, c, m) ==
    LET Told(t) == [(IF m.dontcopy THEN skynet_free(t, m.buf) ELSE t) EXCEPT !.answer[c] = -2] IN Told(skynet_error(s, c))

\* c is the context that sends, Nobody for drop_message
Answer(s, c, r) == IF c = Nobody THEN s ELSE [s EXCEPT !.answer[c] = r]

\* a: what _filter_args made of the message
SendTo(a, c, source, dest, type) ==
    CASE dest = Nobody /\ a.data # None -> Answer(skynet_free(skynet_error(a.s, c), a.data), c, -1)
      [] dest = Nobody /\ a.data = None -> Answer(a.s, c, a.session)
      [] skynet_harbor_message_isremote(dest) ->
            Answer(skynet_harbor_send(a.s, a.data, type, source, a.session), c, a.session)
      [] Found(a.s, dest) -> Answer(skynet_mq_push(a.s, dest, Message(type, source, a.session, a.data)), c, a.session)
      [] OTHER -> Answer(skynet_free(a.s, a.data), c, -1)

skynet_send(s, c, source, dest, m) ==
    IF m.big THEN TooLarge(s, c, m) ELSE SendTo(_filter_args(s, c, m), c, source, dest, m.type)

\* an address is [to |-> handle], [local |-> name] or [global |-> name]
skynet_sendname(s, c, source, addr, m) ==
    LET Named(dest) == IF dest = Nobody THEN Answer(IF m.dontcopy THEN skynet_free(s, m.buf) ELSE s, c, -1)
                       ELSE skynet_send(s, c, source, dest, m)
    IN CASE "to" \in DOMAIN addr -> skynet_send(s, c, source, addr.to, m)
         [] "local" \in DOMAIN addr -> Named(skynet_handle_findname(s, addr.local))
         [] "global" \in DOMAIN addr /\ m.big -> TooLarge(s, c, m)
         [] OTHER -> SendTo(_filter_args(s, c, m), c, source, Remote, m.type)

Plain(type) == [dontcopy |-> FALSE, alloc |-> FALSE, type |-> type, session |-> 0, buf |-> None, big |-> FALSE]

\* every message of a queue whose context is gone is freed, its source told
drop_message(s, h, m) == skynet_send(skynet_free(s, m.buf), Nobody, h, m.source, Plain("error"))

-----------------------------------------------------------------------------
(* The bindings.  A pointer given to lsend or ltrash leaves the service's  *)
(* hands, whatever becomes of the message.                                 *)

Here(at) == {c \in Handles : run[c].at = at}
Can(op, n) == op \in ops /\ k.used < MaxOps /\ Room(k, n)
Spent(s) == [s EXCEPT !.used = @ + 1]

Addresses == {[to |-> h] : h \in Dests} \cup {[local |-> n] : n \in Names} \cup {[global |-> "G"]}
Payloads(c) ==
    {[dontcopy |-> FALSE, alloc |-> FALSE, type |-> "lua", session |-> 0, buf |-> b, big |-> g] : b \in {None, Own}, g \in BOOLEAN}
    \cup {[dontcopy |-> TRUE, alloc |-> TRUE, type |-> "lua", session |-> 0, buf |-> b, big |-> g] : b \in k.ctx[c].hands, g \in BOOLEAN}

send_message(s, c, source, addr, m) ==
    LET given == IF m.dontcopy THEN [s EXCEPT !.ctx[c].hands = @ \ {m.buf}] ELSE s
    IN IF "to" \in DOMAIN addr THEN skynet_send(given, c, source, addr.to, m)
       ELSE skynet_sendname(given, c, source, addr, m)

Stay == UNCHANGED <<run, ops>>

lsend(c) ==
    /\ Can("send", 2)
    /\ \E addr \in Addresses, m \in Payloads(c) :
          /\ ("to" \in DOMAIN addr /\ addr.to \in Handles) => k.ctx[addr.to].pushed
          /\ k' = Spent(send_message(k, c, c, addr, m))
    /\ Stay

\* a redirected message names a source of the sender's choice
lredirect(c) ==
    /\ Can("send", 2)
    /\ \E h \in {x \in Dests \cap Handles : k.ctx[x].pushed}, m \in {p \in Payloads(c) : p.dontcopy} :
          k' = Spent(send_message(k, c, Logger, [to |-> h], [m EXCEPT !.alloc = FALSE, !.session = 1]))
    /\ Stay

lgenid(c) ==
    /\ Can("session", 0)
    /\ k' = Spent(skynet_send(k, c, c, Nobody, [Plain("") EXCEPT !.alloc = TRUE]))
    /\ Stay

lfromstring(c) ==
    /\ Can("send", 1)
    /\ k' = Spent([skynet_malloc(k) EXCEPT !.ctx[c].hands = @ \cup {Fresh(k)}])
    /\ Stay

ltrash(c) ==
    /\ \E b \in k.ctx[c].hands : k' = skynet_free([k EXCEPT !.ctx[c].hands = @ \ {b}], b)
    /\ Stay

lerror(c) == Can("error", 1) /\ k' = Spent(skynet_error(k, c)) /\ Stay

lcallback(c) ==
    /\ Can("callback", 0)
    /\ \E f \in {"lua", "forward"} : k' = Spent([k EXCEPT !.ctx[c].cb = f])
    /\ Stay

-----------------------------------------------------------------------------
(* The commands that are one step.                                         *)

Command(c, op, n, s) == Can(op, n) /\ k' = Spent(s) /\ Stay

cmd_timeout(c) ==
    LET s == skynet_context_newsession(k, c) IN
    Command(c, "session", 0,
            IF Found(k, c) THEN skynet_mq_push(s, c, Message("response", Nobody, s.answer[c], None)) ELSE s)
cmd_reg(c) ==
    \/ Command(c, "name", 0, Answer(k, c, c))
    \/ \E n \in Names : Command(c, "name", 0, skynet_handle_namehandle(k, c, n))
cmd_query(c) == \E n \in Names : Command(c, "name", 0, Answer(k, c, skynet_handle_findname(k, n)))
cmd_name(c) == \E n \in Names, h \in Handles : Command(c, "name", 0, skynet_handle_namehandle(k, h, n))

\* the monitor learns of the exit before the handle is retired
handle_exit(s, c, h) ==
    LET said == skynet_error(s, c)
        told == IF s.monitor_exit = Nobody THEN said
                ELSE skynet_send(said, c, h, s.monitor_exit, Plain("client"))
    IN skynet_handle_retire(told, h)

cmd_exit(c) == Command(c, "kill", 1, handle_exit(k, c, c))

\* what tohandle makes of ":hex", ".name" and anything else
tohandle == {[h |-> h, s |-> k] : h \in {x \in Handles : k.ctx[x].st # "none"}}
            \cup {[h |-> skynet_handle_findname(k, n), s |-> k] : n \in Names}
Unknown(c) == [h |-> Nobody, s |-> skynet_error(k, c)]

cmd_kill(c) ==
    /\ Can("kill", 1)
    /\ \E t \in tohandle \cup {Unknown(c)} : Command(c, "kill", 1, IF t.h = Nobody THEN t.s ELSE handle_exit(t.s, c, t.h))
cmd_monitor(c) == \E t \in tohandle : Command(c, "monitor", 0, [k EXCEPT !.monitor_exit = t.h])
cmd_abort(c) == Command(c, "abort", 0, FoldLeft(skynet_handle_retire, k, SetToSeq(Handles)))

skynet_getenv(s, key) == s.env[key]
skynet_setenv(s, key, v) == IF s.env[key] # "" THEN Wrong(s, "env") ELSE [s EXCEPT !.env[key] = v]
cmd_getenv(c) == \E e \in Keys : Command(c, "env", 0, Answer(k, c, IF skynet_getenv(k, e) = "" THEN 0 ELSE 1))
cmd_setenv(c) == \E e \in Keys : k.env[e] = "" /\ Command(c, "env", 0, skynet_setenv(k, e, "v"))

cmd_stat(c) ==
    \/ Command(c, "stat", 0, Answer(k, c, Len(k.ctx[c].queue)))
    \/ Command(c, "stat", 0, Answer(k, c, k.ctx[c].count))
    \/ Command(c, "stat", 0, [k EXCEPT !.answer[c] = IF k.ctx[c].endless THEN 1 ELSE 0, !.ctx[c].endless = FALSE])

skynet_context_endless ==
    /\ "stat" \in ops
    /\ \E h \in Handles : Found(k, h) /\ ~k.ctx[h].endless /\ k' = [k EXCEPT !.ctx[h].endless = TRUE]
    /\ Stay

Commands(c) ==
    \/ cmd_timeout(c) \/ cmd_reg(c) \/ cmd_query(c) \/ cmd_name(c) \/ cmd_exit(c) \/ cmd_kill(c)
    \/ cmd_monitor(c) \/ cmd_abort(c) \/ cmd_getenv(c) \/ cmd_setenv(c) \/ cmd_stat(c)

-----------------------------------------------------------------------------
(* LOGON and LOGOFF: the target's logfile is loaded, then the file opened  *)
(* or closed, with a compare-and-swap in between.  h is kept by a          *)
(* reference meanwhile.                                                    *)

Goto(c, p) == run' = [run EXCEPT ![c] = p] /\ UNCHANGED ops
Back(c) == Goto(c, [at |-> "run", msg |-> run[c].msg])

LogLoad_NoGrab(c, op) ==
    /\ Can("log", 1)
    /\ \E t \in tohandle :
          /\ Found(k, t.h)
          /\ k' = Spent(k)
          /\ Goto(c, [at |-> op, msg |-> run[c].msg, h |-> t.h, f |-> k.ctx[t.h].logfile])
LogLoad(c, op) ==
    /\ Can("log", 1)
    /\ \E t \in tohandle :
          /\ Found(k, t.h)
          /\ k' = Spent(skynet_context_grab(k, t.h))
          /\ Goto(c, [at |-> op, msg |-> run[c].msg, h |-> t.h, f |-> k.ctx[t.h].logfile])

\* fopen may fail
skynet_log_open(c) ==
    /\ run[c].at = "logon" /\ run[c].f = None /\ k.env["logpath"] # "" /\ k.opened < MaxFile /\ Room(k, 1)
    /\ LET s == skynet_error(k, c) IN
       \/ /\ k' = [s EXCEPT !.files = @ \cup {k.opened + 1}, !.opened = @ + 1]
          /\ Goto(c, [run[c] EXCEPT !.at = "logcas", !.f = k.opened + 1])
       \/ /\ k' = skynet_context_release(s, run[c].h)
          /\ Back(c)

cmd_logon_Keep(c) ==
    /\ run[c].at = "logcas"
    /\ k' = skynet_context_release([k EXCEPT !.ctx[run[c].h].logfile = run[c].f], run[c].h)
    /\ Back(c)
cmd_logon(c) ==
    \/ /\ run[c].at = "logon" /\ (run[c].f # None \/ k.env["logpath"] = "")
       /\ k' = skynet_context_release(k, run[c].h) /\ Back(c)
    \/ /\ run[c].at = "logcas"
       /\ LET s == IF k.ctx[run[c].h].logfile = None THEN [k EXCEPT !.ctx[run[c].h].logfile = run[c].f]
                   ELSE fclose(k, run[c].f)
          IN k' = skynet_context_release(s, run[c].h)
       /\ Back(c)

skynet_log_close(s, c, f) == fclose(skynet_error(s, c), f)

cmd_logoff(c) ==
    /\ run[c].at = "logoff" /\ Room(k, 1)
    /\ LET f == run[c].f
           s == IF f # None /\ k.ctx[run[c].h].logfile = f
                THEN skynet_log_close([k EXCEPT !.ctx[run[c].h].logfile = None], c, f) ELSE k
       IN k' = skynet_context_release(s, run[c].h)
    /\ Back(c)

\* SIGNAL calls the module's signal function of the target, under a reference
cmd_signal(c) ==
    \E t \in tohandle : Found(k, t.h) /\ Command(c, "log", 0, skynet_context_release(skynet_context_grab(k, t.h), t.h))

-----------------------------------------------------------------------------
(* LAUNCH.  The module is looked for without the lock, then again with it; *)
(* a library is opened with the lock held.                                 *)

_query(s, m) == \E i \in DOMAIN s.mods : s.mods[i] = m
open_sym(m) == m \notin NoInit
_try_open(m) == m \in Modules

Launch(c) ==
    /\ Can("launch", 3)
    /\ \E m \in Modules \cup NoInit \cup {"missing"} :
          /\ Goto(c, [at |-> IF _query(k, m) THEN "create" ELSE "query", msg |-> run[c].msg, m |-> m])
          /\ k' = Spent(k)

skynet_module_query(c) ==
    /\ run[c].at = "query"
    /\ LET m == run[c].m
           loaded == ~_query(k, m) /\ Len(k.mods) < MaxModule /\ _try_open(m) /\ open_sym(m)
       IN /\ k' = IF loaded THEN [k EXCEPT !.mods = Append(@, m)] ELSE k
          /\ IF loaded \/ _query(k, m) THEN Goto(c, [run[c] EXCEPT !.at = "create"]) ELSE Back(c)

\* the launch arguments, sent to itself before anybody knows the handle
snlua_init(s, h) ==
    LET b == Fresh(s)
    IN skynet_send(skynet_malloc([s EXCEPT !.ctx[h].cb = "launch"]), h, h, h,
                   [dontcopy |-> TRUE, alloc |-> FALSE, type |-> "launch", session |-> 0, buf |-> b, big |-> FALSE])

NewHandle == Min({h \in Handles : k.ctx[h].st = "none"})

\* the context is registered and its module initialised; a second logger
\* cannot open its file and fails (logger_init): the context goes again
skynet_context_new(c) ==
    /\ run[c].at = "create" /\ Room(k, 2)
    /\ \E h \in Handles : k.ctx[h].st = "none"
    /\ LET h == NewHandle
           made == context_inc([k EXCEPT !.ctx[h] = [NoContext EXCEPT !.st = "live", !.reg = TRUE, !.ref = 2]])
           failed == skynet_handle_retire(skynet_context_release(skynet_error(made, h), h), h)
       IN \/ /\ run[c].m # "logger"
             /\ k' = snlua_init(made, h)
             /\ Goto(c, [at |-> "release", msg |-> run[c].msg, h |-> h])
          \/ /\ run[c].m = "logger"
             /\ k' = failed
             /\ Back(c)

\* skynet_context_new after the init: the reference is given up first
LaunchRelease(c) ==
    /\ run[c].at = "release"
    /\ k' = skynet_context_release(k, run[c].h)
    /\ Goto(c, [run[c] EXCEPT !.at = IF k.ctx[run[c].h].ref = 1 THEN "push" ELSE "init"])

Gone(h) == k.ctx[h].st = "dead"
Late(s, h) == IF Gone(h) THEN [s EXCEPT !.late = @ \cup {"context"}] ELSE s

LaunchInit_Nothing(c) ==
    /\ run[c].at = "init"
    /\ k' = Late(k, run[c].h)
    /\ Goto(c, [run[c] EXCEPT !.at = "push"])
LaunchInit(c) ==
    /\ run[c].at = "init"
    /\ k' = Late(IF Gone(run[c].h) THEN k ELSE [k EXCEPT !.ctx[run[c].h].init = TRUE], run[c].h)
    /\ Goto(c, [run[c] EXCEPT !.at = "push"])

\* skynet_globalmq_push, then the LAUNCH line and inst->handle
LaunchPush(c) ==
    /\ run[c].at = "push"
    /\ k' = [k EXCEPT !.ctx[run[c].h].pushed = TRUE]
    /\ Goto(c, [run[c] EXCEPT !.at = "told"])
id_to_hex(id) == [i \in 1 .. 8 |-> (id \div (16 ^ (8 - i))) % 16]
laddresscommand(hex) == FoldLeft(LAMBDA addr, d : (addr * 16) + d, 0, hex)
cmd_launch(c) ==
    /\ run[c].at = "told" /\ Room(k, 1)
    /\ k' = Answer(skynet_error(Late(k, run[c].h), c), c, laddresscommand(id_to_hex(run[c].h)))
    /\ Back(c)

-----------------------------------------------------------------------------
(* Dispatching.                                                            *)

\* a thread takes the next message, with the context's log file as it is
TakeMessage(c) ==
    /\ run[c].at = "idle" /\ k.ctx[c].pushed /\ k.ctx[c].reg /\ k.ctx[c].queue # <<>>
    /\ LET m == Head(k.ctx[c].queue)
           s == skynet_context_grab([k EXCEPT !.ctx[c].queue = Tail(@)], c)
       IN IF k.ctx[c].cb = "none"
          THEN k' = skynet_context_release(skynet_free(s, m.buf), c) /\ UNCHANGED <<run, ops>>
          ELSE /\ k' = [(IF k.ctx[c].init THEN s ELSE Wrong(s, "assert")) EXCEPT !.ctx[c].count = @ + 1]
               /\ Goto(c, IF k.ctx[c].logfile = None THEN [at |-> "run", msg |-> m]
                          ELSE [at |-> "log", msg |-> m, f |-> k.ctx[c].logfile])

skynet_log_output(c) ==
    /\ run[c].at = "log"
    /\ k' = IF run[c].f \in k.files THEN k ELSE [k EXCEPT !.late = @ \cup {"log"}]
    /\ Back(c)

\* the callback returned: a message it does not keep is freed
dispatch_message_Always(s, c, m, keep) == skynet_context_release(skynet_free(Answer(s, c, 0), m.buf), c)
dispatch_message(s, c, m, keep) ==
    LET a == Answer(s, c, 0) IN skynet_context_release(IF keep THEN a ELSE skynet_free(a, m.buf), c)

\* the callback of a Lua service: any number of operations, then the end.  In
\* forward mode the service has the message and must send it on or trash it
_cb(c) ==
    /\ run[c].at = "run" /\ k.ctx[c].cb \in {"lua", "forward"}
    /\ LET m == run[c].msg
           keep == k.ctx[c].cb = "forward"
           s == IF keep /\ m.buf # None THEN [k EXCEPT !.ctx[c].hands = @ \cup {m.buf}] ELSE k
       IN k' = dispatch_message(s, c, m, keep)
    /\ Goto(c, Free)

\* the loader and the service's chunk: they may set a callback, set none, or
\* fail, of which the launcher is told
report_launcher_error(s, c) == skynet_sendname(s, c, c, [local |-> "launcher"], [Plain("text") EXCEPT !.buf = Own])
init_cb(s, c) == {[s |-> [s EXCEPT !.ctx[c].cb = "lua"], err |-> FALSE], [s |-> s, err |-> FALSE],
                  [s |-> report_launcher_error(skynet_error(s, c), c), err |-> TRUE]}

\* the first message of a Lua service: its own arguments
launch_cb(c) ==
    /\ run[c].at = "run" /\ k.ctx[c].cb = "launch" /\ Room(k, 3)
    /\ LET m == run[c].msg
           s == IF m.type = "launch" /\ m.session = 0 /\ m.source = c THEN k ELSE Wrong(k, "assert")
       IN \E r \in init_cb([s EXCEPT !.ctx[c].cb = "none"], c) :
             k' = dispatch_message(IF r.err THEN handle_exit(r.s, c, c) ELSE r.s, c, m, FALSE)
    /\ Goto(c, Free)

\* the logger writes the line, or opens its file again
logger_cb(c) ==
    /\ run[c].at = "run" /\ k.ctx[c].cb = "logger"
    /\ k' = dispatch_message(IF k.logfd = 0 THEN Wrong(k, "write") ELSE k, c, run[c].msg, FALSE)
    /\ Goto(c, Free)

\* the harbor service sends or queues what is in the envelope and frees it (Harbor)
HarborTakes(c) ==
    /\ run[c].at = "run" /\ k.ctx[c].cb = "harbor"
    /\ k' = dispatch_message(skynet_free(k, run[c].msg.inner), c, run[c].msg, FALSE)
    /\ Goto(c, Free)

\* the queue of a context that is gone
DropQueue(c) ==
    /\ Gone(c) /\ k.ctx[c].pushed /\ k.ctx[c].queue # <<>> /\ run[c].at = "idle"
    /\ k' = LET drop(s, m) == drop_message(s, c, m)
            IN FoldLeft(drop, [k EXCEPT !.ctx[c].queue = <<>>], k.ctx[c].queue)
    /\ Stay

\* with no context left skynet_start gives the harbor back
skynet_harbor_exit ==
    /\ k.total = 0 /\ k.remote # Nobody
    /\ \A c \in Handles : run[c].at = "idle"
    /\ k' = skynet_context_release([k EXCEPT !.remote = Nobody], Harbor)
    /\ Stay

Callback(c) ==
    \/ lsend(c) \/ lredirect(c) \/ lgenid(c) \/ lfromstring(c) \/ ltrash(c) \/ lerror(c) \/ lcallback(c)
    \/ Commands(c) \/ cmd_signal(c) \/ LogLoad(c, "logon") \/ LogLoad(c, "logoff") \/ Launch(c)

CommandNext ==
    \/ \E c \in Handles :
          \/ run[c].at = "run" /\ k.ctx[c].cb \in {"lua", "forward"} /\ Callback(c)
          \/ TakeMessage(c) \/ skynet_log_output(c) \/ _cb(c) \/ launch_cb(c) \/ logger_cb(c) \/ HarborTakes(c)
          \/ skynet_log_open(c) \/ cmd_logon(c) \/ cmd_logoff(c)
          \/ skynet_module_query(c) \/ skynet_context_new(c)
          \/ LaunchRelease(c) \/ LaunchInit(c) \/ LaunchPush(c) \/ cmd_launch(c) \/ DropQueue(c)
    \/ skynet_context_endless \/ skynet_harbor_exit

CommandSpec == CommandInit /\ [][CommandNext]_commandVars

-----------------------------------------------------------------------------
(* Every place a message buffer can be in.                                 *)
Places ==
    LET Of(m) == {m.buf, m.inner} \ {None}
        queued(h) == [i \in DOMAIN k.ctx[h].queue |-> Of(k.ctx[h].queue[i])]
    IN UNION {{<<"queue", h, i, b>> : b \in queued(h)[i]} :
                 <<h, i>> \in {x \in Handles \X (1 .. 20) : x[2] \in DOMAIN k.ctx[x[1]].queue}}
       \cup UNION {{<<"run", h, 0, b>> : b \in Of(run[h].msg)} : h \in {x \in Handles : run[x].at # "idle"}}
       \cup UNION {{<<"hands", h, 0, b>> : b \in k.ctx[h].hands} : h \in Handles}

(* Whatever a service sends, to whom, copied or handed over, too large or  *)
(* to a service that is gone, dispatched, forwarded or dropped with its    *)
(* queue: a message buffer is in exactly one place, and freed once and     *)
(* only when it leaves the last (skynet_send, skynet_sendname,             *)
(* dispatch_message, drop_message).  The exception is the line skynet_error *)
(* cannot push: it is never freed.                                         *)
BuffersOwned ==
    /\ "free" \notin k.wrong
    /\ {p[4] : p \in Places} = k.heap
    /\ \A p, q \in Places : p[4] = q[4] => p = q

(* The log file of a service is closed exactly once, by LOGOFF, by the     *)
(* LOGON that lost the race, or with the context, and none is left open    *)
(* that nobody has (cmd_logon, cmd_logoff, delete_context).  The file a    *)
(* dispatch has loaded is open for as long as it is the context's: only a  *)
(* LOGOFF of another service, which takes it from the context first, may   *)
(* close it before the line is written (then `late' has "log").            *)
LogFilesOwned ==
    LET held == {k.ctx[h].logfile : h \in {x \in Handles : k.ctx[x].st = "live"}}
                \cup {run[c].f : c \in Here("logcas")}
    IN /\ "close" \notin k.wrong /\ held \ {None} = k.files
       /\ \A c \in Here("log") : run[c].f \in k.files \/ k.ctx[c].logfile # run[c].f

(* Who dispatches a context has it, whatever KILL, EXIT and ABORT do       *)
(* meanwhile, and so has a LOGON or LOGOFF that opens or closes a file for *)
(* another one (skynet_context_grab, skynet_handle_grab).  Only a launcher *)
(* looks into a context it has no reference to any more: the one it has    *)
(* just made, to set init, to write the LAUNCH line and to read its handle *)
(* (then `late' may have "context").                                       *)
ContextsHeld ==
    /\ \A c \in Handles : run[c].at # "idle" => ~Gone(c)
    /\ \A c \in Here("logon") \cup Here("logcas") \cup Here("logoff") : ~Gone(run[c].h)

(* None of the assertions on the way of a message fails: one is dispatched *)
(* with ctx->init set, the first that a Lua service gets is its own launch *)
(* message, and what goes to a harbor has one of the types it may have and *)
(* finds its service (dispatch_message, launch_cb, skynet_harbor_send).  A *)
(* module is loaded once though two services may find it missing at the    *)
(* same time (skynet_module_query).                                        *)
LaunchOrderly ==
    /\ "assert" \notin k.wrong
    /\ IsInjective(k.mods)
=============================================================================
