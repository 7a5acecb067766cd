-------------------------------- MODULE Tls ---------------------------------
(***************************************************************************)
(* lualib-src/ltls.c between a socket and OpenSSL: what comes from the     *)
(* socket is written to in_bio, what OpenSSL produces is read from         *)
(* out_bio; lualib/http/tlshelper.lua drives it on the client and on the   *)
(* server.  OpenSSL is modelled by its records: it takes a record when all *)
(* of it is in in_bio.  A record is two bytes <<r, 1>>, <<r, 2>>, so that  *)
(* the socket may cut it.                                                  *)
(***************************************************************************)
EXTENDS Integers, Sequences, SequencesExt

CONSTANTS Versions,  \* of TLS: 12 or 13
          MaxMsg     \* bound: messages each side writes

Sides == {"client", "server"}
Other(x) == IF x = "client" THEN "server" ELSE "client"

VARIABLES ver,  \* the version that was negotiated
          tls,  \* of each side [in, out, step, at, wrote, got]
          net,  \* bytes on their way to a side
          early \* a side's handshake was given more than the handshake

tlsVars == <<ver, tls, net, early>>

Bytes(r) == <<<<r, 1>>, <<r, 2>>>>
App(n) == 10 + n  \* records of application data

-----------------------------------------------------------------------------
(* OpenSSL.  step counts the flights a side has seen or made: 1 and 3 are  *)
(* the client's, 2 and 4 the server's; with TLS 1.3 the client ends with   *)
(* flight 3, and flight 4 is the session ticket.                           *)

_init_bio(x) == [in |-> <<>>, out |-> <<>>, step |-> 0, at |-> "new", wrote |-> 0, got |-> 0, closed |-> FALSE]
Mine(x, flight) == IF x = "client" THEN flight % 2 = 1 ELSE flight % 2 = 0
SSL_is_init_finished(x, t) == IF ver = 13 /\ x = "client" THEN t.step >= 3 ELSE t.step >= 4

\* a record, when it is complete
Ready(t, r) == Len(t.in) >= 2 /\ t.in[1] = <<r, 1>>

RECURSIVE SSL_do_handshake(_, _)
SSL_do_handshake(x, t) ==
    IF SSL_is_init_finished(x, t) THEN t
    ELSE IF Mine(x, t.step + 1) THEN SSL_do_handshake(x, [t EXCEPT !.step = @ + 1, !.out = @ \o Bytes(t.step + 1)])
    ELSE IF Ready(t, t.step + 1) THEN SSL_do_handshake(x, [t EXCEPT !.step = @ + 1, !.in = SubSeq(@, 3, Len(@))])
    ELSE t

\* the application data of in_bio; a ticket is taken silently
RECURSIVE SSL_read(_)
SSL_read(t) ==
    IF Ready(t, 4) THEN SSL_read([t EXCEPT !.in = SubSeq(@, 3, Len(@))])
    ELSE IF Ready(t, App(t.got + 1)) THEN SSL_read([t EXCEPT !.in = SubSeq(@, 3, Len(@)), !.got = @ + 1])
    ELSE t

-----------------------------------------------------------------------------
(* ltls.c.  An operation gives [t, data]: data goes to the socket.         *)

_bio_read(t) == [t |-> [t EXCEPT !.out = <<>>], data |-> t.out]
_bio_write(t, data) == [t EXCEPT !.in = @ \o data]
_ltls_context_finished(x) == SSL_is_init_finished(x, tls[x])

\* nothing is read from out_bio when the handshake is done
_ltls_context_handshake(x, data) ==
    LET t == SSL_do_handshake(x, _bio_write(tls[x], data))
    IN IF SSL_is_init_finished(x, t) THEN [t |-> t, data |-> <<>>] ELSE _bio_read(t)

_ltls_context_read(x, data) == SSL_read(_bio_write(tls[x], data))

_ltls_context_write_Some(x, n) ==
    IF n = 0 THEN [t |-> tls[x], data |-> <<>>]
    ELSE _bio_read([tls[x] EXCEPT !.out = @ \o Bytes(App(tls[x].wrote + 1)), !.wrote = @ + 1])
_ltls_context_write(x, n) ==
    IF n = 0 THEN _bio_read(tls[x])
    ELSE _bio_read([tls[x] EXCEPT !.out = @ \o Bytes(App(tls[x].wrote + 1)), !.wrote = @ + 1])

-----------------------------------------------------------------------------
(* tlshelper.lua.                                                          *)

TlsInit ==
    /\ ver \in Versions
    /\ tls = [x \in Sides |-> _init_bio(x)]
    /\ net = [x \in Sides |-> <<>>]
    /\ early = FALSE

Sent(x, r, at) ==
    /\ tls' = [tls EXCEPT ![x] = [r.t EXCEPT !.at = at]]
    /\ net' = [net EXCEPT ![Other(x)] = @ \o r.data]

\* init_requestfunc: the client begins
init_requestfunc ==
    /\ tls["client"].at = "new"
    /\ Sent("client", _ltls_context_handshake("client", <<>>), "handshake")
    /\ UNCHANGED <<ver, early>>
init_responsefunc ==
    /\ tls["server"].at = "new"
    /\ tls' = [tls EXCEPT !["server"].at = "handshake"]
    /\ UNCHANGED <<ver, net, early>>

\* while not finished: what the socket has, any part of it, is given to the handshake
Handshake(x, n) ==
    /\ tls[x].at = "handshake" /\ ~_ltls_context_finished(x)
    /\ LET r == _ltls_context_handshake(x, SubSeq(net[x], 1, n)) IN
       /\ tls' = [tls EXCEPT ![x] = r.t]
       /\ net' = [net EXCEPT ![x] = SubSeq(@, n + 1, Len(@)), ![Other(x)] = @ \o r.data]
       /\ early' = (early \/ (SSL_is_init_finished(x, r.t) /\ \E i \in DOMAIN r.t.in : r.t.in[i][1] > 10))
    /\ UNCHANGED ver

\* the loop ends; the server flushes what the handshake left in out_bio
Finished(x) ==
    /\ tls[x].at = "handshake" /\ _ltls_context_finished(x)
    /\ Sent(x, IF x = "server" THEN _ltls_context_write(x, 0) ELSE [t |-> tls[x], data |-> <<>>], "open")
    /\ UNCHANGED <<ver, early>>

\* readfunc and writefunc; the server writes once it has read, as often
readfunc(x, n) ==
    /\ tls[x].at = "open"
    /\ tls' = [tls EXCEPT ![x] = _ltls_context_read(x, SubSeq(net[x], 1, n))]
    /\ net' = [net EXCEPT ![x] = SubSeq(@, n + 1, Len(@))]
    /\ UNCHANGED <<ver, early>>
writefunc(x) ==
    /\ tls[x].at = "open" /\ tls[x].wrote < MaxMsg
    /\ x = "server" => tls[x].wrote < tls[x].got
    /\ Sent(x, _ltls_context_write(x, 1), "open")
    /\ UNCHANGED <<ver, early>>

TlsNext ==
    \/ init_requestfunc \/ init_responsefunc
    \/ \E x \in Sides :
          \/ \E n \in 1 .. Len(net[x]) : Handshake(x, n) \/ readfunc(x, n)
          \/ Finished(x) \/ writefunc(x)

TlsSpec == TlsInit /\ [][TlsNext]_tlsVars

-----------------------------------------------------------------------------
(* Whatever way the socket cuts the stream, the two ends never wait for    *)
(* each other: with nothing on its way, the handshake is over and each     *)
(* side has read what the other wrote (_bio_read, _bio_write, the flush at *)
(* the end of init_responsefunc).  The exception is application data that  *)
(* came with the last flight of the handshake: it stays in in_bio until    *)
(* more comes from the socket.                                             *)
TlsNotStuck ==
    (~ENABLED TlsNext /\ ~early) =>
        \A x \in Sides : tls[x].at = "open" /\ tls[x].got = tls[Other(x)].wrote
=============================================================================
