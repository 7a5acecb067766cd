------------------------- MODULE SocketServerProofs -------------------------
(***************************************************************************)
(* Theorems about the packets of the socket server - who owns them, how    *)
(* they are counted, where datagrams go - for any number of workers, slots,*)
(* ids and events of one wait, and any bound on calls.                     *)
(***************************************************************************)
EXTENDS SocketServerTypes

-----------------------------------------------------------------------------
(* Buffers.                                                                *)

(* The packets a socket, a request and a worker own the buffers of.        *)
Direct(x) == IF x.dw = None THEN {} ELSE {x.dw.p}
InSocket(x) == Packets(x.high) \cup Packets(x.low) \cup Direct(x)
InRequest(q) == IF q.cmd \in Data THEN {q.p} ELSE {}
InCall(r) == IF r.pc # "idle" /\ r.cmd \in Data THEN {r.p} ELSE {}

Distinct(list) == \A j, k \in DOMAIN list : list[j].p = list[k].p => j = k

(* A socket has no packet twice.                                           *)
Single(x) ==
  /\ Distinct(x.high) /\ Distinct(x.low)
  /\ Packets(x.high) \cap Packets(x.low) = {}
  /\ Direct(x) \cap (Packets(x.high) \cup Packets(x.low)) = {}

Owned(p) ==
  \/ \E w \in Workers : p \in InCall(wk[w])
  \/ \E k \in DOMAIN pipe : p \in InRequest(pipe[k])
  \/ \E i \in Slots : p \in InSocket(slot[i])

(* No buffer is in two places, and one is in some place until it is freed. *)
CallsApart ==
  \A w, v \in Workers : w # v => InCall(wk[w]) \cap InCall(wk[v]) = {}
RequestsApart ==
  /\ \A k, l \in DOMAIN pipe : k # l => InRequest(pipe[k]) \cap InRequest(pipe[l]) = {}
  /\ \A k \in DOMAIN pipe : \A w \in Workers : InRequest(pipe[k]) \cap InCall(wk[w]) = {}
SocketsApart ==
  /\ \A i \in Slots : Single(slot[i])
  /\ \A i, j \in Slots : i # j => InSocket(slot[i]) \cap InSocket(slot[j]) = {}
  /\ \A i \in Slots : \A k \in DOMAIN pipe : InSocket(slot[i]) \cap InRequest(pipe[k]) = {}
  /\ \A i \in Slots : \A w \in Workers : InSocket(slot[i]) \cap InCall(wk[w]) = {}
FreedOnce ==
  /\ \A p : Owned(p) => p \in DOMAIN sent /\ sent[p].ok /\ freed[p] = 0
  /\ \A p \in DOMAIN sent : sent[p].ok => freed[p] \in {0, 1} /\ (freed[p] = 0 => Owned(p))

OwnInv == CallsApart /\ RequestsApart /\ SocketsApart /\ FreedOnce

(* Exactly the buffers of ps are freed.                                    *)
Frees(ps) ==
  /\ DOMAIN freed' = DOMAIN freed
  /\ \A p \in DOMAIN freed : freed'[p] = freed[p] + (IF p \in ps THEN 1 ELSE 0)

LEMMA FreeFrees ==
  ASSUME TypeOK
  PROVE  /\ \A ps : Free(ps) => Frees(ps)
         /\ freed' = freed => Frees({})
         /\ DOMAIN freed = DOMAIN sent
<1>1. freed \in Seq(Nat) /\ Len(freed) = Len(sent) /\ sent \in Seq(SentRecs)
  BY DEF TypeOK
<1>2. DOMAIN freed = 1 .. Len(freed) /\ DOMAIN freed = DOMAIN sent /\ \A p \in DOMAIN freed : freed[p] \in Nat
  BY <1>1
<1> QED
  BY <1>2 DEF Free, Frees

(* The socket thread takes a request, or none, and the buffers in it, in,  *)
(* and leaves the socket of slot i as y: what was in either place is in y  *)
(* now, or freed.                                                          *)
Takes(in) ==
  \/ pipe' = pipe /\ in = {}
  \/ pipe # <<>> /\ pipe' = Tail(pipe) /\ in = InRequest(Req)

LEMMA ThreadOwn ==
  ASSUME TypeOK, OwnInv, NEW i \in Slots, NEW y, slot' = [slot EXCEPT ![i] = y], Single(y),
         UNCHANGED <<scene, wk, sent>>, NEW in, Takes(in),
         InSocket(y) \subseteq InSocket(slot[i]) \cup in,
         NEW out, out = (InSocket(slot[i]) \cup in) \ InSocket(y), Frees(out)
  PROVE  OwnInv'
<1>1. Slots' = Slots /\ slot'[i] = y /\ \A j \in Slots : j # i => slot'[j] = slot[j]
  BY SameScene DEF TypeOK
<1>2. \A k \in DOMAIN pipe' : \E l \in DOMAIN pipe :
         /\ pipe'[k] = pipe[l] /\ InRequest(pipe[l]) \cap in = {}
         /\ l = IF pipe' = pipe THEN k ELSE k + 1
  <2>1. CASE pipe' = pipe /\ in = {}
    BY <2>1
  <2>2. CASE pipe # <<>> /\ pipe' = Tail(pipe) /\ in = InRequest(Req)
    <3>1. /\ DOMAIN pipe = 1 .. Len(pipe) /\ Len(pipe) > 0 /\ Len(pipe) \in Nat /\ DOMAIN pipe' = 1 .. Len(pipe) - 1 /\ Req = pipe[1]
          /\ \A k \in DOMAIN pipe' : k + 1 \in DOMAIN pipe /\ k + 1 # 1 /\ pipe'[k] = pipe[k + 1]
      BY <2>2, PipeEntries
    <3>2. pipe' # pipe /\ 1 \in DOMAIN pipe
      BY <3>1
    <3> QED
      BY <2>2, <3>1, <3>2 DEF OwnInv, RequestsApart
  <2> QED
    BY <2>1, <2>2 DEF Takes
<1>3. \A k \in DOMAIN pipe : InRequest(pipe[k]) \subseteq in \/ \E l \in DOMAIN pipe' : pipe'[l] = pipe[k]
  BY PipeEntries DEF Takes
<1>4. in = {} \/ (1 \in DOMAIN pipe /\ in = InRequest(pipe[1]))
  BY PipeEntries DEF Takes
<1>5. CallsApart'
  BY DEF OwnInv, CallsApart
<1>6. RequestsApart'
  <2>1. ASSUME NEW k \in DOMAIN pipe', NEW l \in DOMAIN pipe', k # l
        PROVE  InRequest(pipe'[k]) \cap InRequest(pipe'[l]) = {}
    <3>1. PICK m \in DOMAIN pipe : pipe'[k] = pipe[m] /\ m = IF pipe' = pipe THEN k ELSE k + 1
      BY <1>2
    <3>2. PICK n \in DOMAIN pipe : pipe'[l] = pipe[n] /\ n = IF pipe' = pipe THEN l ELSE l + 1
      BY <1>2
    <3>3. k \in Int /\ l \in Int
      <4>1. pipe' = pipe \/ pipe' = Tail(pipe)
        BY DEF Takes
      <4>2. DOMAIN pipe' \subseteq Int
        BY <4>1, PipeEntries DEF Takes
      <4> QED
        BY <4>2
    <3>4. m # n
      BY <2>1, <3>1, <3>2, <3>3
    <3> QED
      BY <3>1, <3>2, <3>4 DEF OwnInv, RequestsApart
  <2>2. \A k \in DOMAIN pipe' : \A w \in Workers : InRequest(pipe'[k]) \cap InCall(wk'[w]) = {}
    BY <1>2 DEF OwnInv, RequestsApart
  <2> QED
    BY <2>1, <2>2 DEF RequestsApart
<1>7. SocketsApart'
  <2>1. \A j \in Slots : Single(slot'[j])
    BY <1>1 DEF OwnInv, SocketsApart
  <2>2. ASSUME NEW j \in Slots, NEW k \in Slots, j # k
        PROVE  InSocket(slot'[j]) \cap InSocket(slot'[k]) = {}
    <3>1. \A m \in Slots : m # i => InSocket(slot[m]) \cap InSocket(y) = {}
      BY <1>4 DEF OwnInv, SocketsApart
    <3> QED
      BY <1>1, <2>2, <3>1 DEF OwnInv, SocketsApart
  <2>3. \A j \in Slots : \A k \in DOMAIN pipe' : InSocket(slot'[j]) \cap InRequest(pipe'[k]) = {}
    BY <1>1, <1>2 DEF OwnInv, SocketsApart
  <2>4. \A j \in Slots : \A w \in Workers : InSocket(slot'[j]) \cap InCall(wk'[w]) = {}
    BY <1>1, <1>4 DEF OwnInv, SocketsApart, RequestsApart
  <2> QED
    BY <1>1, <2>1, <2>2, <2>3, <2>4 DEF SocketsApart, Single
<1>8. FreedOnce'
  <2>1. \A p : Owned(p)' => Owned(p) /\ p \notin out
    <3> SUFFICES ASSUME NEW p, Owned(p)' PROVE Owned(p) /\ p \notin out
      OBVIOUS
    <3>1. CASE \E w \in Workers : p \in InCall(wk'[w])
      BY <1>4, <3>1 DEF Owned, OwnInv, SocketsApart, RequestsApart
    <3>2. CASE \E k \in DOMAIN pipe' : p \in InRequest(pipe'[k])
      BY <1>2, <3>2 DEF Owned, OwnInv, SocketsApart
    <3>3. CASE \E j \in Slots : j # i /\ p \in InSocket(slot'[j])
      BY <1>1, <1>4, <3>3 DEF Owned, OwnInv, SocketsApart
    <3>4. CASE p \in InSocket(y)
      BY <1>4, <3>4 DEF Owned
    <3> QED
      BY <1>1, <3>1, <3>2, <3>3, <3>4 DEF Owned
  <2>2. \A p : Owned(p) /\ p \notin out => Owned(p)'
    <3> SUFFICES ASSUME NEW p, Owned(p), p \notin out PROVE Owned(p)'
      OBVIOUS
    <3>0. p \in InSocket(y) => Owned(p)'
      BY <1>1 DEF Owned
    <3>1. CASE \E w \in Workers : p \in InCall(wk[w])
      BY <3>1 DEF Owned
    <3>2. CASE \E k \in DOMAIN pipe : p \in InRequest(pipe[k])
      BY <1>3, <3>0, <3>2 DEF Owned
    <3>3. CASE \E j \in Slots : p \in InSocket(slot[j])
      BY <1>1, <3>0, <3>3 DEF Owned
    <3> QED
      BY <3>1, <3>2, <3>3 DEF Owned
  <2>3. \A p \in out : Owned(p)
    BY <1>4 DEF Owned
  <2>4. \A p \in DOMAIN sent : freed'[p] = freed[p] + (IF p \in out THEN 1 ELSE 0)
    BY FreeFrees DEF Frees
  <2> QED
    BY <2>1, <2>2, <2>3, <2>4 DEF OwnInv, FreedOnce
<1> QED
  BY <1>5, <1>6, <1>7, <1>8 DEF OwnInv
(* Packets that were sent stay accepted or refused.                        *)
SentKept == DOMAIN sent' = DOMAIN sent /\ \A p \in DOMAIN sent : sent'[p].ok = sent[p].ok

(* A worker adds a request to the pipe, or none, with the buffers in it.   *)
Adds(in) ==
  \/ pipe' = pipe /\ in = {}
  \/ \E q : Put(q) /\ in = InRequest(q)

(* A worker in a call goes on with r and hands its buffer to the direct    *)
(* write buffer of slot i (to), puts it into the pipe (in), frees it (out) *)
(* or keeps it.                                                            *)
HandsOver(w, r, i, to, in, out) ==
  /\ w \in Workers /\ i \in Slots /\ scene' = scene
  /\ wk' = [wk EXCEPT ![w] = r]
  /\ SentKept /\ Adds(in) /\ Frees(out)
  /\ \A j \in Slots : Single(slot'[j]) /\ InSocket(slot'[j]) = InSocket(slot[j]) \cup (IF j = i THEN to ELSE {})
  /\ InCall(r) \cup to \cup in \subseteq InCall(wk[w])
  /\ InCall(r) \cap to = {} /\ InCall(r) \cap in = {} /\ to \cap in = {}
  /\ out = InCall(wk[w]) \ (InCall(r) \cup to \cup in)

LEMMA WorkOwn ==
  ASSUME TypeOK, OwnInv, NEW w, NEW r, NEW i, NEW to, NEW in, NEW out, HandsOver(w, r, i, to, in, out)
  PROVE  OwnInv'
<1> USE DEF HandsOver
<1> DEFINE had == InCall(wk[w])
<1>1. Slots' = Slots /\ wk'[w] = r /\ \A v \in Workers : v # w => wk'[v] = wk[v]
  BY SameScene DEF TypeOK
<1>2. \A k \in DOMAIN pipe' :
         \/ k \in DOMAIN pipe /\ pipe'[k] = pipe[k]
         \/ k = Len(pipe) + 1 /\ k \notin DOMAIN pipe /\ InRequest(pipe'[k]) = in
  BY PipeEntries DEF Adds
<1>3. /\ \A k \in DOMAIN pipe : k \in DOMAIN pipe' /\ pipe'[k] = pipe[k]
      /\ in # {} => Len(pipe) + 1 \in DOMAIN pipe' /\ InRequest(pipe'[Len(pipe) + 1]) = in
  BY PipeEntries DEF Adds
<1>4. /\ \A v \in Workers : v # w => InCall(wk'[v]) \cap had = {} /\ InCall(wk'[v]) = InCall(wk[v])
      /\ \A k \in DOMAIN pipe : InRequest(pipe[k]) \cap had = {}
      /\ \A j \in Slots : InSocket(slot[j]) \cap had = {}
  BY <1>1 DEF OwnInv, CallsApart, RequestsApart, SocketsApart
<1>5. CallsApart'
  BY <1>1, <1>4 DEF OwnInv, CallsApart
<1>6. RequestsApart'
  <2>1. \A k, l \in DOMAIN pipe' : k # l => InRequest(pipe'[k]) \cap InRequest(pipe'[l]) = {}
    BY <1>2, <1>4 DEF OwnInv, RequestsApart
  <2>2. \A k \in DOMAIN pipe' : \A v \in Workers : InRequest(pipe'[k]) \cap InCall(wk'[v]) = {}
    BY <1>1, <1>2, <1>4 DEF OwnInv, RequestsApart
  <2> QED
    BY <2>1, <2>2 DEF RequestsApart
<1>7. SocketsApart'
  <2>1. \A j \in Slots : InSocket(slot'[j]) \subseteq InSocket(slot[j]) \cup to /\ (j # i => InSocket(slot'[j]) = InSocket(slot[j]))
    OBVIOUS
  <2>2. \A j, k \in Slots : j # k => InSocket(slot'[j]) \cap InSocket(slot'[k]) = {}
    BY <1>4, <2>1 DEF OwnInv, SocketsApart
  <2>3. \A j \in Slots : \A k \in DOMAIN pipe' : InSocket(slot'[j]) \cap InRequest(pipe'[k]) = {}
    BY <1>2, <1>4, <2>1 DEF OwnInv, SocketsApart
  <2>4. \A j \in Slots : \A v \in Workers : InSocket(slot'[j]) \cap InCall(wk'[v]) = {}
    BY <1>1, <1>4, <2>1 DEF OwnInv, SocketsApart
  <2> QED
    BY <1>1, <2>2, <2>3, <2>4 DEF SocketsApart, Single
<1>8. FreedOnce'
  <2>1. \A p : Owned(p)' => Owned(p) /\ p \notin out
    <3> SUFFICES ASSUME NEW p, Owned(p)' PROVE Owned(p) /\ p \notin out
      OBVIOUS
    <3>1. CASE \E v \in Workers : p \in InCall(wk'[v])
      BY <1>1, <1>4, <3>1 DEF Owned
    <3>2. CASE \E k \in DOMAIN pipe' : p \in InRequest(pipe'[k])
      BY <1>2, <1>4, <3>2 DEF Owned
    <3>3. CASE \E j \in Slots : p \in InSocket(slot'[j])
      BY <1>4, <3>3 DEF Owned
    <3> QED
      BY <1>1, <3>1, <3>2, <3>3 DEF Owned
  <2>2. \A p : Owned(p) /\ p \notin out => Owned(p)'
    <3> SUFFICES ASSUME NEW p, Owned(p), p \notin out PROVE Owned(p)'
      OBVIOUS
    <3>0. p \in InCall(r) \cup to \cup in => Owned(p)'
      BY <1>1, <1>3 DEF Owned
    <3>1. CASE \E v \in Workers : p \in InCall(wk[v])
      BY <1>1, <3>0, <3>1 DEF Owned
    <3>2. CASE \E k \in DOMAIN pipe : p \in InRequest(pipe[k])
      BY <1>3, <3>2 DEF Owned
    <3>3. CASE \E j \in Slots : p \in InSocket(slot[j])
      BY <1>1, <3>3 DEF Owned
    <3> QED
      BY <3>1, <3>2, <3>3 DEF Owned
  <2>3. \A p \in out : Owned(p)
    BY DEF Owned
  <2>4. \A p \in DOMAIN sent : freed'[p] = freed[p] + (IF p \in out THEN 1 ELSE 0)
    BY FreeFrees DEF Frees
  <2> QED
    BY <2>1, <2>2, <2>3, <2>4 DEF OwnInv, FreedOnce, SentKept
<1> QED
  BY <1>5, <1>6, <1>7, <1>8 DEF OwnInv

(* A packet is new.                                                        *)
LEMMA SendingOwn ==
  ASSUME TypeOK, OwnInv, NEW w \in Workers, NEW id, NEW kind \in Data, NEW bad \in BOOLEAN, NEW direct,
         Sending(w, id, kind, bad, direct)
  PROVE  OwnInv'
<1> DEFINE new == Len(sent) + 1
           r == [pc |-> IF direct THEN "check" ELSE Queueing(kind), id |-> id, p |-> new, cmd |-> kind]
<1>1. /\ wk[w].pc = "idle" /\ UNCHANGED <<scene, slot, pipe>>
      /\ wk' = IF bad THEN wk ELSE [wk EXCEPT ![w] = r]
      /\ \E s : sent' = Append(sent, s) /\ s.ok = ~bad
      /\ freed' = Append(freed, IF ~bad THEN 0 ELSE 1)
  <2>1. /\ wk[w].pc = "idle" /\ UNCHANGED <<scene, slot, pipe>>
        /\ wk' = IF bad THEN wk ELSE [wk EXCEPT ![w] = r]
        /\ Handed(w, id, kind, ~bad)
    BY DEF Sending, Call, Idle, Goto
  <2>2. \E s : sent' = Append(sent, s) /\ s.ok = ~bad
    BY <2>1 DEF Handed
  <2> QED
    BY <2>1, <2>2 DEF Handed
<1>2. /\ DOMAIN sent = 1 .. Len(sent) /\ Len(sent) \in Nat /\ DOMAIN sent' = 1 .. Len(sent) + 1
      /\ \A p \in DOMAIN sent : sent'[p] = sent[p] /\ freed'[p] = freed[p]
      /\ sent'[new].ok = ~bad /\ freed'[new] = IF bad THEN 1 ELSE 0
  BY <1>1 DEF TypeOK
<1>3. Slots' = Slots
  BY <1>1, SameScene DEF TypeOK
<1>4. InCall(wk[w]) = {}
  BY <1>1 DEF InCall
<1>5. InCall(r) = {new}
  BY DEF InCall, Queueing
<1> HIDE DEF r
<1>6. (wk' = wk /\ bad) \/ (wk'[w] = r /\ ~bad /\ \A v \in Workers : v # w => wk'[v] = wk[v])
  BY <1>1 DEF TypeOK
<1>7. new \notin DOMAIN sent /\ ~Owned(new)
  BY <1>2 DEF OwnInv, FreedOnce
<1>8. /\ \A v \in Workers : new \notin InCall(wk[v])
      /\ \A k \in DOMAIN pipe : new \notin InRequest(pipe[k])
      /\ \A j \in Slots : new \notin InSocket(slot[j])
  BY <1>7 DEF Owned
<1> HIDE DEF new
<1>9. CallsApart' /\ RequestsApart' /\ SocketsApart'
  <2>1. \A v \in Workers : \/ InCall(wk'[v]) = InCall(wk[v])
                           \/ v = w /\ InCall(wk'[v]) = InCall(wk[v]) \cup {new}
    BY <1>4, <1>5, <1>6
  <2>2. CallsApart'
    BY <1>8, <2>1 DEF OwnInv, CallsApart
  <2>3. RequestsApart'
    BY <1>1, <1>8, <2>1 DEF OwnInv, RequestsApart
  <2>4. SocketsApart'
    <3>1. \A i \in Slots : \A v \in Workers : InSocket(slot[i]) \cap InCall(wk'[v]) = {}
      BY <1>8, <2>1 DEF OwnInv, SocketsApart
    <3>2. slot' = slot /\ pipe' = pipe
      BY <1>1
    <3> QED
      BY <1>3, <3>1, <3>2, Zenon DEF OwnInv, SocketsApart, Single
  <2> QED
    BY <2>2, <2>3, <2>4
<1>10. FreedOnce'
  <2>1. \A p : Owned(p)' <=> Owned(p) \/ (p = new /\ ~bad)
    BY <1>1, <1>3, <1>4, <1>5, <1>6 DEF Owned
  <2>2. DOMAIN sent' = DOMAIN sent \cup {new}
    BY <1>2 DEF new
  <2> QED
    BY <1>2, <1>7, <2>1, <2>2 DEF OwnInv, FreedOnce
<1> QED
  BY <1>9, <1>10 DEF OwnInv

(* Lists and the packets in them.                                          *)
LEMMA AppendPackets ==
  ASSUME NEW list \in Seq(Buffers), NEW b \in Buffers
  PROVE  /\ Packets(Append(list, b)) = Packets(list) \cup {b.p}
         /\ Distinct(list) /\ b.p \notin Packets(list) => Distinct(Append(list, b))
<1> DEFINE new == Append(list, b)
<1>1. /\ DOMAIN list = 1 .. Len(list) /\ Len(list) \in Nat /\ DOMAIN new = 1 .. Len(list) + 1
      /\ new[Len(list) + 1] = b /\ \A k \in DOMAIN list : new[k] = list[k]
  OBVIOUS
<1> HIDE DEF new
<1>2. \A k \in DOMAIN new : k \in DOMAIN list \/ k = Len(list) + 1
  BY <1>1
<1>3. DOMAIN list \subseteq DOMAIN new /\ Len(list) + 1 \in DOMAIN new
  BY <1>1
<1>4. Packets(new) = Packets(list) \cup {b.p}
  BY <1>1, <1>2, <1>3 DEF Packets
<1>5. Distinct(list) /\ b.p \notin Packets(list) => Distinct(new)
  BY <1>1, <1>2 DEF Distinct, Packets
<1> QED
  BY <1>4, <1>5 DEF new

LEMMA FirstPackets ==
  ASSUME NEW list \in Seq(Buffers), NEW b \in Buffers
  PROVE  /\ Packets(<<b>> \o list) = Packets(list) \cup {b.p}
         /\ Distinct(list) /\ b.p \notin Packets(list) => Distinct(<<b>> \o list)
<1> DEFINE new == <<b>> \o list
<1>1. /\ DOMAIN list = 1 .. Len(list) /\ Len(list) \in Nat /\ DOMAIN new = 1 .. Len(list) + 1
      /\ new[1] = b /\ \A k \in 2 .. Len(list) + 1 : new[k] = list[k - 1]
  OBVIOUS
<1> HIDE DEF new
<1>2. \A k \in DOMAIN list : k + 1 \in DOMAIN new /\ new[k + 1] = list[k]
  BY <1>1
<1>3. \A k \in DOMAIN new : k = 1 \/ (k - 1 \in DOMAIN list /\ new[k] = list[k - 1] /\ k \in Int)
  BY <1>1
<1>4. Packets(new) = Packets(list) \cup {b.p}
  <2>1. 1 \in DOMAIN new
    BY <1>1
  <2>2. ASSUME NEW p \in Packets(new) PROVE p \in Packets(list) \cup {b.p}
    BY <1>1, <1>3 DEF Packets
  <2>3. ASSUME NEW p \in Packets(list) \cup {b.p} PROVE p \in Packets(new)
    BY <1>1, <1>2, <2>1 DEF Packets
  <2> QED
    BY <2>2, <2>3
<1>5. ASSUME Distinct(list), b.p \notin Packets(list) PROVE Distinct(new)
  <2> SUFFICES ASSUME NEW j \in DOMAIN new, NEW k \in DOMAIN new, new[j].p = new[k].p PROVE j = k
    BY DEF Distinct
  <2>1. CASE j = 1 \/ k = 1
    BY <1>1, <1>3, <1>5, <2>1 DEF Packets
  <2>2. CASE j # 1 /\ k # 1
    <3>1. j - 1 = k - 1
      BY <1>3, <1>5, <2>2 DEF Distinct
    <3> QED
      BY <1>3, <2>2, <3>1
  <2> QED
    BY <2>1, <2>2
<1> QED
  BY <1>4, <1>5 DEF new

(* What is left of a list keeps the packets of its end.                    *)
LEMMA RestPackets ==
  ASSUME NEW list \in Seq(Buffers), NEW r, Fits(r, list), Distinct(list)
  PROVE  Packets(Rest(list, r)) \subseteq Packets(list) /\ Distinct(Rest(list, r))
<1> DEFINE new == Rest(list, r)
           d == r.m + r.drop
<1>1. /\ DOMAIN list = 1 .. Len(list) /\ Len(list) \in Nat /\ d \in Nat /\ d <= Len(list)
      /\ DOMAIN new = 1 .. Len(list) - r.m - r.drop
  BY DEF Rest, Fits
<1>2. ASSUME NEW j \in DOMAIN new
      PROVE  j \in Int /\ d + j \in DOMAIN list /\ new[j].p = list[d + j].p
  <2>1. j \in Int /\ d + j \in DOMAIN list
    BY <1>1 DEF Fits
  <2>2. new[j] = LET b == list[d + j] IN IF j = 1 THEN [b EXCEPT !.off = @ + r.n] ELSE b
    BY DEF Rest
  <2>3. list[d + j] \in Buffers
    BY <2>1
  <2> QED
    BY <2>1, <2>2, <2>3 DEF Buffers
<1> HIDE DEF new
<1>3. Packets(new) \subseteq Packets(list)
  BY <1>2 DEF Packets
<1>4. ASSUME NEW j \in DOMAIN new, NEW k \in DOMAIN new, new[j].p = new[k].p PROVE j = k
  <2>1. d + j = d + k
    BY <1>2, <1>4 DEF Distinct
  <2> QED
    BY <1>1, <1>2, <2>1
<1> QED
  BY <1>3, <1>4 DEF new, Distinct

(* The head of a list goes to the other.                                   *)
LEMMA HeadPackets ==
  ASSUME NEW list \in Seq(Buffers), list # <<>>, Distinct(list)
  PROVE  /\ Packets(<<Head(list)>>) \cup Packets(Tail(list)) = Packets(list)
         /\ Packets(<<Head(list)>>) \cap Packets(Tail(list)) = {}
         /\ Distinct(<<Head(list)>>) /\ Distinct(Tail(list))
<1> DEFINE one == <<Head(list)>>
           new == Tail(list)
<1>1. /\ DOMAIN list = 1 .. Len(list) /\ Len(list) \in Nat /\ Len(list) > 0 /\ DOMAIN new = 1 .. Len(list) - 1
      /\ \A k \in 1 .. Len(list) - 1 : new[k] = list[k + 1]
      /\ DOMAIN one = {1} /\ one[1] = list[1]
  OBVIOUS
<1> HIDE DEF one, new
<1>2. \A k \in DOMAIN new : k \in Int /\ k + 1 \in DOMAIN list /\ k + 1 # 1 /\ new[k] = list[k + 1]
  BY <1>1
<1>3. \A k \in DOMAIN list : k = 1 \/ (k - 1 \in DOMAIN new /\ new[k - 1] = list[k])
  <2> TAKE k \in DOMAIN list
  <2>1. k # 1 => k \in Int /\ k - 1 \in 1 .. Len(list) - 1 /\ (k - 1) + 1 = k
    BY <1>1
  <2> QED
    BY <1>1, <2>1
<1>4. Packets(one) = {list[1].p} /\ 1 \in DOMAIN list
  BY <1>1 DEF Packets
<1>5. Packets(one) \cup Packets(new) = Packets(list)
  <2>1. Packets(new) \subseteq Packets(list) /\ list[1].p \in Packets(list)
    BY <1>2, <1>4 DEF Packets
  <2>2. ASSUME NEW p \in Packets(list) PROVE p \in Packets(one) \cup Packets(new)
    BY <1>3, <1>4 DEF Packets
  <2> QED
    BY <1>4, <2>1, <2>2
<1>6. Packets(one) \cap Packets(new) = {}
  <2>1. ASSUME NEW k \in DOMAIN new PROVE new[k].p # list[1].p
    BY <1>2, <1>4 DEF Distinct
  <2> QED
    BY <1>4, <2>1 DEF Packets
<1>7. Distinct(one)
  BY <1>1 DEF Distinct
<1>8. Distinct(new)
  <2> SUFFICES ASSUME NEW j \in DOMAIN new, NEW k \in DOMAIN new, new[j].p = new[k].p PROVE j = k
    BY DEF Distinct
  <2>1. j + 1 = k + 1
    BY <1>2 DEF Distinct
  <2> QED
    BY <1>2, <2>1
<1> QED
  BY <1>5, <1>6, <1>7, <1>8 DEF one, new

(* A step that moves no buffer: requests without one come and go.          *)
LEMMA QuietOwn ==
  ASSUME TypeOK, OwnInv, scene' = scene, SentKept, freed' = freed,
         \A w \in Workers : InCall(wk'[w]) = InCall(wk[w]),
         \A i \in Slots : Single(slot'[i]) /\ InSocket(slot'[i]) = InSocket(slot[i]),
         \/ pipe' = pipe
         \/ \E q : Put(q) /\ InRequest(q) = {}
         \/ pipe # <<>> /\ pipe' = Tail(pipe) /\ InRequest(Req) = {}
  PROVE  OwnInv'
<1> DEFINE taken == pipe # <<>> /\ pipe' = Tail(pipe)
<1>1. Slots' = Slots
  BY SameScene DEF TypeOK
<1>2. \A k \in DOMAIN pipe' : \/ InRequest(pipe'[k]) = {}
                              \/ k \in DOMAIN pipe /\ pipe'[k] = pipe[k] /\ ~taken
                              \/ k \in Int /\ k + 1 \in DOMAIN pipe /\ pipe'[k] = pipe[k + 1] /\ taken
  <2>0. /\ Len(pipe) \in Nat /\ (taken => Len(pipe') = Len(pipe) - 1)
        /\ \A q : Put(q) => Len(pipe') = Len(pipe) + 1
    BY DEF TypeOK, Put
  <2>1. CASE pipe' = pipe
    <3>1. ~taken
      BY <2>0, <2>1
    <3> HIDE DEF taken
    <3>2. \A k \in DOMAIN pipe' : k \in DOMAIN pipe /\ pipe'[k] = pipe[k]
      BY <2>1
    <3> QED
      BY <3>1, <3>2
  <2>2. CASE \E q : Put(q) /\ InRequest(q) = {}
    <3>1. ~taken
      BY <2>0, <2>2
    <3>2. PICK q : Put(q) /\ InRequest(q) = {}
      BY <2>2
    <3>3. \A k \in DOMAIN pipe' : (k \in DOMAIN pipe /\ pipe'[k] = pipe[k]) \/ pipe'[k] = q
      BY <3>2, PipeEntries
    <3> HIDE DEF taken
    <3> QED
      BY <3>1, <3>2, <3>3
  <2>3. CASE taken /\ InRequest(Req) = {}
    <3>1. \A k \in DOMAIN pipe' : k + 1 \in DOMAIN pipe /\ pipe'[k] = pipe[k + 1]
      BY <2>3, PipeEntries
    <3>2. \A k \in DOMAIN pipe' : k \in Int
      <4>1. DOMAIN pipe' = 1 .. Len(pipe) - 1
        BY <2>3, PipeEntries
      <4> HIDE DEF taken
      <4> QED
        BY <4>1, <2>0
    <3>3. taken
      BY <2>3
    <3> HIDE DEF taken
    <3> QED
      BY <3>1, <3>2, <3>3
  <2> QED
    BY <2>1, <2>2, <2>3
<1>3. \A k \in DOMAIN pipe : InRequest(pipe[k]) # {} => \E l \in DOMAIN pipe' : pipe'[l] = pipe[k]
  BY PipeEntries
<1> HIDE DEF taken
<1>4. CallsApart'
  BY DEF OwnInv, CallsApart
<1>5. RequestsApart'
  BY <1>2 DEF OwnInv, RequestsApart
<1>6. SocketsApart'
  <2>1. \A i \in Slots : \A k \in DOMAIN pipe' : InSocket(slot'[i]) \cap InRequest(pipe'[k]) = {}
    BY <1>2 DEF OwnInv, SocketsApart
  <2> QED
    BY <1>1, <2>1 DEF OwnInv, SocketsApart, Single
<1>7. FreedOnce'
  <2>1. \A p : (\E k \in DOMAIN pipe' : p \in InRequest(pipe'[k])) <=> (\E k \in DOMAIN pipe : p \in InRequest(pipe[k]))
    BY <1>2, <1>3
  <2>2. \A p : Owned(p)' <=> Owned(p)
    BY <1>1, <2>1 DEF Owned
  <2> QED
    BY <2>2 DEF OwnInv, FreedOnce, SentKept
<1> QED
  BY <1>4, <1>5, <1>6, <1>7 DEF OwnInv

(* The same in the socket thread, which changes one slot at most.          *)
SameBuffers(x, y) == y.high = x.high /\ y.low = x.low /\ y.dw = x.dw

LEMMA QuietThread ==
  ASSUME TypeOK, OwnInv, UNCHANGED <<scene, wk, sent, freed>>,
         slot' = slot \/ \E i \in Slots : \E y : slot' = [slot EXCEPT ![i] = y] /\ SameBuffers(slot[i], y),
         pipe' = pipe \/ (pipe # <<>> /\ pipe' = Tail(pipe) /\ Req.cmd \notin Data)
  PROVE  OwnInv'
<1>1. \A i \in Slots : SameBuffers(slot[i], slot'[i])
  BY DEF TypeOK, SameBuffers
<1>2. \A i \in Slots : Single(slot'[i]) /\ InSocket(slot'[i]) = InSocket(slot[i])
  BY <1>1 DEF OwnInv, SocketsApart, SameBuffers, Single, InSocket, Direct
<1>3. SentKept
  BY DEF SentKept
<1> QED
  BY <1>2, <1>3, QuietOwn DEF InRequest

(* Nothing waits in a socket without buffers.                              *)
LEMMA NoBuffers ==
  \A x : BufferEmpty(x) /\ x.dw = None => InSocket(x) = {} /\ Single(x)
BY DEF BufferEmpty, InSocket, Single, Packets, Direct, Distinct

(* Slots that are given to a new id, or set up.                            *)
LEMMA OpeningOwn ==
  ASSUME BaseInv, OwnInv, OpenStep \/ (\E y \in Sockets : SetUpAt(y)), sent' = sent, freed' = freed
  PROVE  OwnInv'
<1> USE DEF BaseInv
<1>1. PICK i, y : /\ slot' = [slot EXCEPT ![i] = y] /\ BufferEmpty(y) /\ y.dw = None /\ UNCHANGED <<scene, wk>>
                  /\ i \in Slots /\ slot[i].type \in {"INVALID", "RESERVE"}
                  /\ pipe' = pipe \/ (\E q : Put(q) /\ q.cmd \in Opening) \/ (pipe # <<>> /\ pipe' = Tail(pipe) /\ Req.cmd \in Opening)
  <2>1. CASE OpenStep
    <3>1. PICK id : \E y \in Sockets : OpenedAt(id, y)
      BY <2>1 DEF OpenStep
    <3>2. PICK y \in Sockets : OpenedAt(id, y)
      BY <3>1
    <3>3. pipe' = pipe \/ \E q : Put(q) /\ q.cmd \in Opening
      <4>1. \A kind \in Opening : [cmd |-> kind, id |-> id].cmd \in Opening
        OBVIOUS
      <4> QED
        BY <3>2, <4>1, Zenon DEF OpenedAt
    <3> QED
      BY <2>1, <3>2, <3>3 DEF OpenStep, OpenedAt
  <2>2. ASSUME NEW y \in Sockets, SetUpAt(y)
        PROVE  /\ slot' = [slot EXCEPT ![H(Req.id)] = y] /\ BufferEmpty(y) /\ y.dw = None /\ UNCHANGED <<scene, wk>>
               /\ H(Req.id) \in Slots /\ slot[H(Req.id)].type = "RESERVE"
               /\ pipe # <<>> /\ pipe' = Tail(pipe) /\ Req.cmd \in Opening
    BY <2>2, ReservedRequest DEF SetUpAt, workVars
  <2> QED
    BY <2>1, <2>2, Zenon
<1>2. InSocket(slot[i]) = {} /\ InSocket(y) = {} /\ Single(y)
  BY <1>1, NoBuffers DEF SlotInv, Alive
<1>3. \A j \in Slots : Single(slot'[j]) /\ InSocket(slot'[j]) = InSocket(slot[j])
  BY <1>1, <1>2 DEF OwnInv, SocketsApart, TypeOK
<1>4. SentKept
  BY DEF SentKept
<1> QED
  BY <1>1, <1>3, <1>4, QuietOwn DEF InRequest, Opening, Data

(* A packet that is taken from the pipe was in no socket.                  *)
LEMMA TakenApart ==
  ASSUME TypeOK, OwnInv, pipe # <<>>
  PROVE  \A i \in Slots : InSocket(slot[i]) \cap InRequest(Req) = {}
<1>1. 1 \in DOMAIN pipe /\ Req = pipe[1]
  BY DEF TypeOK, Req
<1> QED
  BY <1>1 DEF OwnInv, SocketsApart

LEMMA BeginForceOwn ==
  ASSUME TypeOK, OwnInv, UNCHANGED <<scene, wk, sent>>, NEW i \in Slots, NEW msg, NEW ctl, BeginForceClose(i, msg, ctl),
         pipe' = pipe \/ (pipe # <<>> /\ pipe' = Tail(pipe) /\ Req.cmd \notin Data)
  PROVE  OwnInv'
<1>1. PICK y : y = [slot[i] EXCEPT !.high = <<>>, !.low = <<>>]
  OBVIOUS
<1>2. slot[i] \in Sockets
  BY DEF TypeOK
<1>3. y.high = <<>> /\ y.low = <<>> /\ y.dw = slot[i].dw
  BY <1>1, <1>2 DEF Sockets
<1>4. /\ slot' = [slot EXCEPT ![i] = y]
      /\ Frees(Packets(slot[i].high) \cup Packets(slot[i].low))
  BY <1>1, FreeFrees DEF BeginForceClose, SetSlot
<1>5. Packets(y.high) = {} /\ Packets(y.low) = {} /\ Distinct(y.high) /\ Distinct(y.low) /\ Direct(y) = Direct(slot[i])
  BY <1>3 DEF Packets, Distinct, Direct
<1>6. Single(y) /\ InSocket(y) = Direct(slot[i])
  BY <1>5 DEF Single, InSocket
<1>7. InSocket(slot[i]) \ InSocket(y) = Packets(slot[i].high) \cup Packets(slot[i].low)
  BY <1>6 DEF OwnInv, SocketsApart, Single, InSocket
<1>8. Takes({})
  BY DEF Takes, InRequest
<1>9. /\ Packets(slot[i].high) \cup Packets(slot[i].low) = (InSocket(slot[i]) \cup {}) \ InSocket(y)
      /\ InSocket(y) \subseteq InSocket(slot[i]) \cup {}
  BY <1>6, <1>7 DEF InSocket
<1> QED
  BY <1>4, <1>6, <1>8, <1>9, ThreadOwn

LEMMA ForceCloseOwn ==
  ASSUME BaseInv, OwnInv, ForceClose
  PROVE  OwnInv'
<1> USE DEF BaseInv
<1> DEFINE i == th.slot
<1>1. PICK y : y = [slot[i] EXCEPT !.type = "INVALID", !.dw = None]
  OBVIOUS
<1>2. i \in Slots /\ slot[i] \in Sockets /\ BufferEmpty(slot[i])
  BY DEF ForceClose, TypeOK, ForceInv
<1>3. y.high = <<>> /\ y.low = <<>> /\ y.dw = None
  BY <1>1, <1>2 DEF Sockets, BufferEmpty
<1>4. slot' = [slot EXCEPT ![i] = y] /\ Free(Direct(slot[i])) /\ UNCHANGED <<scene, wk, sent, pipe>>
  BY <1>1 DEF ForceClose, SetSlot, workVars, Direct
<1>5. Single(y) /\ InSocket(y) = {}
  BY <1>3, NoBuffers DEF BufferEmpty
<1>6. InSocket(slot[i]) = Direct(slot[i])
  BY <1>2 DEF InSocket, BufferEmpty, Packets
<1>7. Frees(Direct(slot[i])) /\ Takes({})
  BY <1>4, FreeFrees DEF Takes
<1> QED
  BY <1>2, <1>4, <1>5, <1>6, <1>7, ThreadOwn

LEMMA CloseSocketOwn ==
  ASSUME BaseInv, OwnInv, CloseSocket
  PROVE  OwnInv'
<1> USE DEF BaseInv
<1>1. /\ pipe # <<>> /\ pipe' = Tail(pipe) /\ Req.cmd \in {"K", "X"} /\ UNCHANGED <<scene, wk, sent>>
      /\ \/ UNCHANGED <<slot, freed>>
         \/ \E msg : ~Invalid(X, Req.id) /\ BeginForceClose(H(Req.id), msg, TRUE)
         \/ /\ ~Invalid(X, Req.id) /\ UNCHANGED freed
            /\ SetSlot(H(Req.id), IF X.type = "HALFCLOSE_READ" THEN [X EXCEPT !.closing = TRUE]
                                  ELSE [CloseRead(X) EXCEPT !.closing = TRUE])
  BY Zenon DEF CloseSocket, Ctrl, workVars
<1>2. Req.cmd \notin Data /\ Req.cmd \notin Opening /\ Req.cmd # "exit"
  BY <1>1 DEF Data, Opening
<1>3. CASE UNCHANGED <<slot, freed>>
  BY <1>1, <1>2, <1>3, QuietThread
<1>4. ASSUME ~Invalid(X, Req.id)
      PROVE  H(Req.id) \in Slots /\ X \in Sockets /\ X = slot[H(Req.id)]
  BY <1>1, <1>2, <1>4, LiveRequest DEF X
<1>5. CASE \E msg : ~Invalid(X, Req.id) /\ BeginForceClose(H(Req.id), msg, TRUE)
  BY <1>1, <1>2, <1>4, <1>5, BeginForceOwn
<1>6. CASE /\ ~Invalid(X, Req.id) /\ UNCHANGED freed
           /\ SetSlot(H(Req.id), IF X.type = "HALFCLOSE_READ" THEN [X EXCEPT !.closing = TRUE]
                                 ELSE [CloseRead(X) EXCEPT !.closing = TRUE])
  <2>1. PICK y : slot' = [slot EXCEPT ![H(Req.id)] = y]
                 /\ y = IF X.type = "HALFCLOSE_READ" THEN [X EXCEPT !.closing = TRUE] ELSE [CloseRead(X) EXCEPT !.closing = TRUE]
    BY <1>6 DEF SetSlot
  <2>2. SameBuffers(X, y)
    BY <1>4, <1>6, <2>1 DEF Sockets, CloseRead, SameBuffers
  <2> QED
    BY <1>1, <1>2, <1>4, <1>6, <2>1, <2>2, QuietThread
<1> QED
  BY <1>1, <1>3, <1>5, <1>6, Zenon

LEMMA ResumeOwn ==
  ASSUME BaseInv, OwnInv, Resume
  PROVE  OwnInv'
<1> USE DEF BaseInv
<1>1. pipe # <<>> /\ pipe' = Tail(pipe) /\ Req.cmd \notin Data /\ UNCHANGED <<scene, wk, sent, freed>>
  BY DEF Resume, Ctrl, workVars, Data
<1>2. slot' = slot \/ \E i \in Slots : \E y : slot' = [slot EXCEPT ![i] = y] /\ SameBuffers(slot[i], y)
  BY ResumeSlot DEF SameBuffers
<1> QED
  BY <1>1, <1>2, QuietThread

LEMMA AdjustOwn ==
  ASSUME BaseInv, OwnInv, Pause \/ SetUdpAddress \/ TriggerWrite
  PROVE  OwnInv'
<1> USE DEF BaseInv
<1>1. PICK y :
        /\ pipe # <<>> /\ pipe' = Tail(pipe) /\ Req.cmd \in {"S", "C", "W"} /\ UNCHANGED <<scene, wk, sent, freed>>
        /\ IF Invalid(X, Req.id) THEN UNCHANGED slot ELSE SetSlot(H(Req.id), y)
        /\ y \in {X, [X EXCEPT !.reading = FALSE], [X EXCEPT !.address = Req.n, !.udpconnecting = @ - 1], [X EXCEPT !.writing = TRUE]}
  BY DEF Pause, SetUdpAddress, TriggerWrite, Adjust, Ctrl, workVars
<1>2. Req.cmd \notin Data /\ Req.cmd \notin Opening /\ Req.cmd # "exit"
  BY <1>1 DEF Data, Opening
<1>3. CASE Invalid(X, Req.id)
  BY <1>1, <1>2, <1>3, QuietThread
<1>4. CASE ~Invalid(X, Req.id)
  <2>1. H(Req.id) \in Slots /\ X \in Sockets /\ X = slot[H(Req.id)]
    BY <1>1, <1>2, <1>4, LiveRequest DEF X
  <2>2. SameBuffers(X, y)
    BY <1>1, <2>1 DEF Sockets, SameBuffers
  <2> QED
    BY <1>1, <1>2, <1>4, <2>1, <2>2, QuietThread DEF SetSlot
<1> QED
  BY <1>3, <1>4

(* send_socket frees the packet it took, or puts it at the end of a list.  *)
LEMMA ReservedEventOwn ==
  ASSUME BaseInv, OwnInv, ReservedEvent
  PROVE  OwnInv'
BY ReservedEventSlot, QuietThread DEF BaseInv, SameBuffers

LEMMA SendSocketOwn ==
  ASSUME BaseInv, OwnInv, SendSocket
  PROVE  OwnInv'
<1> USE DEF BaseInv
<1>1. /\ pipe # <<>> /\ pipe' = Tail(pipe) /\ Req.cmd \in Data /\ UNCHANGED <<scene, wk, sent>>
      /\ InRequest(Req) = {Req.p} /\ Takes({Req.p})
  BY SendSocketSlot DEF Ctrl, workVars, InRequest, Takes
<1>2. H(Req.id) \in Slots /\ X \in Sockets /\ X = slot[H(Req.id)]
  BY <1>1, ReqType DEF X, Data
<1>3. Req.p \notin InSocket(X)
  BY <1>1, <1>2, TakenApart
<1>4. CASE UNCHANGED slot /\ Free({Req.p})
  <2>1. slot' = [slot EXCEPT ![H(Req.id)] = X]
    BY <1>2, <1>4 DEF TypeOK
  <2>2. Single(X)
    BY <1>2 DEF OwnInv, SocketsApart
  <2>3. (InSocket(X) \cup {Req.p}) \ InSocket(X) = {Req.p} /\ Frees({Req.p})
    BY <1>3, <1>4, FreeFrees
  <2> QED
    BY <1>1, <1>2, <2>1, <2>2, <2>3, ThreadOwn
<1>5. ASSUME NEW b \in Buffers, NEW toLow \in BOOLEAN, b.p = Req.p, UNCHANGED freed,
             slot' = [slot EXCEPT ![H(Req.id)] = Appended(X, b, toLow)]
      PROVE  OwnInv'
  <2>1. PICK y : y = Appended(X, b, toLow)
    OBVIOUS
  <2>2. /\ y.dw = X.dw
        /\ y.high = IF toLow THEN X.high ELSE Append(X.high, b)
        /\ y.low = IF toLow THEN Append(X.low, b) ELSE X.low
    BY <1>2, <2>1, AppendedFields
  <2>3. X.high \in Seq(Buffers) /\ X.low \in Seq(Buffers) /\ Single(X)
    BY <1>2 DEF Sockets, OwnInv, SocketsApart
  <2>4. /\ Packets(y.high) \cup Packets(y.low) = Packets(X.high) \cup Packets(X.low) \cup {b.p}
        /\ Distinct(y.high) /\ Distinct(y.low) /\ Packets(y.high) \cap Packets(y.low) = {} /\ Direct(y) = Direct(X)
    <3>1. b.p \notin Packets(X.high) /\ b.p \notin Packets(X.low)
      BY <1>3, <1>5 DEF InSocket
    <3>2. Direct(y) = Direct(X)
      BY <2>2 DEF Direct
    <3>3. CASE toLow
      <4>1. Packets(y.low) = Packets(X.low) \cup {b.p} /\ Distinct(y.low) /\ y.high = X.high
        BY <2>2, <2>3, <3>1, <3>3, AppendPackets DEF Single
      <4> QED
        BY <2>3, <3>1, <3>2, <4>1 DEF Single
    <3>4. CASE ~toLow
      <4>1. Packets(y.high) = Packets(X.high) \cup {b.p} /\ Distinct(y.high) /\ y.low = X.low
        BY <2>2, <2>3, <3>1, <3>4, AppendPackets DEF Single
      <4> QED
        BY <2>3, <3>1, <3>2, <4>1 DEF Single
    <3> QED
      BY <3>3, <3>4
  <2>5. Single(y) /\ InSocket(y) = InSocket(X) \cup {Req.p}
    BY <1>3, <1>5, <2>3, <2>4 DEF Single, InSocket
  <2>6. Frees({})
    BY <1>5, FreeFrees
  <2>7. {} = (InSocket(slot[H(Req.id)]) \cup {Req.p}) \ InSocket(y) /\ InSocket(y) \subseteq InSocket(slot[H(Req.id)]) \cup {Req.p}
    BY <1>2, <2>5
  <2> QED
    BY <1>1, <1>2, <1>5, <2>1, <2>5, <2>6, <2>7, ThreadOwn
<1> QED
  BY <1>4, <1>5, SendSocketSlot

(* The rest of a direct write goes to the front of a list.                 *)
LEMMA WithDirectOwn ==
  ASSUME NEW z \in Sockets, NEW a \in Nat, Single(z)
  PROVE  LET x == WithDirect(z, a) IN
         /\ Single(x) /\ InSocket(x) = InSocket(z) /\ x.dw = None
         /\ x.high \in Seq(Buffers) /\ x.low \in Seq(Buffers)
<1>1. PICK x \in Sockets : x = WithDirect(z, a) /\ x.dw = None
  BY WithDirectType
<1>2. x.high \in Seq(Buffers) /\ x.low \in Seq(Buffers) /\ z.high \in Seq(Buffers) /\ z.dw \in Buffers \cup {None}
  BY DEF Sockets
<1>3. CASE z.dw = None
  <2>1. x = z
    BY <1>1, <1>3 DEF WithDirect
  <2> QED
    BY <1>1, <1>2, <2>1
<1>4. CASE z.dw # None
  <2>1. PICK b : b = [z.dw EXCEPT !.to = a]
    OBVIOUS
  <2>2. z.dw \in Buffers
    BY <1>2, <1>4
  <2>3. b \in Buffers /\ b.p = z.dw.p
    BY <2>1, <2>2 DEF Buffers
  <2>4. x.high = <<b>> \o z.high /\ x.low = z.low
    BY <1>1, <1>4, <2>1 DEF WithDirect, Sockets
  <2>5. Direct(z) = {b.p} /\ Direct(x) = {}
    BY <1>1, <1>4, <2>3 DEF Direct
  <2>6. b.p \notin Packets(z.high) /\ b.p \notin Packets(z.low)
    BY <2>5 DEF Single
  <2>7. Packets(x.high) = Packets(z.high) \cup {b.p} /\ Distinct(x.high)
    BY <1>2, <2>3, <2>4, <2>6, FirstPackets DEF Single
  <2> QED
    BY <1>1, <1>2, <2>4, <2>5, <2>6, <2>7 DEF Single, InSocket
<1> QED
  BY <1>3, <1>4

(* What is written from the lists of x leaves r.                           *)
LEMMA SendsOwn ==
  ASSUME NEW x, NEW h, NEW l, NEW r, x.high \in Seq(Buffers), x.low \in Seq(Buffers), Fits(h, x.high), Fits(l, x.low),
         Sends(x, h, l, r), Single(x), x.dw = None
  PROVE  Single(r) /\ InSocket(r) \subseteq InSocket(x) /\ InSocket(r) = Packets(r.high) \cup Packets(r.low)
<1> DEFINE high == Rest(x.high, h)
           low == Rest(x.low, l)
<1>1. /\ Packets(high) \subseteq Packets(x.high) /\ Distinct(high) /\ high \in Seq(Buffers)
      /\ Packets(low) \subseteq Packets(x.low) /\ Distinct(low) /\ low \in Seq(Buffers)
  BY RestPackets DEF Single, Sends
<1>2. /\ r.dw = None
      /\ (r.high = high /\ r.low = low)
           \/ (high = <<>> /\ low # <<>> /\ r.high = <<Head(low)>> /\ r.low = Tail(low))
  BY DEF Sends, Uncomplete
<1> HIDE DEF high, low
<1>3. Packets(x.high) \cap Packets(x.low) = {}
  BY DEF Single
<1>4. CASE r.high = high /\ r.low = low
  BY <1>1, <1>2, <1>3, <1>4 DEF Single, InSocket, Direct
<1>5. CASE low # <<>> /\ r.high = <<Head(low)>> /\ r.low = Tail(low)
  <2>1. /\ Packets(r.high) \cup Packets(r.low) = Packets(low) /\ Packets(r.high) \cap Packets(r.low) = {}
        /\ Distinct(r.high) /\ Distinct(r.low)
    BY <1>1, <1>5, HeadPackets
  <2> QED
    BY <1>1, <1>2, <2>1 DEF Single, InSocket, Direct
<1> QED
  BY <1>2, <1>4, <1>5

LEMMA SendBufferOwn ==
  ASSUME BaseInv, OwnInv, SendBuffer
  PROVE  OwnInv'
<1> USE DEF BaseInv
<1>1. Event(Plain) /\ "INVALID" \notin Plain /\ "RESERVE" \notin Plain
  BY DEF SendBuffer, Plain
<1>2. /\ E0.slot \in Slots /\ Y \in Sockets /\ Y = slot[E0.slot] /\ UNCHANGED <<scene, wk, sent, pipe>> /\ Single(Y)
  BY <1>1, LiveEvent DEF workVars, OwnInv, SocketsApart
<1>3. CASE UNCHANGED <<slot, freed>>
  BY <1>2, <1>3, QuietThread
<1>4. ASSUME NEW a \in Nat, NEW x \in Sockets, NEW y \in Sockets, x = WithDirect(Y, a),
             ByError(x, y) \/ \E h, l, r : ByWrite(x, y, h, l, r)
      PROVE  OwnInv'
  <2>1. /\ Single(x) /\ InSocket(x) = InSocket(slot[E0.slot]) /\ x.dw = None
        /\ x.high \in Seq(Buffers) /\ x.low \in Seq(Buffers)
    BY <1>2, <1>4, WithDirectOwn
  <2>2. InSocket(x) = Packets(x.high) \cup Packets(x.low) /\ Takes({})
    BY <1>2, <2>1 DEF InSocket, Direct, Takes
  <2>3. ASSUME NEW out, Free(out), out = InSocket(x) \ InSocket(y), Single(y), InSocket(y) \subseteq InSocket(x),
               slot' = [slot EXCEPT ![E0.slot] = y]
        PROVE  OwnInv'
    <3>1. Frees(out)
      BY <2>3, FreeFrees
    <3>2. InSocket(y) \subseteq InSocket(slot[E0.slot]) \cup {} /\ out = (InSocket(slot[E0.slot]) \cup {}) \ InSocket(y)
      BY <2>1, <2>3
    <3> QED
      BY <1>2, <2>2, <2>3, <3>1, <3>2, ThreadOwn
  <2>4. CASE ByError(x, y)
    <3>1. slot' = [slot EXCEPT ![E0.slot] = y] /\ y.dw = None
          /\ \/ y.high = <<>> /\ y.low = <<>> /\ Free(Packets(x.high) \cup Packets(x.low))
             \/ y.high = x.high /\ y.low = x.low /\ Free({})
      BY <2>1, <2>4 DEF ByError, AfterError
    <3>2. CASE y.high = <<>> /\ y.low = <<>> /\ Free(Packets(x.high) \cup Packets(x.low))
      <4>1. InSocket(y) = {} /\ Single(y)
        BY <3>1, <3>2, NoBuffers DEF BufferEmpty
      <4> QED
        BY <2>2, <2>3, <3>1, <3>2, <4>1
    <3>3. CASE y.high = x.high /\ y.low = x.low /\ Free({})
      <4>1. InSocket(y) = InSocket(x) /\ Single(y)
        BY <2>1, <3>1, <3>3 DEF InSocket, Single, Direct
      <4> QED
        BY <2>3, <3>1, <3>3, <4>1
    <3> QED
      BY <3>1, <3>2, <3>3
  <2>5. ASSUME NEW h, NEW l, NEW r, ByWrite(x, y, h, l, r)
        PROVE  OwnInv'
    <3>1. AfterWrite(x, h, l, r, y) /\ Fits(h, x.high) /\ Fits(l, x.low)
      BY <2>5 DEF ByWrite
    <3>2. /\ slot' = [slot EXCEPT ![E0.slot] = y] /\ y.dw = x.dw /\ y.high = r.high /\ y.low = r.low /\ Sends(x, h, l, r)
          /\ Free((Packets(x.high) \cup Packets(x.low)) \ (Packets(r.high) \cup Packets(r.low)))
      BY <3>1 DEF AfterWrite
    <3>3. Single(r) /\ InSocket(r) \subseteq InSocket(x) /\ InSocket(r) = Packets(r.high) \cup Packets(r.low)
      BY <2>1, <3>1, <3>2, SendsOwn
    <3>4. r.dw = None
      BY <2>1, <3>2 DEF Sends
    <3>5. Single(y) /\ InSocket(y) = InSocket(r)
      BY <2>1, <3>2, <3>3, <3>4 DEF Single, InSocket, Direct
    <3> QED
      BY <2>2, <2>3, <3>2, <3>3, <3>5
  <2> QED
    BY <1>4, <2>4, <2>5
<1> QED
  BY <1>3, <1>4, SendBufferWays, Zenon

(* Events that write nothing.                                              *)
LEMMA EventOwn ==
  ASSUME BaseInv, OwnInv, ReportConnect \/ ReadTcp \/ ReadUdp \/ ErrorEvent
  PROVE  OwnInv'
<1> USE DEF BaseInv
<1> DEFINE y == [Y EXCEPT !.type = "CONNECTED", !.writing = @ /\ ~NoMoreSendingData(Y)]
<1>1. Event(Plain) \/ Event({"CONNECTING"})
  BY DEF ReportConnect, ReadTcp, ReadUdp, ErrorEvent
<1>2. E0.slot \in Slots /\ Y \in Sockets /\ Y = slot[E0.slot] /\ UNCHANGED <<scene, wk, sent, pipe>>
  BY <1>1, LiveEvent DEF workVars, Plain
<1>3. \/ UNCHANGED <<slot, freed>>
      \/ \E msg : BeginForceClose(E0.slot, msg, FALSE)
      \/ (SetSlot(E0.slot, CloseRead(Y)) \/ SetSlot(E0.slot, y)) /\ UNCHANGED freed
  BY Zenon DEF ReportConnect, ReadTcp, ReadUdp, ErrorEvent
<1>4. CASE UNCHANGED <<slot, freed>>
  BY <1>2, <1>4, QuietThread
<1>5. CASE \E msg : BeginForceClose(E0.slot, msg, FALSE)
  BY <1>2, <1>5, BeginForceOwn
<1>6. CASE (SetSlot(E0.slot, CloseRead(Y)) \/ SetSlot(E0.slot, y)) /\ UNCHANGED freed
  <2>1. PICK z \in {CloseRead(Y), y} : slot' = [slot EXCEPT ![E0.slot] = z]
    BY <1>6 DEF SetSlot
  <2>2. SameBuffers(Y, y) /\ SameBuffers(Y, CloseRead(Y))
    BY <1>2 DEF Sockets, CloseRead, SameBuffers
  <2> QED
    BY <1>2, <1>6, <2>1, <2>2, QuietThread
<1> QED
  BY <1>3, <1>4, <1>5, <1>6

LEMMA DecSendingOwn ==
  ASSUME BaseInv, OwnInv, DecSending
  PROVE  OwnInv'
<1> USE DEF BaseInv
<1>1. /\ th.slot \in Slots /\ slot[th.slot] \in Sockets /\ UNCHANGED <<scene, wk, sent, freed, pipe>>
      /\ slot' = slot \/ slot' = [slot EXCEPT ![th.slot] = [slot[th.slot] EXCEPT !.sending = @ - 1]]
  BY DEF DecSending, workVars, TypeOK
<1>2. SameBuffers(slot[th.slot], [slot[th.slot] EXCEPT !.sending = @ - 1])
  BY <1>1 DEF SameBuffers, Sockets
<1> QED
  BY <1>1, <1>2, QuietThread

(* A direct write frees its packet, passes it on to the pipe, or leaves    *)
(* the rest of it in the socket, which has no other rest.                  *)
LEMMA DirectWriteOwn ==
  ASSUME BaseInv, ArmedInv, OwnInv, NEW w \in Workers, DirectWrite(w)
  PROVE  OwnInv'
<1> USE DEF BaseInv
<1> DEFINE p == wk[w].p
           i == H(wk[w].id)
<1>1. /\ wk[w].pc = "write" /\ UNCHANGED <<scene, pipe>>
      /\ \/ slot' = slot /\ wk' = [wk EXCEPT ![w] = Resting] /\ Free({p}) /\ sent' = sent
         \/ slot' = slot /\ wk' = [wk EXCEPT ![w] = [wk[w] EXCEPT !.pc = "put"]] /\ UNCHANGED <<freed, sent>>
         \/ \E n \in 0 .. Size(p) :
                /\ slot' = [slot EXCEPT ![i].dw = Buffer(p, n, 0)] /\ sent' = [sent EXCEPT ![p].retried = TRUE]
                /\ wk' = [wk EXCEPT ![w] = [wk[w] EXCEPT !.pc = "inc", !.cmd = "W"]] /\ UNCHANGED freed
  BY Zenon DEF DirectWrite, Goto
<1>2. /\ wk[w] \in Working /\ wk[w].cmd \in Data /\ i \in Slots /\ slot[i].dw = None /\ InCall(wk[w]) = {p}
  <2>1. wk[w] \in Working /\ wk[w].cmd # "W" /\ i \in Slots /\ slot[i].dw = None
    BY <1>1, HoldsLock DEF ArmedInv
  <2> QED
    BY <1>1, <2>1 DEF Working, InCall
<1>3. \A j \in Slots : Single(slot[j]) /\ p \notin InSocket(slot[j])
  BY <1>2 DEF OwnInv, SocketsApart
<1>4. PICK none : none = {}
  OBVIOUS
<1>5. Adds(none)
  BY <1>1, <1>4 DEF Adds
<1> HIDE DEF p, i
<1>6. CASE slot' = slot /\ wk' = [wk EXCEPT ![w] = Resting] /\ Free({p}) /\ sent' = sent
  <2>1. PICK r : r = Resting
    OBVIOUS
  <2>2. InCall(r) = {} /\ SentKept /\ wk' = [wk EXCEPT ![w] = r]
    BY <1>6, <2>1 DEF InCall, Resting, SentKept
  <2>3. PICK out : out = {p} /\ Frees(out)
    BY <1>6, FreeFrees
  <2>4. \A j \in Slots : Single(slot'[j]) /\ InSocket(slot'[j]) = InSocket(slot[j]) \cup (IF j = i THEN none ELSE {})
    BY <1>3, <1>4, <1>6
  <2>5. /\ InCall(r) \cup none \cup none \subseteq InCall(wk[w]) /\ InCall(r) \cap none = {} /\ none \cap none = {}
        /\ out = InCall(wk[w]) \ (InCall(r) \cup none \cup none)
    BY <1>2, <1>4, <2>2, <2>3
  <2> QED
    <3>1. HandsOver(w, r, i, none, none, out)
      BY <1>1, <1>2, <1>5, <2>2, <2>3, <2>4, <2>5 DEF HandsOver
    <3> QED
      BY <3>1, WorkOwn
<1>7. CASE slot' = slot /\ wk' = [wk EXCEPT ![w] = [wk[w] EXCEPT !.pc = "put"]] /\ UNCHANGED <<freed, sent>>
  <2>1. PICK r : r = [wk[w] EXCEPT !.pc = "put"]
    OBVIOUS
  <2>2. r.pc = "put" /\ r.cmd = wk[w].cmd /\ r.p = p
    BY <1>2, <2>1 DEF Working, p
  <2>3. InCall(r) = InCall(wk[w]) /\ SentKept
    BY <1>2, <1>7, <2>2 DEF InCall, SentKept
  <2>4. \A v \in Workers : InCall(wk'[v]) = InCall(wk[v])
    BY <1>7, <2>1, <2>3 DEF TypeOK
  <2> QED
    BY <1>1, <1>3, <1>7, <2>3, <2>4, QuietOwn
<1>8. ASSUME NEW n \in 0 .. Size(p), slot' = [slot EXCEPT ![i].dw = Buffer(p, n, 0)], sent' = [sent EXCEPT ![p].retried = TRUE],
             wk' = [wk EXCEPT ![w] = [wk[w] EXCEPT !.pc = "inc", !.cmd = "W"]], UNCHANGED freed
      PROVE  OwnInv'
  <2>1. PICK r : r = [wk[w] EXCEPT !.pc = "inc", !.cmd = "W"]
    OBVIOUS
  <2>2. r.cmd = "W"
    BY <1>2, <2>1 DEF Working
  <2>3. InCall(r) = {}
    BY <2>2 DEF InCall, Data
  <2>4. SentKept
    BY <1>8 DEF SentKept, TypeOK, SentRecs
  <2>5. PICK b : b = Buffer(p, n, 0)
    OBVIOUS
  <2>6. PICK y : y = [slot[i] EXCEPT !.dw = b]
    OBVIOUS
  <2>7. /\ slot' = [slot EXCEPT ![i] = y] /\ slot'[i] = y /\ \A j \in Slots : j # i => slot'[j] = slot[j]
    BY <1>2, <1>8, <2>5, <2>6 DEF TypeOK
  <2>8. slot[i] \in Sockets
    BY <1>2 DEF TypeOK
  <2>9. y.dw = b /\ y.high = slot[i].high /\ y.low = slot[i].low
    BY <2>6, <2>8 DEF Sockets
  <2>10. b # None /\ b.p = p
    <3>1. p \in Nat /\ n \in Nat
      <4>1. p \in Nat
        BY <1>2 DEF Working, p
      <4>2. Size(p) \in Nat
        BY Sizes
      <4> QED
        BY <4>1, <4>2
    <3>2. b = [p |-> p, off |-> n, to |-> 0]
      BY <2>5 DEF Buffer
    <3>3. b \in Buffers /\ b.p = p
      BY <3>1, <3>2 DEF Buffers
    <3> QED
      BY <3>3, SocketAssumption
  <2>11. Direct(y) = {p} /\ Direct(slot[i]) = {}
    BY <1>2, <2>5, <2>9, <2>10 DEF Direct
  <2>12. InSocket(y) = InSocket(slot[i]) \cup {p} /\ Single(y)
    BY <1>2, <1>3, <2>9, <2>11 DEF InSocket, Single
  <2>13. \A j \in Slots : Single(slot'[j]) /\ InSocket(slot'[j]) = InSocket(slot[j]) \cup (IF j = i THEN {p} ELSE {})
    BY <1>3, <2>7, <2>12
  <2>14. PICK out : out = {} /\ Frees(out)
    BY <1>8, FreeFrees
  <2>15. wk' = [wk EXCEPT ![w] = r]
    BY <1>8, <2>1
  <2>16. PICK to : to = {p}
    OBVIOUS
  <2>17. /\ InCall(r) \cup to \cup none \subseteq InCall(wk[w])
         /\ InCall(r) \cap to = {} /\ InCall(r) \cap none = {} /\ to \cap none = {}
         /\ out = InCall(wk[w]) \ (InCall(r) \cup to \cup none)
    BY <1>2, <1>4, <2>3, <2>14, <2>16
  <2>18. \A j \in Slots : Single(slot'[j]) /\ InSocket(slot'[j]) = InSocket(slot[j]) \cup (IF j = i THEN to ELSE {})
    BY <2>13, <2>16
  <2> QED
    <3>1. HandsOver(w, r, i, to, none, out)
      BY <1>1, <1>2, <1>5, <2>4, <2>14, <2>15, <2>17, <2>18 DEF HandsOver
    <3> QED
      BY <3>1, WorkOwn
<1> QED
  BY <1>1, <1>6, <1>7, <1>8 DEF p, i

LEMMA PutRequestOwn ==
  ASSUME BaseInv, OwnInv, NEW w \in Workers, PutRequest(w)
  PROVE  OwnInv'
<1> USE DEF BaseInv
<1>1. PICK q : q = [cmd |-> wk[w].cmd, id |-> wk[w].id, p |-> wk[w].p]
  OBVIOUS
<1>2. PICK r : r = Resting
  OBVIOUS
<1>3. /\ wk[w].pc = "put" /\ wk' = [wk EXCEPT ![w] = r] /\ Put(q) /\ UNCHANGED <<scene, slot, sent, freed>>
  BY <1>1, <1>2 DEF PutRequest, Goto, sockVars
<1>4. InCall(r) = {} /\ InRequest(q) = InCall(wk[w])
  <2>1. r.pc = "idle" /\ q.cmd = wk[w].cmd /\ q.p = wk[w].p
    BY <1>1, <1>2 DEF Resting
  <2> QED
    BY <1>3, <2>1 DEF InCall, InRequest
<1>5. PICK in : in = InRequest(q)
  OBVIOUS
<1>6. PICK none : none = {} /\ Frees(none)
  BY <1>3, FreeFrees
<1>7. 0 \in Slots
  BY Scene DEF TypeOK, Slots, NSlot
<1>8. \A j \in Slots : Single(slot'[j]) /\ InSocket(slot'[j]) = InSocket(slot[j]) \cup (IF j = 0 THEN none ELSE {})
  BY <1>3, <1>6 DEF OwnInv, SocketsApart
<1>9. Adds(in) /\ SentKept
  BY <1>3, <1>5 DEF Adds, SentKept
<1>10. /\ InCall(r) \cup none \cup in \subseteq InCall(wk[w])
       /\ InCall(r) \cap none = {} /\ InCall(r) \cap in = {} /\ none \cap in = {}
       /\ none = InCall(wk[w]) \ (InCall(r) \cup none \cup in)
  BY <1>4, <1>5, <1>6
<1>11. HandsOver(w, r, 0, none, in, none)
  BY <1>3, <1>6, <1>7, <1>8, <1>9, <1>10 DEF HandsOver
<1> QED
  BY <1>11, WorkOwn

LEMMA WorkerOwn ==
  ASSUME BaseInv, ArmedInv, OwnInv, NEW w \in Workers, Worker(w)
  PROVE  OwnInv'
<1> USE DEF BaseInv
<1>1. CASE Connect(w) \/ Listen(w) \/ BindFd(w) \/ Udp(w)
  <2>1. OpenStep
    BY <1>1, OpenRequestOpen DEF Connect, Listen, BindFd, Udp, Opening
  <2>2. sent' = sent /\ freed' = freed
    BY <1>1 DEF Connect, Listen, BindFd, Udp, OpenRequest
  <2> QED
    BY <2>1, <2>2, OpeningOwn
<1>2. ASSUME UNCHANGED <<scene, sent, freed>>,
             \A i \in Slots : SameBuffers(slot[i], slot'[i]),
             wk' = wk \/ \E r : wk' = [wk EXCEPT ![w] = r] /\ InCall(r) = InCall(wk[w]),
             pipe' = pipe \/ \E q : Put(q) /\ InRequest(q) = {}
      PROVE  OwnInv'
  <2>1. \A i \in Slots : Single(slot'[i]) /\ InSocket(slot'[i]) = InSocket(slot[i])
    BY <1>2 DEF OwnInv, SocketsApart, SameBuffers, Single, InSocket, Direct
  <2>2. \A v \in Workers : InCall(wk'[v]) = InCall(wk[v])
    BY <1>2 DEF TypeOK
  <2>3. SentKept
    BY <1>2 DEF SentKept
  <2> QED
    BY <1>2, <2>1, <2>2, <2>3, QuietOwn
<1>3. slot' = slot => \A i \in Slots : SameBuffers(slot[i], slot'[i])
  BY DEF SameBuffers
<1>4. ASSUME NEW cmd, cmd \notin Data, NEW id PROVE InRequest([cmd |-> cmd, id |-> id]) = {}
  BY <1>4 DEF InRequest
<1>5. ASSUME NEW id \in 1 .. alloc, StartPause(w, id) \/ Close(w, id) \/ Shutdown(w, id)
      PROVE  OwnInv'
  <2>1. PICK cmd \in {"R", "S", "K", "X"} : Request(w, id, cmd)
    BY <1>5 DEF StartPause, Close, Shutdown
  <2>2. Put([cmd |-> cmd, id |-> id]) /\ UNCHANGED <<scene, slot, wk, sent, freed>>
    BY <2>1 DEF Request, sockVars
  <2>3. cmd \notin Data
    BY DEF Data
  <2> QED
    BY <1>2, <1>3, <1>4, <2>2, <2>3
<1>6. CASE Exit(w)
  <2>1. Put([cmd |-> "exit"]) /\ UNCHANGED <<scene, slot, wk, sent, freed>>
    BY <1>6 DEF Exit, sockVars
  <2>2. InRequest([cmd |-> "exit"]) = {}
    BY DEF InRequest, Data
  <2> QED
    BY <1>2, <1>3, <2>1, <2>2
<1>7. ASSUME NEW id \in 1 .. alloc, Send(w, id) \/ SendLow(w, id) \/ UdpSend(w, id)
      PROVE  OwnInv'
  <2> DEFINE bad == Invalid(slot[H(id)], id)
             refused == Invalid(slot[H(id)], id) \/ slot[H(id)].closing
  <2>1. \E direct : \/ Sending(w, id, "D", refused, direct)
                    \/ Sending(w, id, "P", bad, direct)
                    \/ Sending(w, id, "A", bad, direct)
    BY <1>7 DEF Send, SendLow, UdpSend
  <2>2. bad \in BOOLEAN /\ refused \in BOOLEAN
    BY DEF Invalid
  <2>3. "D" \in Data /\ "P" \in Data /\ "A" \in Data
    BY DEF Data
  <2> HIDE DEF bad, refused
  <2> QED
    BY <2>1, <2>2, <2>3, SendingOwn
<1>8. ASSUME NEW id \in 1 .. alloc, UdpConnect(w, id)
      PROVE  OwnInv'
  <2>1. PICK r : r = [pc |-> "resolve", id |-> id, p |-> 0, cmd |-> "C"]
    OBVIOUS
  <2>2. /\ wk' = [wk EXCEPT ![w] = r] /\ wk[w].pc = "idle" /\ pipe' = pipe
        /\ slot' = [slot EXCEPT ![H(id)].udpconnecting = @ + 1]
        /\ UNCHANGED <<scene, sent, freed>>
    BY <1>8, <2>1 DEF UdpConnect, Call, Idle, Goto
  <2>3. InCall(r) = InCall(wk[w])
    <3>1. r.cmd = "C"
      BY <2>1
    <3> QED
      BY <2>2, <3>1 DEF InCall, Data
  <2>4. \A j \in Slots : SameBuffers(slot[j], slot'[j])
    BY <2>2 DEF TypeOK, Sockets, SameBuffers
  <2> QED
    BY <1>2, <2>2, <2>3, <2>4
<1>9. CASE DoubleCheck(w)
  <2>1. PICK pc \in {"write", "put", "inc"} :
          /\ wk' = [wk EXCEPT ![w] = [wk[w] EXCEPT !.pc = pc]] /\ wk[w].pc = "check"
          /\ UNCHANGED <<scene, slot, pipe, sent, freed>>
    BY <1>9 DEF DoubleCheck, Goto, Queueing
  <2>2. PICK r : r = [wk[w] EXCEPT !.pc = pc]
    OBVIOUS
  <2>3. wk[w] \in Working
    BY <2>1, HoldsLock
  <2>4. r.cmd = wk[w].cmd /\ r.p = wk[w].p /\ r.pc = pc
    BY <2>2, <2>3 DEF Working
  <2>5. InCall(r) = InCall(wk[w])
    BY <2>1, <2>4 DEF InCall
  <2> QED
    BY <1>2, <1>3, <2>1, <2>2, <2>5
<1>10. CASE IncSending(w)
  <2>1. PICK r : r = [wk[w] EXCEPT !.pc = "put"]
    OBVIOUS
  <2>2. /\ wk' = [wk EXCEPT ![w] = r] /\ wk[w].pc = "inc" /\ pipe' = pipe
        /\ slot' = slot \/ slot' = [slot EXCEPT ![H(wk[w].id)].sending = @ + 1]
        /\ UNCHANGED <<scene, sent, freed>>
    BY <1>10, <2>1 DEF IncSending, Goto
  <2>3. wk[w] \in Working
    BY <2>2, AtWork DEF TypeOK
  <2>4. r.pc = "put" /\ r.cmd = wk[w].cmd /\ r.p = wk[w].p
    BY <2>1, <2>3 DEF Working
  <2>5. InCall(r) = InCall(wk[w])
    BY <2>2, <2>4 DEF InCall
  <2>6. CASE slot' = [slot EXCEPT ![H(wk[w].id)].sending = @ + 1]
    <3>1. \A j \in Slots : SameBuffers(slot[j], slot'[j])
      BY <2>6 DEF TypeOK, Sockets, SameBuffers
    <3> QED
      BY <1>2, <2>2, <2>5, <3>1
  <2> QED
    BY <1>2, <1>3, <2>2, <2>5, <2>6
<1>11. CASE Resolve(w)
  <2>1. PICK r : r = Resting
    OBVIOUS
  <2>2. /\ wk' = [wk EXCEPT ![w] = r] /\ wk[w].pc = "resolve" /\ UNCHANGED <<scene, slot, sent, freed>>
        /\ pipe' = pipe \/ \E n : Put([cmd |-> "C", id |-> wk[w].id, n |-> n])
    BY <1>11, <2>1 DEF Resolve, Goto
  <2>3. wk[w].cmd = "C"
    <3>1. wk[w] \in WorkerRecs
      BY DEF TypeOK
    <3> QED
      BY <2>2, <3>1, AtWork
  <2>4. InCall(r) = InCall(wk[w])
    BY <2>1, <2>3 DEF InCall, Resting, Data
  <2>5. \A n : InRequest([cmd |-> "C", id |-> wk[w].id, n |-> n]) = {}
    BY DEF InRequest, Data
  <2> QED
    BY <1>2, <1>3, <2>2, <2>4, <2>5
<1> QED
  BY <1>1, <1>5, <1>6, <1>7, <1>8, <1>9, <1>10, <1>11, PutRequestOwn, DirectWriteOwn DEF Worker

LEMMA OwnNext ==
  ASSUME BaseInv, ArmedInv, OwnInv, [Next]_vars
  PROVE  OwnInv'
<1> USE DEF BaseInv
<1>1. ASSUME UNCHANGED <<scene, wk, sent, freed, slot>>,
             pipe' = pipe \/ (pipe # <<>> /\ pipe' = Tail(pipe) /\ Req.cmd \notin Data)
      PROVE  OwnInv'
  BY <1>1, QuietThread
<1>2. CASE UNCHANGED vars
  BY <1>1, <1>2 DEF vars
<1>3. CASE \E w \in Workers : Worker(w)
  BY <1>3, WorkerOwn
<1>4. CASE OpenSocket \/ ListenSocket \/ BindSocket \/ AddUdpSocket
  <2>1. sent' = sent /\ freed' = freed
    BY <1>4 DEF OpenSocket, ListenSocket, BindSocket, AddUdpSocket, NoSocket, SetUp
  <2> QED
    BY <1>4, <2>1, OpeningSlot, OpeningOwn
<1>5. CASE ReportAccept
  <2>1. UNCHANGED <<scene, wk, sent, freed, pipe>>
    BY <1>5 DEF ReportAccept, Event, workVars
  <2>2. CASE OpenStep
    BY <2>1, <2>2, OpeningOwn
  <2>3. CASE slot' = slot
    BY <1>1, <2>1, <2>3
  <2> QED
    BY <1>5, <2>2, <2>3, ReportAcceptOpen
<1>6. CASE SpWait \/ InvalidSocket \/ VoidEvent \/ ClearEvent \/ NoCommand
  BY <1>1, <1>6 DEF SpWait, InvalidSocket, VoidEvent, ClearEvent, NoCommand, Event, workVars
<1>7. CASE ExitCmd
  BY <1>1, <1>7 DEF ExitCmd, Ctrl, workVars, Data
<1>8. CASE CloseSocket
  BY <1>8, CloseSocketOwn
<1>9. CASE Resume
  BY <1>9, ResumeOwn
<1>10. CASE Pause \/ TriggerWrite \/ SetUdpAddress
  BY <1>10, AdjustOwn
<1>11. CASE SendSocket
  BY <1>11, SendSocketOwn
<1>12. CASE DecSending
  BY <1>12, DecSendingOwn
<1>13. CASE ForceClose
  BY <1>13, ForceCloseOwn
<1>14. CASE SendBuffer
  BY <1>14, SendBufferOwn
<1>15. CASE ReportConnect \/ ReadTcp \/ ReadUdp \/ ErrorEvent
  BY <1>15, EventOwn
<1>16. CASE ReservedEvent
  BY <1>16, ReservedEventOwn
<1>17. CASE \E id \in Ids : Network(id)
  BY <1>1, <1>17 DEF Network
<1> QED
  BY <1>2, <1>3, <1>4, <1>5, <1>6, <1>7, <1>8, <1>9, <1>10, <1>11, <1>12, <1>13, <1>14, <1>15, <1>16, <1>17 DEF Next, SocketThread

LEMMA OwnInit == Init => OwnInv
<1> SUFFICES ASSUME Init PROVE OwnInv
  OBVIOUS
<1>1. /\ slot = [i \in Slots |-> FreshSlot] /\ wk = [w \in Workers |-> Resting] /\ pipe = <<>>
      /\ sent = <<>> /\ freed = <<>>
  BY DEF Init
<1>2. BufferEmpty(FreshSlot) /\ FreshSlot.dw = None /\ Resting.pc = "idle"
  BY DEF FreshSlot, BufferEmpty, Resting
<1>3. /\ InSocket(FreshSlot) = {} /\ Single(FreshSlot) /\ InCall(Resting) = {} /\ DOMAIN pipe = {} /\ DOMAIN sent = {}
  BY <1>1, <1>2, NoBuffers DEF InCall
<1>4. CallsApart /\ RequestsApart /\ SocketsApart
  BY <1>1, <1>3 DEF CallsApart, RequestsApart, SocketsApart
<1>5. \A p : ~Owned(p)
  BY <1>1, <1>3 DEF Owned
<1> QED
  BY <1>3, <1>4, <1>5 DEF OwnInv, FreedOnce

(* The hands a packet is in, one of three kinds.                           *)
InSlot(h, p, i) ==
  \/ \E k \in DOMAIN slot[i].high : h = <<"high", i, k>> /\ slot[i].high[k].p = p
  \/ \E k \in DOMAIN slot[i].low : h = <<"low", i, k>> /\ slot[i].low[k].p = p
  \/ h = <<"direct", i, 0>> /\ p \in Direct(slot[i])
Hand(h, p) ==
  \/ \E w \in Workers : h = <<"worker", w, 0>> /\ p \in InCall(wk[w])
  \/ \E k \in DOMAIN pipe : h = <<"pipe", k, 0>> /\ p \in InRequest(pipe[k])
  \/ \E i \in Slots : InSlot(h, p, i)

LEMMA HandsAre ==
  ASSUME TypeOK, NEW p \in DOMAIN sent
  PROVE  \A h : h \in Hands(p) <=> Hand(h, p)
<1>1. p # 0
  BY DEF TypeOK
<1>2. ASSUME NEW w \in Workers
      PROVE  wk[w].pc # "idle" /\ wk[w].p = p /\ wk[w].cmd # "W" <=> p \in InCall(wk[w])
  <2>1. wk[w] \in WorkerRecs
    BY DEF TypeOK
  <2>2. wk[w].pc = "resolve" => wk[w].p = 0
    BY <2>1 DEF WorkerRecs, Working, Resting
  <2>3. wk[w].pc # "idle" /\ wk[w].pc # "resolve" => wk[w].cmd \in Data \cup {"W"}
    BY <2>1, AtWork
  <2> QED
    BY <1>1, <2>1, <2>2, <2>3, AtWork DEF InCall, Data
<1>3. \A k \in DOMAIN pipe : pipe[k].cmd \in {"D", "P", "A"} /\ pipe[k].p = p <=> p \in InRequest(pipe[k])
  BY DEF InRequest, Data
<1>4. \A i \in Slots : slot[i].dw # None /\ slot[i].dw.p = p <=> p \in Direct(slot[i])
  BY DEF Direct
<1> DEFINE W == {<<"worker", w, 0>> : w \in {v \in Workers : wk[v].pc # "idle" /\ wk[v].p = p /\ wk[v].cmd # "W"}}
           P == {<<"pipe", k, 0>> : k \in {j \in DOMAIN pipe : pipe[j].cmd \in {"D", "P", "A"} /\ pipe[j].p = p}}
           U == UNION {{<<"high", i, k>> : k \in {j \in DOMAIN slot[i].high : slot[i].high[j].p = p}} : i \in Slots}
           L == UNION {{<<"low", i, k>> : k \in {j \in DOMAIN slot[i].low : slot[i].low[j].p = p}} : i \in Slots}
           D == {<<"direct", i, 0>> : i \in {j \in Slots : slot[j].dw # None /\ slot[j].dw.p = p}}
<1>5. \A h : h \in W <=> \E w \in Workers : h = <<"worker", w, 0>> /\ p \in InCall(wk[w])
  BY <1>2
<1>6. \A h : h \in P <=> \E k \in DOMAIN pipe : h = <<"pipe", k, 0>> /\ p \in InRequest(pipe[k])
  BY <1>3
<1>7. \A h : h \in U <=> \E i \in Slots : \E k \in DOMAIN slot[i].high : h = <<"high", i, k>> /\ slot[i].high[k].p = p
  OBVIOUS
<1>8. \A h : h \in L <=> \E i \in Slots : \E k \in DOMAIN slot[i].low : h = <<"low", i, k>> /\ slot[i].low[k].p = p
  OBVIOUS
<1>9. \A h : h \in D <=> \E i \in Slots : h = <<"direct", i, 0>> /\ p \in Direct(slot[i])
  BY <1>4
<1>10. \A h : h \in Hands(p) <=> h \in W \/ h \in P \/ h \in U \/ h \in L \/ h \in D
  BY DEF Hands
<1> HIDE DEF W, P, U, L, D
<1> QED
  BY <1>5, <1>6, <1>7, <1>8, <1>9, <1>10 DEF Hand, InSlot

LEMMA OneHand ==
  ASSUME TypeOK, OwnInv, NEW p, NEW h, NEW g, Hand(h, p), Hand(g, p)
  PROVE  h = g
<1>1. \A f : \A i \in Slots : InSlot(f, p, i) => p \in InSocket(slot[i])
  BY DEF InSlot, InSocket, Packets
<1>2. \A w, v \in Workers : p \in InCall(wk[w]) /\ p \in InCall(wk[v]) => w = v
  BY DEF OwnInv, CallsApart
<1>3. /\ \A k, l \in DOMAIN pipe : p \in InRequest(pipe[k]) /\ p \in InRequest(pipe[l]) => k = l
      /\ \A k \in DOMAIN pipe : \A w \in Workers : ~(p \in InRequest(pipe[k]) /\ p \in InCall(wk[w]))
  BY DEF OwnInv, RequestsApart
<1>4. /\ \A i, j \in Slots : p \in InSocket(slot[i]) /\ p \in InSocket(slot[j]) => i = j
      /\ \A i \in Slots : \A k \in DOMAIN pipe : ~(p \in InSocket(slot[i]) /\ p \in InRequest(pipe[k]))
      /\ \A i \in Slots : \A w \in Workers : ~(p \in InSocket(slot[i]) /\ p \in InCall(wk[w]))
  BY DEF OwnInv, SocketsApart
<1>5. CASE \E w \in Workers : h = <<"worker", w, 0>> /\ p \in InCall(wk[w])
  BY <1>1, <1>2, <1>3, <1>4, <1>5 DEF Hand
<1>6. CASE \E k \in DOMAIN pipe : h = <<"pipe", k, 0>> /\ p \in InRequest(pipe[k])
  BY <1>1, <1>3, <1>4, <1>6 DEF Hand
<1>7. ASSUME NEW i \in Slots, InSlot(h, p, i)
      PROVE  h = g
  <2>1. InSlot(g, p, i)
    BY <1>1, <1>3, <1>4, <1>7 DEF Hand
  <2>2. Single(slot[i])
    BY DEF OwnInv, SocketsApart
  <2> PICK x : x = slot[i]
    OBVIOUS
  <2>3. /\ \A j, k \in DOMAIN x.high : x.high[j].p = p /\ x.high[k].p = p => j = k
        /\ \A j, k \in DOMAIN x.low : x.low[j].p = p /\ x.low[k].p = p => j = k
        /\ \A j \in DOMAIN x.high : \A k \in DOMAIN x.low : ~(x.high[j].p = p /\ x.low[k].p = p)
        /\ \A j \in DOMAIN x.high : ~(x.high[j].p = p /\ p \in Direct(x))
        /\ \A j \in DOMAIN x.low : ~(x.low[j].p = p /\ p \in Direct(x))
    BY <2>2 DEF Single, Distinct, Packets
  <2> QED
    BY <1>7, <2>1, <2>3 DEF InSlot
<1> QED
  BY <1>5, <1>6, <1>7 DEF Hand

(* Every buffer the server took is in exactly one hand - a worker, the     *)
(* pipe, a write list, the direct write buffer - or was freed exactly      *)
(* once, however the calls of the workers, the requests, the partial       *)
(* writes, the errors and the forced closes interleave.                    *)
THEOREM SocketBufferOnce == Spec => []BufferOnce
<1>1. Init => ArmedInv /\ OwnInv
  BY ArmedInit, OwnInit
<1>2. BaseInv /\ ArmedInv /\ OwnInv /\ [Next]_vars => ArmedInv' /\ OwnInv'
  BY ArmedNext, OwnNext
<1>3. BaseInv /\ OwnInv => BufferOnce
  <2> SUFFICES ASSUME BaseInv, OwnInv, NEW p \in DOMAIN sent, sent[p].ok
               PROVE  freed[p] + Cardinality(Hands(p)) = 1
    BY DEF BufferOnce
  <2>1. (\E h : Hand(h, p)) <=> Owned(p)
    BY DEF Hand, Owned, InSlot, InSocket, Packets
  <2>2. \A h : h \in Hands(p) <=> Hand(h, p)
    BY HandsAre DEF BaseInv
  <2>3. freed[p] \in {0, 1} /\ (freed[p] = 0 <=> Owned(p))
    BY DEF OwnInv, FreedOnce
  <2>4. CASE Owned(p)
    <3>1. PICK h : Hand(h, p)
      BY <2>1, <2>4
    <3>2. Hands(p) = {h}
      BY <2>2, <3>1, OneHand DEF BaseInv
    <3> QED
      BY <2>3, <2>4, <3>2, FS_Singleton
  <2>5. CASE ~Owned(p)
    <3>1. Hands(p) = {}
      BY <2>1, <2>2, <2>5
    <3> QED
      BY <2>3, <2>5, <3>1, FS_EmptySet
  <2> QED
    BY <2>4, <2>5
<1> QED
  BY <1>1, <1>2, <1>3, SocketBase, PTL DEF Spec

-----------------------------------------------------------------------------
(* Assertions.                                                             *)

(* Sets that map one to one have as many elements.                         *)
LEMMA SameCount ==
  ASSUME NEW S, NEW T, NEW f \in [S -> T], IsFiniteSet(S),
         \A x, y \in S : f[x] = f[y] => x = y, \A t \in T : \E x \in S : f[x] = t
  PROVE  IsFiniteSet(T) /\ Cardinality(T) = Cardinality(S)
<1>1. f \in Injection(S, T)
  BY DEF Injection, IsInjective
<1>2. f \in Surjection(S, T)
  BY DEF Surjection
<1>3. ExistsBijection(S, T)
  BY <1>1, <1>2 DEF ExistsBijection, Bijection
<1> QED
  BY <1>3, FS_Bijection

LEMMA ApartCount ==
  ASSUME NEW S, NEW T, IsFiniteSet(S), IsFiniteSet(T), S \cap T = {}
  PROVE  IsFiniteSet(S \cup T) /\ Cardinality(S \cup T) = Cardinality(S) + Cardinality(T)
<1>1. IsFiniteSet(S \cup T) /\ Cardinality(S \cup T) = Cardinality(S) + Cardinality(T) - Cardinality(S \cap T)
  BY FS_Union
<1>2. Cardinality(S \cap T) = 0 /\ Cardinality(S) \in Nat /\ Cardinality(T) \in Nat
  BY FS_EmptySet, FS_CardinalityType
<1> QED
  BY <1>1, <1>2

LEMMA LoadNone == Units(<<>>) = {} /\ Load(<<>>) = 0
<1>1. Len(<<>>) = 0
  OBVIOUS
<1>2. Units(<<>>) = {}
  BY <1>1 DEF Units
<1> QED
  BY <1>2, FS_EmptySet DEF Load

(* A list with one more buffer at its end, and one at its front.           *)
LEMMA LoadLast ==
  ASSUME NEW list \in Seq(Buffers), NEW b \in Buffers
  PROVE  Load(Append(list, b)) = Load(list) + Load(<<b>>)
<1> DEFINE N == Len(list)
           one == Units(<<b>>)
           last == {<<N + 1, n>> : n \in {n \in 1 .. 2 : n <= Left(b)}}
           f == [u \in one |-> <<N + 1, u[2]>>]
<1>1. N \in Nat /\ Append(list, b) \in Seq(Buffers) /\ <<b>> \in Seq(Buffers) /\ Len(Append(list, b)) = N + 1
      /\ Len(<<b>>) = 1 /\ <<b>>[1] = b
      /\ Append(list, b)[N + 1] = b /\ \A k \in 1 .. N : Append(list, b)[k] = list[k]
  OBVIOUS
<1>2. one = {<<1, n>> : n \in {n \in 1 .. 2 : n <= Left(b)}}
  BY <1>1 DEF Units
<1>3. Units(Append(list, b)) = Units(list) \cup last
  <2>1. Units(Append(list, b)) \subseteq Units(list) \cup last
    <3> SUFFICES ASSUME NEW k \in 1 .. N + 1, NEW n \in 1 .. 2, n <= Left(Append(list, b)[k])
                 PROVE  <<k, n>> \in Units(list) \cup last
      BY <1>1 DEF Units
    <3>1. CASE k = N + 1
      BY <1>1, <3>1
    <3>2. CASE k \in 1 .. N
      BY <1>1, <3>2 DEF Units
    <3> QED
      BY <1>1, <3>1, <3>2
  <2>2. Units(list) \subseteq Units(Append(list, b))
    BY <1>1 DEF Units
  <2>3. last \subseteq Units(Append(list, b))
    BY <1>1 DEF Units
  <2> QED
    BY <2>1, <2>2, <2>3
<1>4. IsFiniteSet(Units(list)) /\ IsFiniteSet(one)
  BY <1>1, LoadIsNat
<1>5. IsFiniteSet(last) /\ Cardinality(last) = Cardinality(one)
  <2>1. f \in [one -> last]
    BY <1>2
  <2>2. \A x, y \in one : f[x] = f[y] => x = y
    BY <1>2
  <2>3. \A t \in last : \E x \in one : f[x] = t
    <3> TAKE t \in last
    <3>1. PICK n \in 1 .. 2 : n <= Left(b) /\ t = <<N + 1, n>>
      OBVIOUS
    <3>2. <<1, n>> \in one /\ f[<<1, n>>] = t
      BY <1>2, <3>1
    <3> QED
      BY <3>2
  <2> HIDE DEF f, one, last
  <2> QED
    BY <1>4, <2>1, <2>2, <2>3, SameCount
<1>6. Units(list) \cap last = {}
  <2>1. \A u \in Units(list) : u[1] \in 1 .. N
    BY DEF Units
  <2>2. \A u \in last : u[1] = N + 1
    OBVIOUS
  <2> QED
    BY <1>1, <2>1, <2>2
<1> HIDE DEF one, last
<1>7. Cardinality(Units(Append(list, b))) = Cardinality(Units(list)) + Cardinality(one)
  BY <1>3, <1>4, <1>5, <1>6, ApartCount
<1> QED
  BY <1>7 DEF Load, one

LEMMA LoadFirst ==
  ASSUME NEW list \in Seq(Buffers), NEW b \in Buffers
  PROVE  Load(<<b>> \o list) = Load(<<b>>) + Load(list)
<1> DEFINE N == Len(list)
           one == Units(<<b>>)
           all == Units(list)
           rest == {<<u[1] + 1, u[2]>> : u \in all}
           f == [u \in all |-> <<u[1] + 1, u[2]>>]
<1>1. N \in Nat /\ <<b>> \o list \in Seq(Buffers) /\ <<b>> \in Seq(Buffers) /\ Len(<<b>> \o list) = N + 1
      /\ Len(<<b>>) = 1 /\ <<b>>[1] = b
      /\ (<<b>> \o list)[1] = b /\ \A k \in 1 .. N : (<<b>> \o list)[k + 1] = list[k]
  OBVIOUS
<1>2. one = {<<1, n>> : n \in {n \in 1 .. 2 : n <= Left(b)}}
  BY <1>1 DEF Units
<1>3. \A u \in all : u \in (1 .. N) \X (1 .. 2) /\ u = <<u[1], u[2]>> /\ u[1] \in 1 .. N
  BY DEF Units
<1>4. Units(<<b>> \o list) = one \cup rest
  <2>1. Units(<<b>> \o list) \subseteq one \cup rest
    <3> DEFINE L == <<b>> \o list
    <3>1. ASSUME NEW k \in 1 .. N + 1, NEW n \in 1 .. 2, n <= Left(L[k]), k # 1
          PROVE  <<k, n>> \in rest
      <4>1. k - 1 \in 1 .. N /\ (k - 1) + 1 = k
        BY <1>1, <3>1
      <4>2. L[k] = list[k - 1]
        BY <1>1, <4>1
      <4>3. <<k - 1, n>> \in (1 .. N) \X (1 .. 2) /\ n <= Left(list[k - 1])
        BY <3>1, <4>1, <4>2
      <4>4. <<k - 1, n>> \in all
        BY <4>3 DEF Units
      <4>5. <<<<k - 1, n>>[1] + 1, <<k - 1, n>>[2]>> = <<k, n>>
        BY <4>1
      <4> QED
        BY <4>4, <4>5
    <3>2. ASSUME NEW n \in 1 .. 2, n <= Left(L[1])
          PROVE  <<1, n>> \in one
      BY <1>1, <1>2, <3>2
    <3>3. Len(L) = N + 1
      BY <1>1
    <3> HIDE DEF L, one, rest
    <3>4. \A u \in Units(L) : \E k \in 1 .. N + 1, n \in 1 .. 2 : u = <<k, n>> /\ n <= Left(L[k])
      BY <3>3 DEF Units
    <3>5. Units(L) \subseteq one \cup rest
      <4> SUFFICES ASSUME NEW u \in Units(L) PROVE u \in one \cup rest
        OBVIOUS
      <4>1. PICK k \in 1 .. N + 1, n \in 1 .. 2 : u = <<k, n>> /\ n <= Left(L[k])
        BY <3>4
      <4>2. CASE k = 1
        BY <3>2, <4>1, <4>2
      <4>3. CASE k # 1
        BY <3>1, <4>1, <4>3
      <4> QED
        BY <4>2, <4>3
    <3> QED
      BY <3>5 DEF L
  <2>2. one \subseteq Units(<<b>> \o list)
    BY <1>1, <1>2 DEF Units
  <2>3. rest \subseteq Units(<<b>> \o list)
    <3> SUFFICES ASSUME NEW u \in all PROVE <<u[1] + 1, u[2]>> \in Units(<<b>> \o list)
      OBVIOUS
    <3>1. u[1] \in 1 .. N /\ u[2] \in 1 .. 2 /\ u[2] <= Left(list[u[1]])
      BY DEF Units
    <3>2. u[1] + 1 \in 1 .. N + 1 /\ (<<b>> \o list)[u[1] + 1] = list[u[1]]
      BY <1>1, <3>1
    <3> QED
      BY <1>1, <3>1, <3>2 DEF Units
  <2> QED
    BY <2>1, <2>2, <2>3
<1>5. IsFiniteSet(all) /\ IsFiniteSet(one)
  BY <1>1, LoadIsNat
<1>6. IsFiniteSet(rest) /\ Cardinality(rest) = Cardinality(all)
  <2>1. f \in [all -> rest]
    OBVIOUS
  <2>2. \A x, y \in all : f[x] = f[y] => x = y
    <3> SUFFICES ASSUME NEW x \in all, NEW y \in all, f[x] = f[y] PROVE x = y
      OBVIOUS
    <3>1. <<x[1] + 1, x[2]>> = <<y[1] + 1, y[2]>>
      OBVIOUS
    <3>2. x[1] \in Int /\ y[1] \in Int
      BY <1>1, <1>3
    <3>3. x[1] = y[1] /\ x[2] = y[2]
      BY <3>1, <3>2
    <3> QED
      BY <1>3, <3>3
  <2>3. \A t \in rest : \E x \in all : f[x] = t
    OBVIOUS
  <2> HIDE DEF f, rest, all
  <2> QED
    BY <1>5, <2>1, <2>2, <2>3, SameCount
<1>7. one \cap rest = {}
  <2>1. \A u \in one : u[1] = 1
    BY <1>2
  <2>2. \A u \in rest : u[1] # 1
    <3> SUFFICES ASSUME NEW u \in all PROVE u[1] + 1 # 1
      OBVIOUS
    <3> QED
      BY <1>1, <1>3
  <2> QED
    BY <2>1, <2>2
<1> HIDE DEF one, rest, all
<1>8. Cardinality(Units(<<b>> \o list)) = Cardinality(one) + Cardinality(all)
  BY <1>4, <1>5, <1>6, <1>7, ApartCount
<1> QED
  BY <1>8 DEF Load, one, all

LEMMA LoadOne ==
  ASSUME NEW b \in Buffers, Left(b) \in 0 .. 2
  PROVE  Load(<<b>>) = Left(b)
<1>1. Units(<<b>>) = {<<1, n>> : n \in {n \in 1 .. 2 : n <= Left(b)}}
  BY DEF Units
<1>2. CASE Left(b) = 0
  <2>1. Units(<<b>>) = {}
    BY <1>1, <1>2
  <2> QED
    BY <1>2, <2>1, FS_EmptySet DEF Load
<1>3. CASE Left(b) = 1
  <2>1. Units(<<b>>) = {<<1, 1>>}
    BY <1>1, <1>3
  <2> QED
    BY <1>3, <2>1, FS_Singleton DEF Load
<1>4. CASE Left(b) = 2
  <2>1. {n \in 1 .. 2 : n <= Left(b)} = {1, 2}
    BY <1>4
  <2>2. Units(<<b>>) = {<<1, 1>>} \cup {<<1, 2>>}
    BY <1>1, <2>1
  <2>3. \A x : IsFiniteSet({x}) /\ Cardinality({x}) = 1
    BY FS_Singleton
  <2>4. IsFiniteSet({<<1, 1>>}) /\ Cardinality({<<1, 1>>}) = 1 /\ IsFiniteSet({<<1, 2>>}) /\ Cardinality({<<1, 2>>}) = 1
    BY <2>3, Zenon
  <2>5. {<<1, 1>>} \cap {<<1, 2>>} = {}
    OBVIOUS
  <2>6. Cardinality({<<1, 1>>} \cup {<<1, 2>>}) = Cardinality({<<1, 1>>}) + Cardinality({<<1, 2>>})
    BY <2>4, <2>5, ApartCount, Zenon
  <2> QED
    BY <1>4, <2>2, <2>4, <2>6 DEF Load
<1> QED
  BY <1>2, <1>3, <1>4

(* The counter of a socket is what is left in its lists, no packet of the  *)
(* low list was begun, and the rest of a direct write is part of a packet. *)
Balanced(x) ==
  /\ x.wb = Load(x.high) + Load(x.low)
  /\ \A k \in DOMAIN x.low : x.low[k].off = 0
  /\ x.dw # None => Left(x.dw) \in 0 .. 2
LoadInv == \A i \in Slots : Alive(i) /\ ~Forced(i) => Balanced(slot[i])

(* A step of the socket thread that opens no socket.                       *)
ThreadLoad ==
  \A i \in Slots : Alive(i)' /\ ~Forced(i)' => Alive(i) /\ ~Forced(i) /\ (Balanced(slot[i]) => Balanced(slot'[i]))

(* The packets that were sent keep their sizes.                            *)
SameSizes == \A p \in DOMAIN sent : sent'[p].udp = sent[p].udp

LEMMA LeftSame ==
  ASSUME SameSizes
  PROVE  \A b : b.p \in DOMAIN sent => Left(b)' = Left(b)
BY DEF SameSizes, Left, Size

LEMMA LoadSame ==
  ASSUME SameSizes, NEW list \in Seq(Buffers), Packets(list) \subseteq DOMAIN sent
  PROVE  Load(list)' = Load(list)
<1>1. \A k \in 1 .. Len(list) : Left(list[k])' = Left(list[k])
  BY LeftSame DEF Packets
<1>2. Units(list)' = Units(list)
  BY <1>1 DEF Units
<1> QED
  BY <1>2 DEF Load

LEMMA BalancedSame ==
  ASSUME SameSizes, NEW x \in Sockets, InSocket(x) \subseteq DOMAIN sent, Balanced(x)
  PROVE  Balanced(x)'
<1>1. x.high \in Seq(Buffers) /\ x.low \in Seq(Buffers)
  BY DEF Sockets
<1>2. Packets(x.high) \subseteq DOMAIN sent /\ Packets(x.low) \subseteq DOMAIN sent /\ (x.dw # None => x.dw.p \in DOMAIN sent)
  BY DEF InSocket, Direct
<1>3. Load(x.high)' = Load(x.high) /\ Load(x.low)' = Load(x.low)
  BY <1>1, <1>2, LoadSame
<1>4. x.dw # None => Left(x.dw)' = Left(x.dw)
  BY <1>2, LeftSame
<1> QED
  BY <1>3, <1>4 DEF Balanced

LEMMA BalancedStill == ASSUME sent' = sent PROVE \A x : Balanced(x)' <=> Balanced(x)
BY DEF Balanced, Load, Units, Left, Size

LEMMA LoadThread ==
  ASSUME TypeOK, LoadInv, UNCHANGED <<scene, sent>>, ThreadLoad
  PROVE  LoadInv'
<1>1. Slots' = Slots
  BY SameScene
<1>2. \A x : Balanced(x)' <=> Balanced(x)
  BY BalancedStill
<1> QED
  BY <1>1, <1>2 DEF LoadInv, ThreadLoad

(* The rest of a socket with the same lists and counter.                   *)
SameLoad(x, y) == y.high = x.high /\ y.low = x.low /\ y.wb = x.wb /\ (y.dw = x.dw \/ y.dw = None)
LEMMA SameBalanced ==
  \A x, y : SameLoad(x, y) /\ Balanced(x) => Balanced(y)
BY DEF SameLoad, Balanced

(* The thread is not in force_close and goes on elsewhere, or begins it.   *)
LEMMA LoadSet ==
  ASSUME TypeOK, th.pc # "force", NEW i \in Slots, Alive(i),
         slot' = slot \/ \E y : slot' = [slot EXCEPT ![i] = y] /\ (y.type = "INVALID" \/ Forced(i)' \/ (Balanced(slot[i]) => Balanced(y)))
  PROVE  ThreadLoad
<1>1. \A j : ~Forced(j)
  BY DEF Forced
<1>2. CASE slot' = slot
  BY <1>1, <1>2 DEF ThreadLoad, Alive
<1>3. ASSUME NEW y, slot' = [slot EXCEPT ![i] = y], y.type = "INVALID" \/ Forced(i)' \/ (Balanced(slot[i]) => Balanced(y))
      PROVE  ThreadLoad
  <2>1. slot'[i] = y /\ \A j \in Slots : j # i => slot'[j] = slot[j]
    BY <1>3 DEF TypeOK
  <2> QED
    BY <1>1, <1>3, <2>1 DEF ThreadLoad, Alive
<1> QED
  BY <1>2, <1>3
LEMMA LoadKeep ==
  ASSUME slot' = slot, th.pc # "force"
  PROVE  ThreadLoad
BY DEF ThreadLoad, Alive, Forced

LEMMA BeginForceLoad ==
  ASSUME TypeOK, th.pc # "force", NEW i \in Slots, Alive(i), NEW msg, NEW ctl, BeginForceClose(i, msg, ctl)
  PROVE  ThreadLoad /\ \A j \in Slots : slot'[j].sending = slot[j].sending
<1>1. PICK y : slot' = [slot EXCEPT ![i] = y] /\ y = [slot[i] EXCEPT !.high = <<>>, !.low = <<>>]
  BY DEF BeginForceClose, SetSlot
<1>2. th' = [pc |-> "force", slot |-> i, id |-> 0, msg |-> msg, ctrl |-> ctl]
  BY DEF BeginForceClose
<1>3. Forced(i)'
  BY <1>2 DEF Forced
<1>4. ThreadLoad
  BY <1>1, <1>3, LoadSet
<1>5. y.sending = slot[i].sending
  BY <1>1 DEF TypeOK, Sockets
<1> QED
  BY <1>1, <1>4, <1>5 DEF TypeOK

(* No count of requests being sent changes.                                *)
SendingKept == \A j \in Slots : slot'[j].sending = slot[j].sending

(* One live slot changes in neither.                                       *)
LEMMA LoadOther ==
  ASSUME TypeOK, th.pc # "force",
         \/ slot' = slot
         \/ \E i \in Slots : \E y : Alive(i) /\ slot' = [slot EXCEPT ![i] = y] /\ SameLoad(slot[i], y) /\ y.sending = slot[i].sending
  PROVE  ThreadLoad /\ SendingKept
<1>1. CASE slot' = slot
  BY <1>1, LoadKeep DEF SendingKept
<1>2. ASSUME NEW i \in Slots, NEW y, Alive(i), slot' = [slot EXCEPT ![i] = y], SameLoad(slot[i], y), y.sending = slot[i].sending
      PROVE  ThreadLoad /\ SendingKept
  <2>1. ThreadLoad
    BY <1>2, SameBalanced, LoadSet
  <2> QED
    BY <1>2, <2>1 DEF SendingKept, TypeOK
<1> QED
  BY <1>1, <1>2

LEMMA CloseSocketLoad ==
  ASSUME BaseInv, CloseSocket
  PROVE  ThreadLoad /\ SendingKept
<1> USE DEF BaseInv
<1>1. pipe # <<>> /\ Req.cmd \in {"K", "X"} /\ th.pc = "poll"
  BY DEF CloseSocket, Ctrl
<1>2. CASE slot' = slot
  BY <1>1, <1>2, LoadOther
<1>3. ASSUME ~Invalid(X, Req.id)
      PROVE  Alive(H(Req.id)) /\ H(Req.id) \in Slots /\ X \in Sockets /\ X = slot[H(Req.id)]
  BY <1>1, <1>3, LiveRequest DEF X, Opening
<1>4. ASSUME NEW msg, ~Invalid(X, Req.id), BeginForceClose(H(Req.id), msg, TRUE)
      PROVE  ThreadLoad /\ SendingKept
  BY <1>1, <1>3, <1>4, BeginForceLoad DEF SendingKept
<1>5. CASE /\ ~Invalid(X, Req.id)
           /\ SetSlot(H(Req.id), IF X.type = "HALFCLOSE_READ" THEN [X EXCEPT !.closing = TRUE]
                                 ELSE [CloseRead(X) EXCEPT !.closing = TRUE])
  <2>1. PICK y : slot' = [slot EXCEPT ![H(Req.id)] = y] /\ y = IF X.type = "HALFCLOSE_READ" THEN [X EXCEPT !.closing = TRUE]
                                   ELSE [CloseRead(X) EXCEPT !.closing = TRUE]
    BY <1>5 DEF SetSlot
  <2>2. y.high = X.high /\ y.low = X.low /\ y.wb = X.wb /\ y.dw = X.dw /\ y.sending = X.sending
    BY <1>3, <1>5, <2>1 DEF Sockets, CloseRead
  <2> QED
    BY <1>1, <1>3, <1>5, <2>1, <2>2, LoadOther DEF SameLoad
<1> QED
  BY <1>2, <1>4, <1>5, Zenon DEF CloseSocket

LEMMA ResumeLoad ==
  ASSUME BaseInv, Resume
  PROVE  ThreadLoad /\ SendingKept
<1> USE DEF BaseInv
<1> DEFINE read == [X EXCEPT !.reading = TRUE]
           y == [X EXCEPT !.reading = TRUE, !.type = CASE @ = "PACCEPT" -> "CONNECTED"
                                                       [] @ = "PLISTEN" -> "LISTEN"
                                                       [] OTHER -> @]
<1>1. /\ pipe # <<>> /\ Req.cmd = "R" /\ th.pc = "poll"
      /\ \/ slot' = slot
         \/ /\ ~Invalid(X, Req.id)
            /\ SetSlot(H(Req.id), read) \/ SetSlot(H(Req.id), y)
  BY DEF Resume, Ctrl
<1>2. ASSUME ~Invalid(X, Req.id)
      PROVE  Alive(H(Req.id)) /\ H(Req.id) \in Slots /\ X \in Sockets /\ X = slot[H(Req.id)]
  BY <1>1, <1>2, LiveRequest DEF X, Opening
<1>3. ASSUME X \in Sockets
      PROVE  \A z \in {read, y} : z.high = X.high /\ z.low = X.low /\ z.wb = X.wb /\ z.dw = X.dw /\ z.sending = X.sending
  BY <1>3 DEF Sockets
<1> HIDE DEF read, y
<1>4. CASE slot' = slot
  BY <1>1, <1>4, LoadOther
<1>5. CASE ~Invalid(X, Req.id) /\ (SetSlot(H(Req.id), read) \/ SetSlot(H(Req.id), y))
  <2>1. PICK z \in {read, y} : slot' = [slot EXCEPT ![H(Req.id)] = z]
    BY <1>5 DEF SetSlot
  <2> QED
    BY <1>1, <1>2, <1>3, <1>5, <2>1, LoadOther DEF SameLoad
<1> QED
  BY <1>1, <1>4, <1>5

LEMMA AdjustLoad ==
  ASSUME BaseInv, Pause \/ TriggerWrite \/ SetUdpAddress
  PROVE  ThreadLoad /\ SendingKept
<1> USE DEF BaseInv
<1>1. PICK y :
        /\ pipe # <<>> /\ Req.cmd \in {"S", "W", "C"} /\ th.pc = "poll"
        /\ IF Invalid(X, Req.id) THEN UNCHANGED slot ELSE SetSlot(H(Req.id), y)
        /\ y \in {X, [X EXCEPT !.reading = FALSE], [X EXCEPT !.writing = TRUE], [X EXCEPT !.address = Req.n, !.udpconnecting = @ - 1]}
  BY DEF Pause, TriggerWrite, SetUdpAddress, Adjust, Ctrl
<1>2. CASE Invalid(X, Req.id)
  BY <1>1, <1>2, LoadOther
<1>3. CASE ~Invalid(X, Req.id)
  <2>1. Alive(H(Req.id)) /\ H(Req.id) \in Slots /\ X \in Sockets /\ X = slot[H(Req.id)]
    BY <1>1, <1>3, LiveRequest DEF X, Opening
  <2>2. y.dw = X.dw /\ y.wb = X.wb /\ y.high = X.high /\ y.low = X.low /\ y.sending = X.sending
    BY <1>1, <2>1 DEF Sockets
  <2> QED
    BY <1>1, <1>3, <2>1, <2>2, LoadOther DEF SetSlot, SameLoad
<1> QED
  BY <1>2, <1>3

LEMMA EventLoad ==
  ASSUME BaseInv, ReportConnect \/ ReadTcp \/ ReadUdp \/ ErrorEvent
  PROVE  ThreadLoad /\ SendingKept
<1> USE DEF BaseInv
<1> DEFINE y == [Y EXCEPT !.type = "CONNECTED", !.writing = @ /\ ~NoMoreSendingData(Y)]
<1>1. Event(Plain) \/ Event({"CONNECTING"})
  BY DEF ReportConnect, ReadTcp, ReadUdp, ErrorEvent
<1>2. Alive(E0.slot) /\ E0.slot \in Slots /\ Y \in Sockets /\ Y = slot[E0.slot]
  BY <1>1, LiveEvent DEF Plain
<1>3. th.pc # "force"
  BY <1>1 DEF Event
<1>4. \/ slot' = slot
      \/ \E msg : BeginForceClose(E0.slot, msg, FALSE)
      \/ SetSlot(E0.slot, CloseRead(Y)) \/ SetSlot(E0.slot, y)
  BY Zenon DEF ReportConnect, ReadTcp, ReadUdp, ErrorEvent
<1>5. CASE slot' = slot
  BY <1>3, <1>5, LoadOther
<1>6. CASE \E msg : BeginForceClose(E0.slot, msg, FALSE)
  BY <1>2, <1>3, <1>6, BeginForceLoad DEF SendingKept
<1>7. CASE SetSlot(E0.slot, CloseRead(Y)) \/ SetSlot(E0.slot, y)
  <2>1. PICK z \in {CloseRead(Y), y} : slot' = [slot EXCEPT ![E0.slot] = z]
    BY <1>7 DEF SetSlot
  <2>2. \A u \in {CloseRead(Y), y} : u.high = Y.high /\ u.low = Y.low /\ u.wb = Y.wb /\ u.dw = Y.dw /\ u.sending = Y.sending
    BY <1>2 DEF Sockets, CloseRead
  <2> QED
    BY <1>2, <1>3, <2>1, <2>2, LoadOther DEF SameLoad
<1> QED
  BY <1>4, <1>5, <1>6, <1>7

LEMMA ReservedEventLoad ==
  ASSUME BaseInv, ReservedEvent
  PROVE  ThreadLoad /\ SendingKept
<1>1. PICK y : /\ E0.slot \in Slots /\ ~Alive(E0.slot) /\ th.pc # "force"
               /\ slot' = [slot EXCEPT ![E0.slot] = y]
               /\ y.type = slot[E0.slot].type /\ y.sending = slot[E0.slot].sending
  BY ReservedEventSlot DEF BaseInv
<1>2. slot'[E0.slot] = y /\ \A j \in Slots : j # E0.slot => slot'[j] = slot[j]
  BY <1>1 DEF BaseInv, TypeOK
<1> QED
  BY <1>1, <1>2 DEF ThreadLoad, SendingKept, Alive, Forced

(* force_close ends, or a request was sent.                                *)
LEMMA ForceCloseLoad ==
  ASSUME BaseInv, ForceClose
  PROVE  ThreadLoad /\ SendingKept
<1>1. /\ th.pc = "force" /\ th.slot \in Slots /\ slot[th.slot] \in Sockets
      /\ slot' = [slot EXCEPT ![th.slot] = [slot[th.slot] EXCEPT !.type = "INVALID", !.dw = None]]
  BY DEF ForceClose, SetSlot, BaseInv, TypeOK
<1>2. PICK y : y = [slot[th.slot] EXCEPT !.type = "INVALID", !.dw = None]
  OBVIOUS
<1>3. y.type = "INVALID" /\ y.sending = slot[th.slot].sending
  BY <1>1, <1>2 DEF Sockets
<1>4. slot'[th.slot] = y /\ \A j \in Slots : j # th.slot => slot'[j] = slot[j]
  BY <1>1, <1>2 DEF BaseInv, TypeOK
<1> QED
  BY <1>3, <1>4 DEF ThreadLoad, SendingKept, Alive, Forced

LEMMA DecSendingLoad ==
  ASSUME BaseInv, DecSending
  PROVE  ThreadLoad
<1>1. /\ th.pc = "dec" /\ th.slot \in Slots /\ slot[th.slot] \in Sockets
  BY DEF DecSending, BaseInv, TypeOK
<1>2. CASE slot' = slot
  BY <1>1, <1>2, LoadKeep
<1>3. CASE slot' = [slot EXCEPT ![th.slot].sending = @ - 1]
  <2>1. PICK y : y = [slot[th.slot] EXCEPT !.sending = @ - 1] /\ slot' = [slot EXCEPT ![th.slot] = y]
    BY <1>3
  <2>2. y.type = slot[th.slot].type /\ SameLoad(slot[th.slot], y)
    BY <1>1, <2>1 DEF Sockets, SameLoad
  <2>3. slot'[th.slot] = y /\ \A j \in Slots : j # th.slot => slot'[j] = slot[j]
    BY <1>1, <2>1 DEF BaseInv, TypeOK
  <2> QED
    BY <1>1, <2>2, <2>3, SameBalanced DEF ThreadLoad, Alive, Forced
<1> QED
  BY <1>2, <1>3 DEF DecSending

(* send_socket adds a whole packet to the end of a list.                   *)
LEMMA SendSocketLoad ==
  ASSUME BaseInv, SendSocket
  PROVE  ThreadLoad /\ SendingKept
<1> USE DEF BaseInv
<1>1. pipe # <<>> /\ Req.cmd \in Data /\ th.pc = "poll"
  BY SendSocketSlot
<1>2. CASE UNCHANGED slot
  BY <1>1, <1>2, LoadOther
<1>3. ASSUME NEW b \in Buffers, NEW toLow \in BOOLEAN, b.off = 0, ~Refused(X, Req.id),
             slot' = [slot EXCEPT ![H(Req.id)] = Appended(X, b, toLow)]
      PROVE  ThreadLoad /\ SendingKept
  <2>1. Alive(H(Req.id)) /\ H(Req.id) \in Slots /\ X \in Sockets /\ X = slot[H(Req.id)]
    BY <1>1, <1>3, LiveRequest DEF X, Opening, Refused, Data
  <2>2. PICK y : y = Appended(X, b, toLow)
    OBVIOUS
  <2>3. /\ y.dw = X.dw /\ y.sending = X.sending /\ y.wb = X.wb + Left(b)
        /\ y.high = IF toLow THEN X.high ELSE Append(X.high, b)
        /\ y.low = IF toLow THEN Append(X.low, b) ELSE X.low
    BY <2>1, <2>2, AppendedFields
  <2>4. X.high \in Seq(Buffers) /\ X.low \in Seq(Buffers) /\ X.wb \in Int
    BY <2>1 DEF Sockets
  <2>5. Left(b) \in 0 .. 2
    BY <1>3, Sizes DEF Left
  <2>6. Load(<<b>>) = Left(b)
    BY <2>5, LoadOne
  <2>7. /\ Load(X.high) \in Nat /\ Load(X.low) \in Nat
        /\ Load(Append(X.high, b)) = Load(X.high) + Left(b) /\ Load(Append(X.low, b)) = Load(X.low) + Left(b)
    BY <2>4, <2>6, LoadIsNat, LoadLast
  <2>8. ASSUME Balanced(X) PROVE Balanced(y)
    <3>1. y.wb = Load(y.high) + Load(y.low)
      <4>1. X.wb = Load(X.high) + Load(X.low)
        BY <2>8 DEF Balanced
      <4>2. CASE toLow
        BY <2>3, <2>5, <2>7, <4>1, <4>2
      <4>3. CASE ~toLow
        BY <2>3, <2>5, <2>7, <4>1, <4>3
      <4> QED
        BY <4>2, <4>3
    <3>2. \A k \in DOMAIN y.low : y.low[k].off = 0
      <4>1. \A k \in DOMAIN X.low : X.low[k].off = 0
        BY <2>8 DEF Balanced
      <4>2. \A k \in DOMAIN Append(X.low, b) : Append(X.low, b)[k] = b \/ (k \in DOMAIN X.low /\ Append(X.low, b)[k] = X.low[k])
        BY <2>4
      <4> QED
        BY <1>3, <2>3, <4>1, <4>2
    <3> QED
      BY <2>3, <2>8, <3>1, <3>2 DEF Balanced
  <2>9. ThreadLoad
    BY <1>1, <1>3, <2>1, <2>2, <2>8, LoadSet
  <2> QED
    BY <1>3, <2>1, <2>2, <2>3, <2>9 DEF SendingKept, TypeOK
<1> QED
  BY <1>2, <1>3, SendSocketSlot

(* The rest of a direct write at the front of a list counts as it did.      *)
LEMMA WithDirectBalanced ==
  ASSUME NEW z \in Sockets, NEW a \in Nat, Balanced(z)
  PROVE  Balanced(WithDirect(z, a))
<1>1. PICK x \in Sockets : x = WithDirect(z, a)
  BY WithDirectType
<1>2. /\ x.dw = None /\ x.low = z.low
      /\ x.high = IF z.dw = None THEN z.high ELSE <<[z.dw EXCEPT !.to = a]>> \o z.high
      /\ x.wb = IF z.dw = None THEN z.wb ELSE z.wb + Left(z.dw)
  BY <1>1, WithDirectType
<1>3. z.high \in Seq(Buffers) /\ z.low \in Seq(Buffers) /\ z.dw \in Buffers \cup {None}
  BY DEF Sockets
<1>4. Load(z.high) \in Nat /\ Load(z.low) \in Nat
  BY <1>3, LoadIsNat
<1>5. x.wb = Load(x.high) + Load(x.low)
  <2>1. z.wb = Load(z.high) + Load(z.low)
    BY DEF Balanced
  <2>2. CASE z.dw = None
    BY <1>2, <2>1, <2>2
  <2>3. CASE z.dw # None
    <3>1. PICK b : b = [z.dw EXCEPT !.to = a]
      OBVIOUS
    <3>2. z.dw \in Buffers
      BY <1>3, <2>3
    <3>3. b \in Buffers /\ b.p = z.dw.p /\ b.off = z.dw.off
      BY <3>1, <3>2 DEF Buffers
    <3>4. Left(b) = Left(z.dw) /\ Left(b) \in 0 .. 2
      BY <2>3, <3>3 DEF Balanced, Left
    <3>5. Load(<<b>>) = Left(b)
      BY <3>3, <3>4, LoadOne
    <3>6. Load(x.high) = Left(b) + Load(z.high)
      BY <1>2, <1>3, <2>3, <3>1, <3>3, <3>5, LoadFirst
    <3> QED
      BY <1>2, <1>4, <2>1, <2>3, <3>4, <3>6
  <2> QED
    BY <2>2, <2>3
<1> QED
  BY <1>1, <1>2, <1>5 DEF Balanced

LEMMA RestOffsets ==
  ASSUME NEW list \in Seq(Buffers), NEW r, Fits(r, list), \A k \in DOMAIN list : list[k].off = 0
  PROVE  /\ \A j \in DOMAIN Rest(list, r) : j # 1 => Rest(list, r)[j].off = 0
         /\ r.n = 0 => \A j \in DOMAIN Rest(list, r) : Rest(list, r)[j].off = 0
<1> DEFINE new == Rest(list, r)
           d == r.m + r.drop
<1>1. /\ DOMAIN list = 1 .. Len(list) /\ Len(list) \in Nat /\ d \in Nat /\ d <= Len(list)
      /\ DOMAIN new = 1 .. Len(list) - r.m - r.drop
  BY DEF Rest, Fits
<1>2. ASSUME NEW j \in DOMAIN new
      PROVE  (j # 1 => new[j].off = 0) /\ (r.n = 0 => new[j].off = 0)
  <2>1. j \in Int /\ d + j \in DOMAIN list
    BY <1>1 DEF Fits
  <2>2. new[j] = LET b == list[d + j] IN IF j = 1 THEN [b EXCEPT !.off = @ + r.n] ELSE b
    BY DEF Rest
  <2>3. list[d + j] \in Buffers /\ list[d + j].off = 0
    BY <2>1
  <2>4. j # 1 => new[j].off = 0
    BY <2>2, <2>3
  <2>5. j = 1 /\ r.n = 0 => new[j].off = 0
    BY <2>2, <2>3 DEF Buffers
  <2> QED
    BY <2>4, <2>5
<1> QED
  BY <1>2

(* What a write leaves is counted, and no packet of the low list is begun. *)
LEMMA SendsBalanced ==
  ASSUME NEW x \in Sockets, Balanced(x), x.dw = None, NEW h, NEW l, NEW r, Fits(h, x.high), Fits(l, x.low), Sends(x, h, l, r),
         (h.m + h.drop < Len(x.high) /\ l = Nothing) \/ h.m + h.drop >= Len(x.high)
  PROVE  Balanced(r)
<1> DEFINE high == Rest(x.high, h)
           low == Rest(x.low, l)
           raise == high = <<>> /\ Uncomplete(low)
<1>1. /\ r.dw = None /\ high \in Seq(Buffers) /\ low \in Seq(Buffers)
      /\ r.high = IF raise THEN <<Head(low)>> ELSE high
      /\ r.low = IF raise THEN Tail(low) ELSE low
      /\ r.wb = x.wb - ((Load(x.high) + Load(x.low)) - (Load(high) + Load(low)))
  BY DEF Sends
<1>2. x.high \in Seq(Buffers) /\ x.low \in Seq(Buffers)
  BY DEF Sockets
<1>3. /\ \A j \in DOMAIN low : j # 1 => low[j].off = 0
      /\ l.n = 0 => \A j \in DOMAIN low : low[j].off = 0
  BY <1>2, RestOffsets DEF Balanced
<1>4. Len(high) = Len(x.high) - h.m - h.drop
  BY <1>2, RestType
<1>5. h.m + h.drop < Len(x.high) => high # <<>>
  <2>1. h.m \in Nat /\ h.drop \in Nat /\ Len(x.high) \in Nat
    BY <1>2 DEF Fits
  <2>2. Len(<<>>) = 0
    OBVIOUS
  <2> HIDE DEF high
  <2> QED
    BY <1>4, <2>1, <2>2
<1>6. high = <<>> \/ l.n = 0
  <2>1. CASE l = Nothing
    BY <2>1 DEF Nothing
  <2>2. CASE h.m + h.drop >= Len(x.high)
    <3>1. h.m \in Nat /\ h.drop \in Nat /\ Len(x.high) \in Nat /\ h.m + h.drop <= Len(x.high)
      BY <1>2 DEF Fits
    <3> HIDE DEF high
    <3>2. Len(high) = 0
      BY <1>4, <2>2, <3>1
    <3> QED
      BY <1>1, <3>2, EmptySeq
  <2> QED
    BY <2>1, <2>2
<1>7. Load(x.high) \in Nat /\ Load(x.low) \in Nat /\ Load(high) \in Nat /\ Load(low) \in Nat
      /\ x.wb = Load(x.high) + Load(x.low)
  BY <1>1, <1>2, LoadIsNat DEF Balanced
<1> HIDE DEF high, low
<1>8. r.wb = Load(high) + Load(low)
  BY <1>1, <1>7
<1>9. CASE raise
  <2>1. low # <<>> /\ high = <<>>
    BY <1>9 DEF Uncomplete
  <2>2. PICK b, rest : b = Head(low) /\ rest = Tail(low)
    OBVIOUS
  <2>3. b \in Buffers /\ rest \in Seq(Buffers) /\ low = <<b>> \o rest
        /\ \A k \in DOMAIN rest : k + 1 \in DOMAIN low /\ k + 1 # 1 /\ rest[k] = low[k + 1]
    <3>1. b \in Buffers /\ rest \in Seq(Buffers) /\ Len(rest) = Len(low) - 1 /\ Len(low) \in Nat /\ Len(low) > 0
          /\ b = low[1] /\ \A k \in 1 .. Len(low) - 1 : rest[k] = low[k + 1]
      BY <1>1, <2>1, <2>2
    <3>2. low = <<b>> \o rest
      <4>1. <<b>> \o rest \in Seq(Buffers) /\ Len(<<b>> \o rest) = Len(rest) + 1
            /\ (<<b>> \o rest)[1] = b /\ \A k \in 1 .. Len(rest) : (<<b>> \o rest)[k + 1] = rest[k]
        BY <3>1
      <4>2. \A k \in 1 .. Len(low) : low[k] = (<<b>> \o rest)[k]
        <5> TAKE k \in 1 .. Len(low)
        <5>1. k = 1 \/ (k - 1 \in 1 .. Len(rest) /\ (k - 1) + 1 = k)
          BY <3>1
        <5> QED
          BY <3>1, <4>1, <5>1
      <4>3. Len(<<b>> \o rest) = Len(low)
        BY <3>1, <4>1
      <4>4. PICK both : both = <<b>> \o rest
        OBVIOUS
      <4> QED
        BY <1>1, <4>1, <4>2, <4>3, <4>4, SeqEqual
    <3>3. DOMAIN rest = 1 .. Len(rest) /\ DOMAIN low = 1 .. Len(low)
      BY <1>1, <3>1
    <3>4. \A k \in DOMAIN rest : k + 1 \in DOMAIN low /\ k + 1 # 1 /\ rest[k] = low[k + 1]
      BY <3>1, <3>3
    <3> QED
      BY <3>1, <3>2, <3>4
  <2>4. Load(low) = Load(<<b>>) + Load(rest)
    BY <2>3, LoadFirst
  <2>5. Load(high) = 0
    BY <2>1, LoadNone
  <2>6. \A k \in DOMAIN rest : rest[k].off = 0
    BY <1>3, <2>3
  <2>7. r.high = <<b>> /\ r.low = rest
    BY <1>1, <1>9, <2>2
  <2>8. <<b>> \in Seq(Buffers) /\ Load(rest) \in Nat
    BY <2>3, LoadIsNat
  <2>9. Load(<<b>>) \in Nat
    BY <2>8, LoadIsNat
  <2>10. r.wb = Load(r.high) + Load(r.low)
    BY <1>8, <2>4, <2>5, <2>7, <2>8, <2>9
  <2>11. \A k \in DOMAIN r.low : r.low[k].off = 0
    BY <2>6, <2>7
  <2> QED
    BY <1>1, <2>10, <2>11 DEF Balanced
<1>10. CASE ~raise
  <2>1. r.high = high /\ r.low = low
    BY <1>1, <1>10
  <2>2. \A k \in DOMAIN low : low[k].off = 0
    <3>1. CASE l.n = 0
      BY <1>3, <3>1
    <3>2. CASE high = <<>>
      <4>1. low = <<>> \/ low[1].off = 0
        BY <1>10, <3>2 DEF Uncomplete
      <4>2. low = <<>> => DOMAIN low = {}
        OBVIOUS
      <4> QED
        BY <1>3, <4>1, <4>2
    <3> QED
      BY <1>6, <3>1, <3>2
  <2> QED
    BY <1>1, <1>8, <2>1, <2>2 DEF Balanced
<1> QED
  BY <1>9, <1>10

LEMMA EmptyBalanced ==
  ASSUME NEW x, Balanced(x), BufferEmpty(x)
  PROVE  x.wb = 0
BY LoadNone DEF Balanced, BufferEmpty

LEMMA CompleteLow ==
  ASSUME NEW x \in Sockets, Balanced(x)
  PROVE  ~Uncomplete(x.low)
<1>1. x.low \in Seq(Buffers)
  BY DEF Sockets
<1>2. x.low # <<>> => 1 \in DOMAIN x.low
  BY <1>1
<1> QED
  BY <1>2 DEF Balanced, Uncomplete

(* send_buffer: what it leaves, and that its assertions hold.              *)
LEMMA SendBufferLoad ==
  ASSUME BaseInv, LoadInv, SendBuffer
  PROVE  ThreadLoad /\ SendingKept /\ failed' = failed
<1> USE DEF BaseInv
<1>1. Event(Plain) /\ "INVALID" \notin Plain /\ "RESERVE" \notin Plain
  BY DEF SendBuffer, Plain
<1>2. Alive(E0.slot) /\ E0.slot \in Slots /\ Y \in Sockets /\ Y = slot[E0.slot] /\ th.pc # "force"
  BY <1>1, LiveEvent DEF Event
<1>3. CASE UNCHANGED <<slot, failed>>
  BY <1>2, <1>3, LoadOther
<1>4. Balanced(Y)
  BY <1>2 DEF LoadInv, Forced
<1>5. ASSUME NEW a \in Nat, NEW x \in Sockets, NEW y \in Sockets, x = WithDirect(Y, a),
             ByError(x, y) \/ \E h, l, r : ByWrite(x, y, h, l, r)
      PROVE  ThreadLoad /\ SendingKept /\ failed' = failed
  <2>1. Kept(Y, x) /\ x.dw = None /\ Balanced(x)
    <3>1. \A z \in Sockets : Kept(z, WithDirect(z, a)) /\ WithDirect(z, a).dw = None
      BY WithDirectType
    <3> QED
      BY <1>2, <1>4, <1>5, <3>1, WithDirectBalanced
  <2>2. CASE ByError(x, y)
    <3>1. /\ slot' = [slot EXCEPT ![E0.slot] = y] /\ failed' = failed /\ Kept(x, y)
          /\ y.type = "INVALID" \/ SameLoad(x, y)
      BY <2>2 DEF ByError, AfterError, SameLoad
    <3>2. y.type = "INVALID" \/ Balanced(y)
      BY <2>1, <3>1, SameBalanced
    <3>3. y.sending = Y.sending
      BY <2>1, <3>1 DEF Kept
    <3>4. ThreadLoad
      BY <1>2, <3>1, <3>2, LoadSet
    <3> QED
      BY <1>2, <3>1, <3>3, <3>4 DEF SendingKept, TypeOK
  <2>3. ASSUME NEW h, NEW l, NEW r, ByWrite(x, y, h, l, r)
        PROVE  ThreadLoad /\ SendingKept /\ failed' = failed
    <3>1. /\ AfterWrite(x, h, l, r, y) /\ WriteSome(x, h, l) /\ Fits(h, x.high) /\ Fits(l, x.low)
          /\ (h.m + h.drop < Len(x.high) /\ l = Nothing) \/ h.m + h.drop >= Len(x.high)
      BY <2>3 DEF ByWrite
    <3>2. /\ slot' = [slot EXCEPT ![E0.slot] = y]
          /\ Kept(x, y) /\ SameLoad(r, y)
          /\ r = SentBy(x, h, l).x /\ Sends(x, h, l, r)
      <4>1. /\ slot' = [slot EXCEPT ![E0.slot] = y]
            /\ Kept(x, y) /\ y.dw = x.dw /\ y.high = r.high /\ y.low = r.low /\ y.wb = r.wb
            /\ r = SentBy(x, h, l).x /\ Sends(x, h, l, r)
        BY <3>1 DEF AfterWrite
      <4> QED
        BY <2>1, <4>1 DEF SameLoad
    <3>3. Balanced(r)
      BY <2>1, <3>1, <3>2, SendsBalanced
    <3>4. Balanced(y)
      BY <3>2, <3>3, SameBalanced
    <3>5. failed' = failed
      <4>1. failed' = failed \cup (IF Uncomplete(x.low) THEN {"send_buffer: low is complete"} ELSE {})
                             \cup (IF BufferEmpty(r) /\ r.wb # 0 THEN {"send_buffer: wb_size = 0"} ELSE {})
        BY <3>1, <3>2 DEF WriteSome
      <4>2. ~Uncomplete(x.low) /\ (BufferEmpty(r) => r.wb = 0)
        BY <2>1, <3>3, CompleteLow, EmptyBalanced
      <4> QED
        BY <4>1, <4>2
    <3>6. y.sending = Y.sending
      BY <2>1, <3>2 DEF Kept
    <3>7. ThreadLoad
      BY <1>2, <3>2, <3>4, LoadSet
    <3> QED
      BY <1>2, <3>2, <3>5, <3>6, <3>7 DEF SendingKept, TypeOK
  <2> QED
    BY <1>5, <2>2, <2>3
<1> QED
  BY <1>3, <1>5, SendBufferWays

(* Slots that are given to a new id, or set up: y is the socket of id.     *)
Fresh(id, y) ==
  /\ H(id) \in Slots /\ slot' = [slot EXCEPT ![H(id)] = y]
  /\ y.id = id /\ BufferEmpty(y) /\ y.dw = None
  /\ y.type \notin {"INVALID", "RESERVE"} => y.wb = 0
NewCount(id, y) == y.protocol = "tcp" => y.tag = Tag(id)

(* What waits for a socket that is set up for a request.                   *)
Readied(y) ==
  /\ y.udpconnecting = X.udpconnecting
  /\ y.type # "INVALID" => y.type # "RESERVE" /\ y.address = 0 /\ (y.protocol = "udp" <=> Req.cmd = "U")

LEMMA OpeningFresh ==
  ASSUME BaseInv, OpenSocket \/ ListenSocket \/ BindSocket \/ AddUdpSocket
  PROVE  /\ failed' = failed
         /\ \E y \in Sockets : /\ Fresh(Req.id, y) /\ Readied(y)
                               /\ \/ y.protocol = X.protocol /\ y.tag = X.tag /\ y.sending = X.sending
                                  \/ NewCount(Req.id, y) /\ (y.protocol = "udp" \/ Req.cmd # "U")
<1> USE DEF BaseInv
<1> DEFINE Done == /\ failed' = failed
                   /\ \E y \in Sockets : /\ Fresh(Req.id, y) /\ Readied(y)
                                         /\ \/ y.protocol = X.protocol /\ y.tag = X.tag /\ y.sending = X.sending
                                            \/ NewCount(Req.id, y) /\ (y.protocol = "udp" \/ Req.cmd # "U")
<1>1. ASSUME NEW cmd \in Opening, NEW protocol, protocol = (IF cmd = "U" THEN "udp" ELSE "tcp"),
             NEW reading \in BOOLEAN, NEW type \in {"INVALID", "CONNECTED", "CONNECTING", "PLISTEN", "BIND"}, NEW msg,
             SetUp(cmd, protocol, reading, type, msg)
      PROVE  Done
  <2>1. /\ pipe # <<>> /\ Req.cmd = cmd /\ CheckNewFd(X)
        /\ slot' = [slot EXCEPT ![H(Req.id)] = [NewFd(X, Req.id, protocol, reading) EXCEPT !.type = type, !.address = 0,
                                                                              !.writing = (type = "CONNECTING")]]
    BY <1>1 DEF SetUp, Ctrl, SetSlot
  <2>2. /\ Req.id \in Ids /\ Req.id \in Nat /\ H(Req.id) \in Slots /\ X \in Sockets /\ X.type = "RESERVE" /\ BufferEmpty(X)
        /\ Tag(Req.id) \in Nat /\ protocol \in {"tcp", "udp"}
    BY <1>1, <2>1, ReservedRequest, Hash DEF TypeOK
  <2>3. PICK z \in Sockets : z = NewFd(X, Req.id, protocol, reading)
    BY <2>2, NewFdType
  <2>4. /\ z.id = Req.id /\ z.protocol = protocol /\ z.tag = Tag(Req.id) /\ z.wb = 0 /\ z.dw = None
        /\ z.high = X.high /\ z.low = X.low /\ z.udpconnecting = X.udpconnecting
    BY <2>2, <2>3 DEF NewFd, Sockets
  <2>5. PICK y : y = [z EXCEPT !.type = type, !.address = 0, !.writing = (type = "CONNECTING")]
    OBVIOUS
  <2>6. type \in Types /\ 0 \in Nat /\ (type = "CONNECTING") \in BOOLEAN
    BY DEF Types
  <2>7. y \in Sockets
    BY <2>5, <2>6, Fields, Zenon
  <2>8. /\ y.id = z.id /\ y.protocol = z.protocol /\ y.tag = z.tag /\ y.wb = z.wb /\ y.dw = z.dw
        /\ y.high = z.high /\ y.low = z.low /\ y.udpconnecting = z.udpconnecting /\ y.address = 0 /\ y.type = type
    BY <2>5 DEF Sockets
  <2>9. slot' = [slot EXCEPT ![H(Req.id)] = y]
    BY <2>1, <2>3, <2>5
  <2>10. Fresh(Req.id, y) /\ NewCount(Req.id, y) /\ (y.protocol = "udp" \/ Req.cmd # "U")
    BY <1>1, <2>1, <2>2, <2>4, <2>8, <2>9 DEF Fresh, NewCount, BufferEmpty
  <2>11. failed' = failed
    BY <2>1, <2>2 DEF CheckNewFd, Check
  <2>12. Readied(y)
    BY <1>1, <2>1, <2>4, <2>8 DEF Readied
  <2> QED
    BY <2>7, <2>10, <2>11, <2>12
<1>2. ASSUME NEW cmd \in Opening, NoSocket(cmd)
      PROVE  Done
  <2>1. /\ pipe # <<>> /\ Req.cmd \in Opening /\ (CheckNewFd(X) \/ UNCHANGED failed)
        /\ slot' = [slot EXCEPT ![H(Req.id)] = [X EXCEPT !.type = "INVALID"]]
    BY <1>2 DEF NoSocket, Ctrl, SetSlot
  <2>2. /\ H(Req.id) \in Slots /\ X \in Sockets /\ X.type = "RESERVE" /\ X.id = Req.id /\ BufferEmpty(X) /\ X.dw = None
    BY <2>1, ReservedRequest
  <2>3. PICK y : y = [X EXCEPT !.type = "INVALID"]
    OBVIOUS
  <2>4. "INVALID" \in Types
    BY DEF Types
  <2>5. y \in Sockets
    BY <2>2, <2>3, <2>4, Fields
  <2>6. /\ y.id = X.id /\ y.type = "INVALID" /\ y.protocol = X.protocol /\ y.tag = X.tag /\ y.sending = X.sending /\ y.dw = X.dw
        /\ y.high = X.high /\ y.low = X.low /\ y.udpconnecting = X.udpconnecting
    BY <2>2, <2>3 DEF Sockets
  <2>7. slot' = [slot EXCEPT ![H(Req.id)] = y]
    BY <2>1, <2>3
  <2>8. Fresh(Req.id, y)
    BY <2>2, <2>6, <2>7 DEF Fresh, BufferEmpty
  <2>9. failed' = failed
    BY <2>1, <2>2 DEF CheckNewFd, Check
  <2> QED
    BY <2>5, <2>6, <2>8, <2>9 DEF Readied
<1>3. "O" \in Opening /\ "L" \in Opening /\ "B" \in Opening /\ "U" \in Opening
  BY DEF Opening
<1> SUFFICES Done
  OBVIOUS
<1> HIDE DEF Done
<1>4. CASE OpenSocket
  <2>1. NoSocket("O") \/ SetUp("O", "tcp", TRUE, "INVALID", "err")
        \/ SetUp("O", "tcp", TRUE, "CONNECTED", "open") \/ SetUp("O", "tcp", TRUE, "CONNECTING", "none")
    BY <1>4 DEF OpenSocket
  <2> QED
    BY <1>1, <1>2, <1>3, <2>1
<1>5. CASE ListenSocket
  <2>1. NoSocket("L") \/ SetUp("L", "tcp", FALSE, "INVALID", "err") \/ SetUp("L", "tcp", FALSE, "PLISTEN", "none")
    BY <1>5 DEF ListenSocket
  <2> QED
    BY <1>1, <1>2, <1>3, <2>1
<1>6. CASE BindSocket
  <2>1. NoSocket("B") \/ SetUp("B", "tcp", TRUE, "BIND", "open")
    BY <1>6 DEF BindSocket
  <2> QED
    BY <1>1, <1>2, <1>3, <2>1
<1>7. CASE AddUdpSocket
  <2>1. NoSocket("U") \/ SetUp("U", "udp", TRUE, "CONNECTED", "none")
    BY <1>7 DEF AddUdpSocket
  <2> QED
    BY <1>1, <1>2, <1>3, <2>1
<1> QED
  BY <1>4, <1>5, <1>6, <1>7

LEMMA ReserveFresh ==
  ASSUME BaseInv, NEW w, NEW kind, OpenRequest(w, kind)
  PROVE  /\ failed' = failed
         /\ \E id \in Ids : \E y : Fresh(id, y) /\ y.protocol = "unknown" /\ id > alloc
<1> USE DEF BaseInv
<1>1. PICK id \in FreeIds : id <= scene.ids /\ slot' = Reserve(id)
  BY DEF OpenRequest
<1>2. id \in Ids /\ id > alloc /\ H(id) \in Slots /\ slot[H(id)].type = "INVALID"
  BY <1>1, FreeIdType
<1>3. PICK y : y = [slot[H(id)] EXCEPT !.type = "RESERVE", !.id = id, !.protocol = "unknown", !.udpconnecting = 0]
  OBVIOUS
<1>4. slot[H(id)] \in Sockets /\ BufferEmpty(slot[H(id)]) /\ slot[H(id)].dw = None
  BY <1>2 DEF TypeOK, SlotInv, Alive
<1>5. /\ y.id = id /\ y.type = "RESERVE" /\ y.protocol = "unknown" /\ y.dw = slot[H(id)].dw
      /\ y.high = slot[H(id)].high /\ y.low = slot[H(id)].low
  BY <1>3, <1>4 DEF Sockets
<1>6. slot' = [slot EXCEPT ![H(id)] = y]
  BY <1>1, <1>3 DEF Reserve
<1>7. Fresh(id, y)
  BY <1>2, <1>4, <1>5, <1>6 DEF Fresh, BufferEmpty
<1>8. failed' = failed
  BY DEF OpenRequest
<1> QED
  BY <1>2, <1>5, <1>7, <1>8

LEMMA AcceptFresh ==
  ASSUME BaseInv, ReportAccept, slot' # slot \/ failed' # failed
  PROVE  /\ failed' = failed
         /\ \E id \in Ids : \E y \in Sockets : Fresh(id, y) /\ NewCount(id, y) /\ y.protocol # "udp" /\ id > alloc
<1> USE DEF BaseInv
<1>1. PICK id \in FreeIds : Accept(id)
  BY Zenon DEF ReportAccept
<1> DEFINE x == Reserve(id)[H(id)]
           z == NewFd(x, id, "tcp", FALSE)
<1>2. id <= scene.ids /\ CheckNewFd(x)
      /\ \E o \in {x, z} : \E type \in {"INVALID", "PACCEPT"} : slot' = [slot EXCEPT ![H(id)] = [o EXCEPT !.type = type]]
                                                              /\ (type # "INVALID" => o = z)
  BY <1>1 DEF Accept, SetSlot
<1>3. /\ id \in Ids /\ id \in Nat /\ id > alloc /\ H(id) \in Slots /\ slot[H(id)].type = "INVALID"
  BY <1>2, FreeIdType
<1>4. slot[H(id)] \in Sockets /\ Tag(id) \in Nat /\ BufferEmpty(slot[H(id)]) /\ slot[H(id)].dw = None
  BY <1>3, Hash DEF TypeOK, SlotInv, Alive
<1>5. /\ x \in Sockets /\ x.id = id /\ x.type = "RESERVE" /\ x.protocol = "unknown"
      /\ x.high = slot[H(id)].high /\ x.low = slot[H(id)].low /\ x.dw = slot[H(id)].dw
  <2>1. x = [slot[H(id)] EXCEPT !.type = "RESERVE", !.id = id, !.protocol = "unknown", !.udpconnecting = 0]
    BY <1>3 DEF Reserve, TypeOK
  <2> HIDE DEF x
  <2>2. x \in Sockets
    BY <1>3, <1>4, <2>1, ReserveType
  <2> QED
    BY <1>4, <2>1, <2>2 DEF Sockets
<1>6. failed' = failed
  BY <1>2, <1>4, <1>5 DEF CheckNewFd, Check, BufferEmpty
<1> HIDE DEF x
<1>7. z \in Sockets
  BY <1>3, <1>4, <1>5, NewFdType
<1>8. z.id = id /\ z.high = x.high /\ z.low = x.low /\ z.dw = None /\ z.wb = 0 /\ z.protocol = "tcp" /\ z.tag = Tag(id)
  BY <1>5 DEF NewFd, Sockets
<1> HIDE DEF z
<1>9. PICK o \in {x, z} : \E type \in {"INVALID", "PACCEPT"} : slot' = [slot EXCEPT ![H(id)] = [o EXCEPT !.type = type]]
                                                              /\ (type # "INVALID" => o = z)
  BY <1>2
<1>10. PICK type \in {"INVALID", "PACCEPT"} : slot' = [slot EXCEPT ![H(id)] = [o EXCEPT !.type = type]] /\ (type # "INVALID" => o = z)
  BY <1>9
<1>11. PICK y : y = [o EXCEPT !.type = type]
  OBVIOUS
<1>12. /\ o \in Sockets /\ o.id = id /\ o.high = slot[H(id)].high /\ o.low = slot[H(id)].low /\ o.dw = None /\ type \in Types
       /\ o.protocol \in {"unknown", "tcp"} /\ (o.protocol = "tcp" => o.tag = Tag(id)) /\ (type # "INVALID" => o.wb = 0)
  BY <1>4, <1>5, <1>7, <1>8, <1>10 DEF Types
<1>13. y \in Sockets
  BY <1>11, <1>12, Fields
<1>14. y.id = id /\ y.high = o.high /\ y.low = o.low /\ y.dw = None /\ y.type = type /\ y.protocol = o.protocol /\ y.tag = o.tag /\ y.wb = o.wb
  BY <1>11, <1>12 DEF Sockets
<1>15. Fresh(id, y) /\ NewCount(id, y) /\ y.protocol # "udp"
  BY <1>3, <1>4, <1>10, <1>11, <1>12, <1>14 DEF Fresh, NewCount, BufferEmpty
<1> QED
  BY <1>3, <1>6, <1>13, <1>15

LEMMA LoadFresh ==
  ASSUME BaseInv, LoadInv, scene' = scene, sent' = sent, NEW id, NEW y, Fresh(id, y), th' = th \/ th.pc # "force"
  PROVE  LoadInv'
<1> USE DEF BaseInv
<1>1. Slots' = Slots /\ \A x : Balanced(x)' <=> Balanced(x)
  BY SameScene, BalancedStill
<1>2. slot'[H(id)] = y /\ \A j \in Slots : j # H(id) => slot'[j] = slot[j]
  BY DEF Fresh, TypeOK
<1>3. y.type \notin {"INVALID", "RESERVE"} => Balanced(y)
  <2>1. DOMAIN <<>> = {}
    OBVIOUS
  <2> QED
    BY <2>1, LoadNone DEF Fresh, Balanced, BufferEmpty
<1>4. \A i : Forced(i) => Forced(i)'
  BY DEF Forced
<1>5. ASSUME NEW i \in Slots, Alive(i)', ~Forced(i)' PROVE Balanced(slot'[i])
  <2>1. CASE i = H(id)
    BY <1>2, <1>3, <1>5, <2>1 DEF Alive
  <2>2. CASE i # H(id)
    BY <1>2, <1>4, <1>5, <2>2 DEF LoadInv, Alive
  <2> QED
    BY <2>1, <2>2
<1> QED
  BY <1>1, <1>5 DEF LoadInv

LEMMA Held ==
  ASSUME OwnInv
  PROVE  /\ \A i \in Slots : InSocket(slot[i]) \subseteq DOMAIN sent
         /\ \A w \in Workers : InCall(wk[w]) \subseteq DOMAIN sent
BY DEF OwnInv, FreedOnce, Owned

(* A step of a worker that reserves no id.                                 *)
LEMMA LoadWork ==
  ASSUME TypeOK, TypeOK', OwnInv, LoadInv, WorkSteady, UNCHANGED <<scene, th>>, SameSizes,
         \A i \in Slots : \/ slot'[i].dw = slot[i].dw
                          \/ slot'[i].dw \in Buffers /\ slot'[i].dw.p \in DOMAIN sent /\ Left(slot'[i].dw) \in 0 .. 2
  PROVE  LoadInv'
<1>1. Slots' = Slots
  BY SameScene
<1>2. ASSUME NEW i \in Slots, Alive(i)', ~Forced(i)' PROVE Balanced(slot[i])'
  <2>1. Alive(i) /\ ~Forced(i)
    BY <1>2 DEF WorkSteady, Alive, Forced
  <2>2. Balanced(slot[i])
    BY <2>1 DEF LoadInv
  <2>3. slot'[i].high = slot[i].high /\ slot'[i].low = slot[i].low /\ slot'[i].wb = slot[i].wb
    BY DEF WorkSteady
  <2>4. Balanced(slot'[i])
    BY <2>2, <2>3 DEF Balanced
  <2>5. InSocket(slot'[i]) \subseteq DOMAIN sent
    <3>1. InSocket(slot[i]) \subseteq DOMAIN sent
      BY Held
    <3> QED
      BY <2>3, <3>1 DEF InSocket, Direct
  <2>6. slot'[i] \in Sockets
    BY <1>1 DEF TypeOK
  <2> QED
    BY <2>4, <2>5, <2>6, BalancedSame
<1> QED
  BY <1>1, <1>2 DEF LoadInv

LEMMA WorkerLoad ==
  ASSUME BaseInv, TypeOK', ArmedInv, OwnInv, LoadInv, NEW w \in Workers, Worker(w)
  PROVE  LoadInv' /\ failed' = failed
<1> USE DEF BaseInv
<1>1. CASE Connect(w) \/ Listen(w) \/ BindFd(w) \/ Udp(w)
  <2>1. PICK kind : OpenRequest(w, kind)
    BY <1>1 DEF Connect, Listen, BindFd, Udp
  <2>2. UNCHANGED <<scene, sent, th>>
    BY <2>1 DEF OpenRequest
  <2>3. PICK id, y : Fresh(id, y)
    BY <2>1, ReserveFresh
  <2> QED
    BY <2>1, <2>2, <2>3, ReserveFresh, LoadFresh
<1>2. ASSUME WorkSteady, UNCHANGED <<scene, th, sent, failed>>, \A i \in Slots : slot'[i].dw = slot[i].dw
      PROVE  LoadInv' /\ failed' = failed
  <2>1. SameSizes
    BY <1>2 DEF SameSizes
  <2> QED
    BY <1>2, <2>1, LoadWork
<1>3. ASSUME NEW id \in 1 .. alloc, StartPause(w, id) \/ Close(w, id) \/ Shutdown(w, id)
      PROVE  LoadInv' /\ failed' = failed
  <2>1. UNCHANGED <<scene, th, sent, failed, slot>>
    BY <1>3 DEF StartPause, Close, Shutdown, Request, sockVars
  <2> QED
    BY <1>2, <2>1, SameSlots
<1>4. CASE Exit(w) \/ PutRequest(w) \/ Resolve(w) \/ DoubleCheck(w)
  <2>1. UNCHANGED <<scene, th, sent, failed, slot>>
    BY <1>4 DEF Exit, PutRequest, Resolve, DoubleCheck, sockVars
  <2> QED
    BY <1>2, <2>1, SameSlots
<1>5. ASSUME NEW id \in 1 .. alloc, UdpConnect(w, id)
      PROVE  LoadInv' /\ failed' = failed
  <2>1. WorkSteady /\ UNCHANGED <<scene, th, sent, failed>>
    BY <1>5, UdpConnectWork DEF WorkStep, UdpConnect
  <2>2. \A i \in Slots : slot'[i].dw = slot[i].dw
    BY <1>5 DEF UdpConnect, TypeOK, Sockets
  <2> QED
    BY <1>2, <2>1, <2>2
<1>6. CASE IncSending(w)
  <2>1. WorkSteady /\ UNCHANGED <<scene, th, sent, failed>>
    BY <1>6, IncSendingWork DEF WorkStep, IncSending
  <2>2. \A i \in Slots : slot'[i].dw = slot[i].dw
    BY <1>6 DEF IncSending, TypeOK, Sockets
  <2> QED
    BY <1>2, <2>1, <2>2
<1>7. ASSUME NEW id \in 1 .. alloc, Send(w, id) \/ SendLow(w, id) \/ UdpSend(w, id)
      PROVE  LoadInv' /\ failed' = failed
  <2>1. \E kind, bad, direct : Sending(w, id, kind, bad, direct)
    BY <1>7 DEF Send, SendLow, UdpSend
  <2>2. UNCHANGED <<scene, slot, th, failed>> /\ \E r : sent' = Append(sent, r)
    BY <2>1 DEF Sending, Handed
  <2>3. SameSizes
    <3>1. PICK r : sent' = Append(sent, r)
      BY <2>2
    <3>2. \A p \in DOMAIN sent : sent'[p] = sent[p]
      <4>1. sent \in Seq(SentRecs)
        BY DEF TypeOK
      <4> QED
        BY <3>1, <4>1
    <3> QED
      BY <3>2, Zenon DEF SameSizes
  <2> QED
    BY <2>2, <2>3, SameSlots, LoadWork
<1>8. CASE DirectWrite(w)
  <2>1. WorkSteady
    BY <1>8, DirectWriteWork DEF WorkStep
  <2>2. wk[w].pc = "write" /\ UNCHANGED <<scene, th, failed>>
    BY <1>8, DirectWriteSlot
  <2>3. SameSizes
    <3>1. sent' = sent \/ \E p : sent' = [sent EXCEPT ![p].retried = TRUE]
      BY <1>8 DEF DirectWrite
    <3>2. ASSUME NEW p, sent' = [sent EXCEPT ![p].retried = TRUE], NEW q \in DOMAIN sent
          PROVE  sent'[q].udp = sent[q].udp
      <4>1. sent \in Seq(SentRecs)
        BY DEF TypeOK
      <4>2. sent[q] \in SentRecs
        BY <4>1
      <4>3. PICK s : s = [sent[q] EXCEPT !.retried = TRUE]
        OBVIOUS
      <4>4. sent'[q] = sent[q] \/ sent'[q] = s
        <5>1. CASE q = p
          BY <3>2, <4>1, <4>3, <5>1
        <5>2. CASE q # p
          BY <3>2, <4>1, <5>2
        <5> QED
          BY <5>1, <5>2
      <4>5. s.udp = sent[q].udp
        BY <4>2, <4>3 DEF SentRecs
      <4> QED
        BY <4>4, <4>5
    <3> QED
      BY <3>1, <3>2 DEF SameSizes
  <2>4. wk[w] \in Working /\ wk[w].cmd # "W" /\ H(wk[w].id) \in Slots
    BY <2>2, HoldsLock DEF ArmedInv
  <2>5. wk[w].p \in DOMAIN sent /\ wk[w].p \in Nat
    <3>1. InCall(wk[w]) = {wk[w].p}
      BY <2>2, <2>4 DEF Working, InCall
    <3>2. InCall(wk[w]) \subseteq DOMAIN sent
      BY Held
    <3> QED
      BY <2>4, <3>1, <3>2 DEF Working
  <2>6. CASE slot' = slot
    BY <2>1, <2>2, <2>3, <2>6, LoadWork
  <2>7. ASSUME NEW n \in 0 .. Size(wk[w].p), slot' = [slot EXCEPT ![H(wk[w].id)].dw = Buffer(wk[w].p, n, 0)]
        PROVE  LoadInv'
    <3>1. PICK b : b = Buffer(wk[w].p, n, 0)
      OBVIOUS
    <3>2. Size(wk[w].p) \in {1, 2}
      BY Sizes
    <3>3. n \in Nat /\ n <= Size(wk[w].p)
      BY <3>2
    <3>4. b \in Buffers /\ b.p = wk[w].p /\ b.off = n
      BY <2>5, <3>1, <3>3 DEF Buffer, Buffers
    <3>5. Left(b) \in 0 .. 2
      BY <3>2, <3>3, <3>4 DEF Left
    <3>6. \A i \in Slots : slot'[i].dw = slot[i].dw \/ slot'[i].dw = b
      BY <2>4, <2>7, <3>1 DEF TypeOK, Sockets
    <3> QED
      BY <2>1, <2>2, <2>3, <2>5, <3>4, <3>5, <3>6, LoadWork
  <2> QED
    BY <1>8, <2>2, <2>6, <2>7, DirectWriteSlot
<1> QED
  BY <1>1, <1>3, <1>4, <1>5, <1>6, <1>7, <1>8 DEF Worker

(* An assertion fails only in dec_sending_ref, or for a reserved slot.     *)
LEMMA BeginForceSound ==
  ASSUME NEW i, Alive(i), NEW msg, NEW ctl, BeginForceClose(i, msg, ctl)
  PROVE  failed' = failed
BY DEF BeginForceClose, Check, Alive

LEMMA ThreadSound ==
  ASSUME BaseInv, CloseSocket \/ ReportConnect \/ ReadTcp \/ ReadUdp \/ ErrorEvent
  PROVE  failed' = failed
<1> USE DEF BaseInv
<1>1. CASE CloseSocket
  <2>1. pipe # <<>> /\ Req.cmd \in {"K", "X"}
    BY <1>1 DEF CloseSocket, Ctrl
  <2>2. failed' = failed \/ (~Invalid(X, Req.id) /\ \E msg : BeginForceClose(H(Req.id), msg, TRUE))
    BY <1>1, Zenon DEF CloseSocket
  <2>3. ~Invalid(X, Req.id) => Alive(H(Req.id))
    BY <2>1, LiveRequest DEF Opening
  <2> QED
    BY <2>2, <2>3, BeginForceSound
<1>2. CASE ReportConnect \/ ReadTcp \/ ReadUdp \/ ErrorEvent
  <2>1. Event(Plain) \/ Event({"CONNECTING"})
    BY <1>2 DEF ReportConnect, ReadTcp, ReadUdp, ErrorEvent
  <2>2. Alive(E0.slot)
    BY <2>1, LiveEvent DEF Plain
  <2>3. failed' = failed \/ \E msg : BeginForceClose(E0.slot, msg, FALSE)
    BY <1>2, Zenon DEF ReportConnect, ReadTcp, ReadUdp, ErrorEvent
  <2> QED
    BY <2>2, <2>3, BeginForceSound
<1> QED
  BY <1>1, <1>2

LEMMA LoadNext ==
  ASSUME BaseInv, TypeOK', ArmedInv, OwnInv, LoadInv, [Next]_vars
  PROVE  LoadInv' /\ (failed' = failed \/ DecSending \/ ReservedEvent)
<1> USE DEF BaseInv
<1>1. ASSUME UNCHANGED <<scene, sent, slot>>, th.pc # "force" PROVE LoadInv'
  BY <1>1, LoadKeep, LoadThread
<1>2. CASE UNCHANGED vars
  <2>1. \A x : Balanced(x)' <=> Balanced(x)
    BY <1>2, BalancedStill DEF vars
  <2>2. Slots' = Slots
    BY <1>2, SameScene DEF vars
  <2> QED
    BY <1>2, <2>1, <2>2 DEF vars, LoadInv, Alive, Forced
<1>3. CASE \E w \in Workers : Worker(w)
  BY <1>3, WorkerLoad
<1>4. CASE OpenSocket \/ ListenSocket \/ BindSocket \/ AddUdpSocket
  <2>1. UNCHANGED <<scene, sent>> /\ th' = th
    BY <1>4 DEF OpenSocket, ListenSocket, BindSocket, AddUdpSocket, NoSocket, SetUp, workVars
  <2>2. failed' = failed /\ \E y : Fresh(Req.id, y)
    BY <1>4, OpeningFresh
  <2> QED
    BY <2>1, <2>2, LoadFresh
<1>5. CASE ReportAccept
  <2>1. UNCHANGED <<scene, sent>> /\ th.pc # "force"
    BY <1>5 DEF ReportAccept, Event, workVars
  <2>2. CASE slot' = slot /\ failed' = failed
    BY <1>1, <2>1, <2>2
  <2>3. CASE slot' # slot \/ failed' # failed
    <3>1. failed' = failed /\ \E id, y : Fresh(id, y)
      BY <1>5, <2>3, AcceptFresh
    <3> QED
      BY <2>1, <3>1, LoadFresh
  <2> QED
    BY <2>2, <2>3
<1>6. CASE SpWait \/ InvalidSocket \/ VoidEvent \/ ExitCmd \/ ClearEvent \/ NoCommand
  <2>1. UNCHANGED <<scene, sent, slot, failed>> /\ th.pc # "force"
    BY <1>6 DEF SpWait, InvalidSocket, VoidEvent, ExitCmd, ClearEvent, NoCommand, Event, Ctrl, workVars
  <2> QED
    BY <1>1, <2>1
<1>7. CASE CloseSocket \/ ReportConnect \/ ReadTcp \/ ReadUdp \/ ErrorEvent
  <2>1. UNCHANGED <<scene, sent>>
    BY <1>7 DEF CloseSocket, ReportConnect, ReadTcp, ReadUdp, ErrorEvent, Event, workVars
  <2> QED
    BY <1>7, <2>1, CloseSocketLoad, EventLoad, ThreadSound, LoadThread
<1>8. CASE Resume \/ Pause \/ TriggerWrite \/ SetUdpAddress
  <2>1. UNCHANGED <<scene, sent, failed>>
    BY <1>8 DEF Resume, Pause, TriggerWrite, SetUdpAddress, Adjust, workVars
  <2> QED
    BY <1>8, <2>1, ResumeLoad, AdjustLoad, LoadThread
<1>9. CASE SendSocket \/ ForceClose \/ DecSending
  <2>1. UNCHANGED <<scene, sent>> /\ (failed' = failed \/ DecSending)
    BY <1>9 DEF SendSocket, ForceClose, DecSending, workVars
  <2> QED
    BY <1>9, <2>1, SendSocketLoad, ForceCloseLoad, DecSendingLoad, LoadThread
<1>10. CASE SendBuffer
  <2>1. UNCHANGED <<scene, sent>>
    BY <1>10 DEF SendBuffer, Event, workVars
  <2> QED
    BY <1>10, <2>1, SendBufferLoad, LoadThread
<1>11. CASE ReservedEvent
  BY <1>11, ReservedEventSlot, ReservedEventLoad, LoadThread
<1>12. CASE \E id \in Ids : Network(id)
  <2>1. UNCHANGED <<scene, sent, slot, failed, th>>
    BY <1>12 DEF Network
  <2>2. \A x : Balanced(x)' <=> Balanced(x)
    BY <2>1, BalancedStill
  <2>3. Slots' = Slots
    BY <2>1, SameScene
  <2> QED
    BY <2>1, <2>2, <2>3 DEF LoadInv, Alive, Forced
<1> QED
  BY <1>2, <1>3, <1>4, <1>5, <1>6, <1>7, <1>8, <1>9, <1>10, <1>11, <1>12 DEF Next, SocketThread

(* A service uses an id that it connects to, binds or listens at when it   *)
(* was told that it is open, and it is told so after the id was set up.    *)
Setup == {"O", "L", "B"}
Counted == {"D", "P"}
OpenedInv ==
  /\ \A k \in DOMAIN pipe : /\ pipe[k].cmd \in Setup => ~told[pipe[k].id].open
                            /\ pipe[k].cmd \in Counted => told[pipe[k].id].open
  /\ \A w \in Workers : wk[w].pc # "idle" => told[wk[w].id].open

(* The socket thread tells the owner of an id that it is open when no      *)
(* request is left that opens it.                                          *)
OpensRight ==
  \A id \in Ids :
    /\ told[id].open => told'[id].open
    /\ told'[id].open /\ ~told[id].open =>
         \A k \in DOMAIN pipe' : pipe'[k].cmd \in Setup => pipe'[k].id # id

LEMMA GivenIds == ASSUME TypeOK PROVE 1 .. alloc \subseteq Ids
<1>1. alloc \in 0 .. scene.ids /\ scene.ids \in Nat
  BY Scene DEF TypeOK
<1> QED
  BY <1>1 DEF Ids

LEMMA OpenedThread ==
  ASSUME BaseInv, TypeOK', OpenedInv, OpensRight, UNCHANGED <<scene, wk>>, pipe' = pipe \/ (pipe # <<>> /\ pipe' = Tail(pipe))
  PROVE  OpenedInv'
<1> USE DEF BaseInv
<1>1. Ids' = Ids
  BY SameScene
<1>2. \A k \in DOMAIN pipe' : \E j \in DOMAIN pipe : pipe'[k] = pipe[j]
  BY PipeEntries
<1>3. \A w \in Workers : wk[w].pc # "idle" => wk[w].id \in Ids
  BY GivenIds DEF LockInv
<1>4. \A j \in DOMAIN pipe : pipe[j].cmd # "exit" => pipe[j].id \in Ids
  BY GivenIds DEF PipeInv
<1>5. ASSUME NEW k \in DOMAIN pipe'
      PROVE  /\ pipe'[k].cmd \in Setup => ~told'[pipe'[k].id].open
             /\ pipe'[k].cmd \in Counted => told'[pipe'[k].id].open
  <2>1. PICK j \in DOMAIN pipe : pipe'[k] = pipe[j]
    BY <1>2
  <2>2. pipe[j].cmd \in Setup \cup Counted => pipe[j].id \in Ids
    BY <1>4 DEF Setup, Counted
  <2> QED
    BY <2>1, <2>2 DEF OpenedInv, OpensRight
<1>6. ASSUME NEW w \in Workers, wk'[w].pc # "idle" PROVE told'[wk'[w].id].open
  BY <1>3, <1>6 DEF OpenedInv, OpensRight
<1> QED
  BY <1>5, <1>6 DEF OpenedInv

(* A worker adds a request to the pipe, or none, and is in a call of an id *)
(* that is open.                                                           *)
LEMMA OpenedWork ==
  ASSUME BaseInv, OpenedInv, told' = told, NEW w \in Workers, NEW r, wk' = wk \/ wk' = [wk EXCEPT ![w] = r],
         r.pc # "idle" => told[r.id].open,
         pipe' = pipe \/ \E q : Put(q) /\ q.cmd \notin Setup /\ (q.cmd \in Counted => told[q.id].open)
  PROVE  OpenedInv'
<1> USE DEF BaseInv
<1>1. ASSUME NEW k \in DOMAIN pipe'
      PROVE  /\ pipe'[k].cmd \in Setup => ~told'[pipe'[k].id].open
             /\ pipe'[k].cmd \in Counted => told'[pipe'[k].id].open
  <2>1. CASE \E j \in DOMAIN pipe : pipe'[k] = pipe[j]
    BY <2>1 DEF OpenedInv
  <2>2. CASE \A j \in DOMAIN pipe : pipe'[k] # pipe[j]
    <3>1. PICK q : Put(q) /\ q.cmd \notin Setup /\ (q.cmd \in Counted => told[q.id].open)
      BY <2>2
    <3>2. pipe'[k] = q
      BY <2>2, <3>1, PipeEntries
    <3> QED
      BY <3>1, <3>2
  <2> QED
    BY <2>1, <2>2
<1>2. \A v \in Workers : wk'[v] = wk[v] \/ wk'[v] = r
  BY DEF TypeOK
<1> QED
  BY <1>1, <1>2 DEF OpenedInv

LEMMA OpenedTell ==
  ASSUME TypeOK, NEW id, NEW msg, Tell(id, msg)
  PROVE  \A n \in Ids : /\ told[n].open => told'[n].open
                        /\ told'[n].open /\ ~told[n].open => n = id /\ msg = "open"
<1>1. CASE id \notin Ids
  BY <1>1 DEF Tell
<1>2. CASE id \in Ids
  <2>1. told' = [told EXCEPT ![id].open = @ \/ msg = "open", ![id].close = @ + (IF msg = "close" THEN 1 ELSE 0)]
    BY <1>2 DEF Tell
  <2>2. PICK t : t = [told[id] EXCEPT !.open = @ \/ msg = "open", !.close = @ + (IF msg = "close" THEN 1 ELSE 0)]
    OBVIOUS
  <2>3. told' = [told EXCEPT ![id] = t]
    BY <2>1, <2>2, <1>2 DEF TypeOK
  <2>4. told[id] \in ToldRecs
    BY <1>2 DEF TypeOK
  <2>5. t.open = (told[id].open \/ msg = "open")
    BY <2>2, <2>4 DEF ToldRecs
  <2>6. \A n \in Ids : told'[n] = IF n = id THEN t ELSE told[n]
    BY <2>3 DEF TypeOK
  <2> QED
    BY <2>5, <2>6
<1> QED
  BY <1>1, <1>2

NoneOpens(id) == \A k \in DOMAIN pipe' : pipe'[k].cmd \in Setup => pipe'[k].id # id

LEMMA OpensTell ==
  ASSUME TypeOK, told' = told \/ \E id, msg : Tell(id, msg) /\ (msg = "open" => NoneOpens(id))
  PROVE  OpensRight
<1>1. CASE told' = told
  BY <1>1 DEF OpensRight
<1>2. ASSUME NEW id, NEW msg, Tell(id, msg), msg = "open" => NoneOpens(id)
      PROVE  OpensRight
  BY <1>2, OpenedTell DEF OpensRight, NoneOpens
<1> QED
  BY <1>1, <1>2

(* The request that opens an id is the first one for it, and no other one  *)
(* is there when it was set up.                                            *)
LEMMA OnlySetup ==
  ASSUME TypeOK, PipeInv, pipe # <<>>, Req.cmd \in Opening, pipe' = Tail(pipe)
  PROVE  NoneOpens(Req.id)
<1> SUFFICES ASSUME NEW k \in DOMAIN pipe', pipe'[k].cmd \in Setup
             PROVE  pipe'[k].id # Req.id
  BY DEF NoneOpens
<1>1. k + 1 \in DOMAIN pipe /\ pipe'[k] = pipe[k + 1] /\ Req = pipe[1] /\ DOMAIN pipe' = 1 .. Len(pipe) - 1 /\ Len(pipe) \in Nat
  BY PipeEntries
<1>2. 1 \in 1 .. (k + 1) - 1
  BY <1>1
<1>3. pipe[k + 1].cmd \in Opening
  BY <1>1 DEF Setup, Opening
<1> QED
  BY <1>1, <1>2, <1>3 DEF PipeInv, Opening

LEMMA AliveSetup ==
  ASSUME TypeOK, SlotInv, PipeInv, NEW i \in Slots, Alive(i), pipe' = pipe \/ (pipe # <<>> /\ pipe' = Tail(pipe))
  PROVE  NoneOpens(slot[i].id)
<1> SUFFICES ASSUME NEW k \in DOMAIN pipe', pipe'[k].cmd \in Setup, pipe'[k].id = slot[i].id
             PROVE  FALSE
  BY DEF NoneOpens
<1>1. PICK j \in DOMAIN pipe : pipe'[k] = pipe[j]
  BY PipeEntries
<1>2. slot[H(slot[i].id)].type = "RESERVE"
  BY <1>1 DEF PipeInv, Setup, Opening
<1>3. H(slot[i].id) = i
  BY DEF SlotInv, Alive
<1> QED
  BY <1>2, <1>3 DEF Alive

LEMMA ThreadPipe ==
  ASSUME SocketThread
  PROVE  UNCHANGED <<scene, wk>> /\ (pipe' = pipe \/ (pipe # <<>> /\ pipe' = Tail(pipe)))
<1>1. CASE OpenSocket \/ ListenSocket \/ BindSocket \/ AddUdpSocket
  BY <1>1 DEF OpenSocket, ListenSocket, BindSocket, AddUdpSocket, NoSocket, SetUp, Ctrl, workVars
<1>2. CASE CloseSocket \/ Resume
  BY <1>2 DEF CloseSocket, Resume, Ctrl, workVars
<1>3. CASE Pause \/ TriggerWrite \/ SetUdpAddress \/ SendSocket \/ ExitCmd
  BY <1>3 DEF Pause, TriggerWrite, SetUdpAddress, SendSocket, ExitCmd, Adjust, Ctrl, workVars
<1>4. CASE ForceClose \/ DecSending \/ SpWait \/ VoidEvent \/ ClearEvent \/ NoCommand
  BY <1>4 DEF ForceClose, DecSending, SpWait, VoidEvent, ClearEvent, NoCommand, workVars
<1>5. CASE ReportConnect \/ ReportAccept \/ InvalidSocket \/ ReadTcp \/ ReadUdp \/ SendBuffer \/ ErrorEvent \/ ReservedEvent
  BY <1>5 DEF ReportConnect, ReportAccept, InvalidSocket, ReadTcp, ReadUdp, SendBuffer, ErrorEvent, ReservedEvent, Event, workVars
<1> QED
  BY <1>1, <1>2, <1>3, <1>4, <1>5 DEF SocketThread

LEMMA ThreadOpens ==
  ASSUME BaseInv, SocketThread
  PROVE  OpensRight
<1> USE DEF BaseInv
<1>1. UNCHANGED <<scene, wk>> /\ (pipe' = pipe \/ (pipe # <<>> /\ pipe' = Tail(pipe)))
  BY ThreadPipe
<1>2. CASE OpenSocket \/ ListenSocket \/ BindSocket \/ AddUdpSocket
  <2>1. /\ \E cmd \in Opening : Ctrl({cmd})
        /\ \E msg : Tell(Req.id, msg)
    BY <1>2 DEF OpenSocket, ListenSocket, BindSocket, AddUdpSocket, NoSocket, SetUp, Opening
  <2>2. pipe # <<>> /\ Req.cmd \in Opening /\ pipe' = Tail(pipe)
    BY <2>1 DEF Ctrl
  <2>3. NoneOpens(Req.id)
    BY <2>2, OnlySetup
  <2> QED
    BY <2>1, <2>3, OpensTell
<1>3. CASE CloseSocket
  <2>1. told' = told \/ \E msg \in {"none", "close"} : Tell(Req.id, msg)
    BY <1>3, Zenon DEF CloseSocket
  <2> QED
    BY <2>1, OpensTell
<1>4. CASE Resume
  <2>1. told' = told \/ (~Invalid(X, Req.id) /\ \E msg : Tell(Req.id, msg))
    BY <1>4, Zenon DEF Resume
  <2>2. CASE told' = told
    BY <2>2, OpensTell
  <2>3. ASSUME ~Invalid(X, Req.id), NEW msg, Tell(Req.id, msg) PROVE OpensRight
    <3>1. pipe # <<>> /\ Req.cmd = "R"
      BY <1>4, ResumeSlot
    <3>2. Alive(H(Req.id)) /\ X.id = Req.id /\ H(Req.id) \in Slots
      BY <2>3, <3>1, LiveRequest DEF Opening
    <3>3. NoneOpens(Req.id)
      BY <1>1, <3>2, AliveSetup DEF X
    <3> QED
      BY <2>3, <3>3, OpensTell
  <2> QED
    BY <2>1, <2>2, <2>3
<1>5. CASE ForceClose
  <2>1. Tell(slot[th.slot].id, th.msg) /\ th.msg # "open"
    BY <1>5 DEF ForceClose, TypeOK, Positions
  <2> QED
    BY <2>1, OpensTell
<1>6. CASE ReportConnect
  <2>1. Event({"CONNECTING"}) /\ (told' = told \/ Tell(Y.id, "open"))
    BY <1>6 DEF ReportConnect
  <2>2. Alive(E0.slot) /\ E0.slot \in Slots /\ Y = slot[E0.slot]
    BY <2>1, LiveEvent
  <2>3. NoneOpens(Y.id)
    BY <1>1, <2>2, AliveSetup
  <2> QED
    BY <2>1, <2>3, OpensTell
<1>7. CASE ReadTcp
  <2>1. told' = told \/ Tell(Y.id, "close")
    BY <1>7, Zenon DEF ReadTcp
  <2> QED
    BY <2>1, OpensTell
<1>8. CASE ReportAccept
  <2>1. told' = told \/ \E id : told' = [told EXCEPT ![id].start = TRUE]
    BY <1>8, Zenon DEF ReportAccept, Accept
  <2>2. ASSUME NEW id, told' = [told EXCEPT ![id].start = TRUE], NEW n \in Ids
        PROVE  told'[n].open = told[n].open
    <3>1. told[n] \in ToldRecs
      BY DEF TypeOK
    <3>2. PICK t : t = [told[n] EXCEPT !.start = TRUE]
      OBVIOUS
    <3>3. t.open = told[n].open
      BY <3>1, <3>2 DEF ToldRecs
    <3>4. told'[n] = told[n] \/ told'[n] = t
      <4>1. CASE n = id
        BY <2>2, <3>2, <4>1 DEF TypeOK
      <4>2. CASE n # id
        BY <2>2, <4>2 DEF TypeOK
      <4> QED
        BY <4>1, <4>2
    <3> QED
      BY <3>3, <3>4
  <2> QED
    BY <2>1, <2>2 DEF OpensRight
<1>9. CASE Pause \/ TriggerWrite \/ SetUdpAddress \/ SendSocket \/ DecSending \/ ExitCmd
  <2>1. told' = told
    BY <1>9 DEF Pause, TriggerWrite, SetUdpAddress, SendSocket, DecSending, ExitCmd, Adjust
  <2> QED
    BY <2>1, OpensTell
<1>10. CASE SpWait \/ InvalidSocket \/ VoidEvent \/ ReadUdp \/ ErrorEvent \/ ClearEvent \/ NoCommand \/ ReservedEvent
  <2>1. told' = told
    BY <1>10 DEF SpWait, InvalidSocket, VoidEvent, ReadUdp, ErrorEvent, ClearEvent, NoCommand, ReservedEvent
  <2> QED
    BY <2>1, OpensTell
<1>11. CASE SendBuffer
  <2>1. told' = told \/ (\E x : WriteError(x)) \/ (\E x, h, l : WriteSome(x, h, l))
    BY <1>11, SMTT(60) DEF SendBuffer
  <2>2. told' = told
    BY <2>1 DEF WriteError, WriteSome
  <2> QED
    BY <2>2, OpensTell
<1> QED
  BY <1>2, <1>3, <1>4, <1>5, <1>6, <1>7, <1>8, <1>9, <1>10, <1>11 DEF SocketThread

(* An id that is reserved is not open, but for UDP.                        *)
LEMMA OpenedReserve ==
  ASSUME BaseInv, OpenedInv, NEW w \in Workers, NEW kind, OpenRequest(w, kind)
  PROVE  OpenedInv'
<1> USE DEF BaseInv
<1>1. PICK id \in FreeIds : /\ id <= scene.ids /\ Put([cmd |-> kind, id |-> id])
                            /\ told' = [told EXCEPT ![id].open = (kind = "U"), ![id].start = (kind = "L")]
  BY DEF OpenRequest
<1>2. id \in Ids /\ id > alloc /\ wk' = wk /\ kind \in {"O", "L", "B", "U"}
  <2>1. scene.kinds \subseteq {"O", "L", "B", "U"}
    BY SocketAssumption DEF TypeOK, SceneRecords
  <2> QED
    BY <1>1, <2>1, FreeIdType DEF OpenRequest
<1>3. told'[id].open = (kind = "U") /\ \A n : n \in 1 .. alloc => told'[n] = told[n]
  <2>1. told[id] \in ToldRecs /\ 1 .. alloc \subseteq Ids /\ id \notin 1 .. alloc
    BY <1>2, GivenIds DEF TypeOK
  <2>2. PICK t : t = [told[id] EXCEPT !.open = (kind = "U"), !.start = (kind = "L")]
    OBVIOUS
  <2>3. told' = [told EXCEPT ![id] = t]
    BY <1>1, <1>2, <2>2 DEF TypeOK
  <2>4. t.open = (kind = "U")
    BY <2>1, <2>2 DEF ToldRecs
  <2> QED
    BY <1>2, <2>1, <2>3, <2>4 DEF TypeOK
<1>4. ASSUME NEW k \in DOMAIN pipe'
      PROVE  /\ pipe'[k].cmd \in Setup => ~told'[pipe'[k].id].open
             /\ pipe'[k].cmd \in Counted => told'[pipe'[k].id].open
  <2>1. CASE k \in DOMAIN pipe
    <3>1. pipe'[k] = pipe[k]
      BY <1>1, <2>1, PipeEntries
    <3>2. pipe[k].cmd \in Setup \cup Counted => pipe[k].id \in 1 .. alloc
      BY <2>1 DEF PipeInv, Setup, Counted
    <3> QED
      BY <1>3, <2>1, <3>1, <3>2 DEF OpenedInv
  <2>2. CASE k \notin DOMAIN pipe
    <3>1. pipe'[k] = [cmd |-> kind, id |-> id]
      BY <1>1, <2>2, PipeEntries
    <3>2. pipe'[k].cmd = kind /\ pipe'[k].id = id
      BY <3>1
    <3>3. kind \in Setup => kind # "U"
      BY DEF Setup
    <3>4. kind \notin Counted
      BY <1>2 DEF Counted
    <3>5. told'[id].open = (kind = "U")
      BY <1>3
    <3> QED
      BY <3>2, <3>3, <3>4, <3>5, Zenon
  <2> QED
    BY <2>1, <2>2
<1>5. \A v \in Workers : wk[v].pc # "idle" => wk[v].id \in 1 .. alloc
  BY DEF LockInv
<1> QED
  BY <1>2, <1>3, <1>4, <1>5 DEF OpenedInv

LEMMA OpenedWorker ==
  ASSUME BaseInv, OpenedInv, NEW w \in Workers, Worker(w)
  PROVE  OpenedInv'
<1> USE DEF BaseInv
<1>1. CASE Connect(w) \/ Listen(w) \/ BindFd(w) \/ Udp(w)
  BY <1>1, OpenedReserve DEF Connect, Listen, BindFd, Udp
<1>2. wk[w].pc # "idle" => told[wk[w].id].open
  BY DEF OpenedInv
<1>3. ASSUME NEW id \in 1 .. alloc, StartPause(w, id) \/ Close(w, id) \/ Shutdown(w, id)
      PROVE  OpenedInv'
  <2>1. told' = told /\ wk' = wk /\ \E cmd \in {"R", "S", "K", "X"} : Put([cmd |-> cmd, id |-> id])
    BY <1>3 DEF StartPause, Close, Shutdown, Request, sockVars
  <2>2. \A cmd \in {"R", "S", "K", "X"} : [cmd |-> cmd, id |-> id].cmd \notin Setup \cup Counted
    BY DEF Setup, Counted
  <2> QED
    BY <1>2, <2>1, <2>2, OpenedWork
<1>4. CASE Exit(w)
  <2>1. told' = told /\ wk' = wk /\ Put([cmd |-> "exit"])
    BY <1>4 DEF Exit, sockVars
  <2>2. [cmd |-> "exit"].cmd \notin Setup \cup Counted
    BY DEF Setup, Counted
  <2> QED
    BY <1>2, <2>1, <2>2, OpenedWork
<1>5. ASSUME NEW id \in 1 .. alloc, Send(w, id) \/ SendLow(w, id) \/ UdpSend(w, id)
      PROVE  OpenedInv'
  <2>0. PICK kind \in Data : \E bad, direct : Sending(w, id, kind, bad, direct)
    BY <1>5 DEF Send, SendLow, UdpSend, Data
  <2>1. PICK bad, direct : Sending(w, id, kind, bad, direct)
    BY <2>0
  <2>2. /\ UNCHANGED <<told, pipe>> /\ Call(w, kind, id)
        /\ \/ wk' = wk
           \/ wk' = [wk EXCEPT ![w] = [pc |-> IF direct THEN "check" ELSE Queueing(kind), id |-> id,
                                      p |-> Len(sent) + 1, cmd |-> kind]]
    BY <2>1 DEF Sending, Goto
  <2>3. told[id].open
    <3>1. told[id].open \/ kind \in {"R", "K", "X"}
      BY <2>2, Zenon DEF Call
    <3>2. kind \notin {"R", "K", "X"}
      BY DEF Data
    <3> QED
      BY <3>1, <3>2
  <2>4. PICK r : r = [pc |-> IF direct THEN "check" ELSE Queueing(kind), id |-> id, p |-> Len(sent) + 1, cmd |-> kind]
    OBVIOUS
  <2>5. r.id = id
    BY <2>4
  <2>6. (wk' = wk \/ wk' = [wk EXCEPT ![w] = r]) /\ told' = told /\ pipe' = pipe /\ (r.pc # "idle" => told[r.id].open)
    BY <2>2, <2>3, <2>4, <2>5, Zenon
  <2> HIDE <2>2, <2>4
  <2> QED
    BY <2>6, OpenedWork
<1>6. ASSUME NEW id \in 1 .. alloc, UdpConnect(w, id)
      PROVE  OpenedInv'
  <2>1. /\ UNCHANGED <<told, pipe>> /\ told[id].open
        /\ wk' = [wk EXCEPT ![w] = [pc |-> "resolve", id |-> id, p |-> 0, cmd |-> "C"]]
    BY <1>6 DEF UdpConnect, Call, Goto
  <2> QED
    BY <2>1, OpenedWork
<1>7. CASE DoubleCheck(w)
  <2>1. /\ UNCHANGED <<told, pipe>> /\ wk[w].pc # "idle"
        /\ \E pc : wk' = [wk EXCEPT ![w] = [wk[w] EXCEPT !.pc = pc]]
    BY <1>7 DEF DoubleCheck, Goto
  <2>2. wk[w] \in Working
    BY <1>7 DEF DoubleCheck, TypeOK, WorkerRecs, Resting
  <2>3. PICK pc, r : r = [wk[w] EXCEPT !.pc = pc] /\ wk' = [wk EXCEPT ![w] = r]
    BY <2>1
  <2>4. r.id = wk[w].id
    BY <2>2, <2>3 DEF Working
  <2> QED
    BY <1>2, <2>1, <2>3, <2>4, OpenedWork
<1>8. CASE IncSending(w)
  <2>1. /\ UNCHANGED <<told, pipe>> /\ wk[w].pc # "idle" /\ wk[w].pc = "inc"
        /\ wk' = [wk EXCEPT ![w] = [wk[w] EXCEPT !.pc = "put"]]
    BY <1>8 DEF IncSending, Goto
  <2>2. wk[w] \in Working
    BY <2>1 DEF TypeOK, WorkerRecs, Resting
  <2>3. PICK r : r = [wk[w] EXCEPT !.pc = "put"] /\ wk' = [wk EXCEPT ![w] = r]
    BY <2>1
  <2>4. r.id = wk[w].id
    BY <2>2, <2>3 DEF Working
  <2> QED
    BY <1>2, <2>1, <2>3, <2>4, OpenedWork
<1>9. CASE DirectWrite(w)
  <2>1. /\ UNCHANGED <<told, pipe>> /\ wk[w].pc # "idle" /\ wk[w].pc = "write"
        /\ \E r \in {Resting, [wk[w] EXCEPT !.pc = "put"], [wk[w] EXCEPT !.pc = "inc", !.cmd = "W"]} : wk' = [wk EXCEPT ![w] = r]
    BY <1>9, Zenon DEF DirectWrite, Goto
  <2>2. wk[w] \in Working
    <3>1. wk[w] \in WorkerRecs /\ Resting.pc = "idle"
      BY DEF TypeOK, Resting
    <3> QED
      BY <2>1, <3>1 DEF WorkerRecs
  <2>3. PICK r \in {Resting, [wk[w] EXCEPT !.pc = "put"], [wk[w] EXCEPT !.pc = "inc", !.cmd = "W"]} : wk' = [wk EXCEPT ![w] = r]
    BY <2>1
  <2>4. r.pc = "idle" \/ r.id = wk[w].id
    <3>1. CASE r = Resting
      BY <3>1 DEF Resting
    <3>2. CASE r = [wk[w] EXCEPT !.pc = "put"]
      BY <2>2, <3>2 DEF Working
    <3>3. CASE r = [wk[w] EXCEPT !.pc = "inc", !.cmd = "W"]
      BY <2>2, <3>3 DEF Working
    <3> QED
      BY <2>3, <3>1, <3>2, <3>3
  <2> QED
    BY <1>2, <2>1, <2>3, <2>4, OpenedWork
<1>10. CASE PutRequest(w)
  <2>1. /\ told' = told /\ wk[w].pc = "put" /\ wk' = [wk EXCEPT ![w] = Resting] /\ Resting.pc = "idle"
        /\ Put([cmd |-> wk[w].cmd, id |-> wk[w].id, p |-> wk[w].p])
    BY <1>10 DEF PutRequest, Goto, sockVars, Resting
  <2>2. wk[w] \in Working
    BY <2>1 DEF TypeOK, WorkerRecs, Resting
  <2>3. PICK q : q = [cmd |-> wk[w].cmd, id |-> wk[w].id, p |-> wk[w].p]
    OBVIOUS
  <2>4. q.cmd \notin Setup /\ told[q.id].open
    BY <1>2, <2>1, <2>2, <2>3 DEF Working, Setup, Data
  <2> QED
    BY <2>1, <2>3, <2>4, OpenedWork
<1>11. CASE Resolve(w)
  <2>1. /\ told' = told /\ wk' = [wk EXCEPT ![w] = Resting] /\ Resting.pc = "idle"
        /\ pipe' = pipe \/ \E n : Put([cmd |-> "C", id |-> wk[w].id, n |-> n])
    BY <1>11 DEF Resolve, Goto, Resting
  <2>2. ASSUME NEW n PROVE [cmd |-> "C", id |-> wk[w].id, n |-> n].cmd \notin Setup \cup Counted
    BY DEF Setup, Counted
  <2> QED
    BY <2>1, <2>2, OpenedWork
<1> QED
  BY <1>1, <1>3, <1>4, <1>5, <1>6, <1>7, <1>8, <1>9, <1>10, <1>11 DEF Worker

LEMMA OpenedNext ==
  ASSUME BaseInv, TypeOK', OpenedInv, [Next]_vars
  PROVE  OpenedInv'
<1>1. CASE (\E id \in Ids : Network(id)) \/ UNCHANGED vars
  <2>1. UNCHANGED <<pipe, told, wk>>
    BY <1>1 DEF Network, vars
  <2> QED
    BY <2>1 DEF OpenedInv
<1> QED
  BY <1>1, OpenedWorker, ThreadPipe, ThreadOpens, OpenedThread DEF Next

LEMMA OpenedInit == Init => OpenedInv
<1> SUFFICES ASSUME Init PROVE OpenedInv
  OBVIOUS
<1>1. DOMAIN pipe = {} /\ \A w \in Workers : wk[w].pc = "idle"
  BY DEF Init, Resting
<1> QED
  BY <1>1 DEF OpenedInv

(* The packets of an id that were counted and wait for the socket thread,  *)
(* and the one that it just took.                                          *)
Carries(r, id, p) == r.cmd \in Counted /\ r.id = id /\ r.p = p
InQueue(id, p) ==
  \/ \E w \in Workers : wk[w].pc = "put" /\ Carries(wk[w], id, p)
  \/ \E k \in DOMAIN pipe : Carries(pipe[k], id, p)
Queued(id) == {p \in DOMAIN sent : InQueue(id, p)}
Serving(id) == IF th.pc = "dec" /\ th.id = id THEN 1 ELSE 0
(* dec_sending_ref finds every packet that it serves in the count.         *)
CountAt(i, id) ==
  slot[i].id = id /\ slot[i].protocol = "tcp" =>
    H(id) = i /\ slot[i].tag = Tag(id) /\ slot[i].sending >= Cardinality(Queued(id)) + Serving(id)
CountInv == \A i \in Slots : \A id \in Nat : CountAt(i, id)

LEMMA QueuedFinite ==
  ASSUME TypeOK
  PROVE  \A id : IsFiniteSet(Queued(id)) /\ Cardinality(Queued(id)) \in Nat
<1> TAKE id
<1>1. DOMAIN sent = 1 .. Len(sent) /\ Len(sent) \in Int /\ 1 \in Int
  BY DEF TypeOK
<1>2. IsFiniteSet(DOMAIN sent)
  BY <1>1, FS_Interval
<1>3. Queued(id) \in SUBSET DOMAIN sent
  BY DEF Queued
<1>4. IsFiniteSet(Queued(id))
  BY <1>2, <1>3, FS_Subset
<1> QED
  BY <1>4, FS_CardinalityType

(* A packet in the queue is one that was sent.                             *)
LEMMA QueuedSent ==
  ASSUME OwnInv, NEW id, NEW p, InQueue(id, p)
  PROVE  p \in DOMAIN sent
<1>1. Counted \subseteq Data
  BY DEF Counted, Data
<1>2. CASE \E w \in Workers : wk[w].pc = "put" /\ Carries(wk[w], id, p)
  BY <1>1, <1>2 DEF Carries, InCall, OwnInv, FreedOnce, Owned
<1>3. CASE \E k \in DOMAIN pipe : Carries(pipe[k], id, p)
  BY <1>1, <1>3 DEF Carries, InRequest, OwnInv, FreedOnce, Owned
<1> QED
  BY <1>2, <1>3 DEF InQueue

LEMMA QueuedLess ==
  ASSUME OwnInv, \A id, p : InQueue(id, p)' => InQueue(id, p)
  PROVE  \A id : Queued(id)' \subseteq Queued(id)
BY QueuedSent DEF Queued

(* A step that leaves the counts of the sockets, and adds nothing.         *)
CountsKept ==
  \A i \in Slots : /\ slot'[i].id = slot[i].id /\ slot'[i].protocol = slot[i].protocol
                   /\ slot'[i].tag = slot[i].tag /\ slot'[i].sending = slot[i].sending

LEMMA SameTags == ASSUME scene' = scene PROVE \A id : H(id)' = H(id) /\ Tag(id)' = Tag(id)
BY DEF H, Tag, NSlot

(* Every count covers what was in the queue before.                        *)
LEMMA CountFrom ==
  ASSUME TypeOK, scene' = scene,
         \A id : Queued(id)' \subseteq Queued(id),
         \A i \in Slots : \A id \in Nat : slot'[i].id = id /\ slot'[i].protocol = "tcp" =>
            /\ H(id) = i /\ slot'[i].tag = Tag(id)
            /\ slot'[i].sending \in Nat /\ slot'[i].sending >= Cardinality(Queued(id)) + Serving(id)'
  PROVE  CountInv'
<1>1. Slots' = Slots
  BY SameScene
<1>2. ASSUME NEW i \in Slots, NEW id \in Nat
      PROVE  CountAt(i, id)'
  <2>0. SUFFICES ASSUME slot'[i].id = id, slot'[i].protocol = "tcp"
                 PROVE  H(id)' = i /\ slot'[i].tag = Tag(id)' /\ slot'[i].sending >= Cardinality(Queued(id)') + Serving(id)'
    BY DEF CountAt
  <2>1. /\ H(id) = i /\ slot'[i].tag = Tag(id) /\ slot'[i].sending \in Nat
        /\ slot'[i].sending >= Cardinality(Queued(id)) + Serving(id)'
    BY <2>0
  <2>3. Queued(id)' \in SUBSET Queued(id)
    OBVIOUS
  <2>4. Cardinality(Queued(id)') <= Cardinality(Queued(id)) /\ Cardinality(Queued(id)') \in Nat /\ Cardinality(Queued(id)) \in Nat
    BY <2>3, QueuedFinite, FS_Subset, FS_CardinalityType
  <2>5. Serving(id)' \in 0 .. 1
    BY DEF Serving
  <2>7. H(id)' = H(id) /\ Tag(id)' = Tag(id)
    BY SameTags
  <2> QED
    BY <2>1, <2>4, <2>5, <2>7
<1> QED
  BY <1>1, <1>2 DEF CountInv

LEMMA CountLess ==
  ASSUME TypeOK, CountInv, scene' = scene, CountsKept,
         \A id : Queued(id)' \subseteq Queued(id), \A id : Serving(id)' <= Serving(id)
  PROVE  CountInv'
<1>0. \A id : Serving(id) \in 0 .. 1 /\ Serving(id)' \in 0 .. 1 /\ Cardinality(Queued(id)) \in Nat
  BY QueuedFinite DEF Serving
<1>1. \A i \in Slots : slot[i].sending \in Nat
  BY DEF TypeOK, Sockets
<1>2. ASSUME NEW i \in Slots, NEW id \in Nat, slot'[i].id = id, slot'[i].protocol = "tcp"
      PROVE  /\ H(id) = i /\ slot'[i].tag = Tag(id)
             /\ slot'[i].sending \in Nat /\ slot'[i].sending >= Cardinality(Queued(id)) + Serving(id)'
  BY <1>0, <1>1, <1>2 DEF CountInv, CountAt, CountsKept
<1> QED
  BY <1>2, CountFrom

(* A slot whose socket becomes y.                                          *)
LEMMA CountSet ==
  ASSUME TypeOK, CountInv, scene' = scene, NEW i \in Slots, NEW y, slot' = [slot EXCEPT ![i] = y],
         \A id : Queued(id)' \subseteq Queued(id), \A id : Serving(id)' <= Serving(id),
         \A id \in Nat : y.id = id /\ y.protocol = "tcp" =>
            /\ H(id) = i /\ y.tag = Tag(id)
            /\ y.sending \in Nat /\ y.sending >= Cardinality(Queued(id)) + Serving(id)'
  PROVE  CountInv'
<1>0. \A id : Serving(id) \in 0 .. 1 /\ Serving(id)' \in 0 .. 1 /\ Cardinality(Queued(id)) \in Nat
  BY QueuedFinite DEF Serving
<1>1. \A j \in Slots : slot[j].sending \in Nat
  BY DEF TypeOK, Sockets
<1>2. \A j \in Slots : slot'[j] = IF j = i THEN y ELSE slot[j]
  BY DEF TypeOK
<1>3. ASSUME NEW j \in Slots, NEW id \in Nat, slot'[j].id = id, slot'[j].protocol = "tcp"
      PROVE  /\ H(id) = j /\ slot'[j].tag = Tag(id)
             /\ slot'[j].sending \in Nat /\ slot'[j].sending >= Cardinality(Queued(id)) + Serving(id)'
  <2>1. CASE j = i
    BY <1>2, <1>3, <2>1
  <2>2. CASE j # i
    BY <1>0, <1>1, <1>2, <1>3, <2>2 DEF CountInv, CountAt
  <2> QED
    BY <2>1, <2>2
<1> QED
  BY <1>3, CountFrom

(* Nothing is queued for an id that is not open.                           *)
LEMMA QueuedNone ==
  ASSUME BaseInv, OpenedInv, NEW id, id \notin 1 .. alloc \/ ~told[id].open
  PROVE  Queued(id) = {}
<1>1. ASSUME NEW p, InQueue(id, p) PROVE FALSE
  <2>1. CASE \E w \in Workers : wk[w].pc = "put" /\ Carries(wk[w], id, p)
    BY <2>1 DEF Carries, OpenedInv, BaseInv, LockInv
  <2>2. CASE \E k \in DOMAIN pipe : Carries(pipe[k], id, p)
    BY <2>2 DEF Carries, Counted, OpenedInv, BaseInv, PipeInv
  <2> QED
    BY <1>1, <2>1, <2>2 DEF InQueue
<1> QED
  BY <1>1 DEF Queued

(* A worker that adds nothing, or puts into the pipe what it had counted.  *)
LEMMA QueueWork ==
  ASSUME TypeOK, NEW w \in Workers, NEW r, wk' = wk \/ wk' = [wk EXCEPT ![w] = r],
         r.pc = "put" => r.cmd \notin Counted \/ r = wk[w],
         pipe' = pipe \/ \E q : Put(q) /\ (q.cmd \in Counted => wk[w].pc = "put" /\ Carries(wk[w], q.id, q.p))
  PROVE  \A id, p : InQueue(id, p)' => InQueue(id, p)
<1> SUFFICES ASSUME NEW id, NEW p, InQueue(id, p)' PROVE InQueue(id, p)
  OBVIOUS
<1>1. \A v \in Workers : wk'[v] = wk[v] \/ (v = w /\ wk'[v] = r)
  BY DEF TypeOK
<1>2. ASSUME NEW v \in Workers, wk'[v].pc = "put", Carries(wk'[v], id, p)
      PROVE  InQueue(id, p)
  <2>1. wk'[v] = wk[v]
    BY <1>1, <1>2 DEF Carries
  <2> QED
    BY <1>2, <2>1 DEF InQueue
<1>3. ASSUME NEW k \in DOMAIN pipe', Carries(pipe'[k], id, p)
      PROVE  InQueue(id, p)
  <2>1. CASE \E j \in DOMAIN pipe : pipe'[k] = pipe[j]
    BY <1>3, <2>1 DEF InQueue
  <2>2. CASE \A j \in DOMAIN pipe : pipe'[k] # pipe[j]
    <3>1. PICK q : Put(q) /\ (q.cmd \in Counted => wk[w].pc = "put" /\ Carries(wk[w], q.id, q.p))
      BY <2>2
    <3>2. pipe'[k] = q
      BY <2>2, <3>1, PipeEntries
    <3>3. q.cmd \in Counted /\ q.id = id /\ q.p = p
      BY <1>3, <3>2 DEF Carries
    <3> QED
      BY <3>1, <3>3 DEF InQueue
  <2> QED
    BY <2>1, <2>2
<1>4. \/ \E v \in Workers : wk'[v].pc = "put" /\ Carries(wk'[v], id, p)
      \/ \E k \in DOMAIN pipe' : Carries(pipe'[k], id, p)
  BY DEF InQueue, Carries
<1> QED
  BY <1>2, <1>3, <1>4

LEMMA CountWork ==
  ASSUME BaseInv, OwnInv, CountInv, WorkSteady, UNCHANGED <<scene, th>>,
         \A i \in Slots : slot'[i].sending = slot[i].sending,
         NEW w \in Workers, NEW r, wk' = wk \/ wk' = [wk EXCEPT ![w] = r],
         r.pc = "put" => r.cmd \notin Counted \/ r = wk[w],
         pipe' = pipe \/ \E q : Put(q) /\ (q.cmd \in Counted => wk[w].pc = "put" /\ Carries(wk[w], q.id, q.p))
  PROVE  CountInv'
<1>1. \A id, p : InQueue(id, p)' => InQueue(id, p)
  BY QueueWork, Zenon DEF BaseInv
<1>2. \A id : Queued(id)' \subseteq Queued(id)
  BY <1>1, QueuedLess
<1>3. \A id : Serving(id)' <= Serving(id)
  BY DEF Serving
<1>4. CountsKept
  BY DEF CountsKept, WorkSteady
<1> QED
  BY <1>2, <1>3, <1>4, CountLess DEF BaseInv

(* inc_sending_ref: one more packet, and one more in the count if the slot *)
(* serves its id.                                                          *)
LEMMA IncSendingCount ==
  ASSUME BaseInv, OwnInv, CountInv, NEW w \in Workers, IncSending(w)
  PROVE  CountInv'
<1> USE DEF BaseInv
<1> DEFINE r == wk[w]
           i == H(r.id)
           mine == slot[i].protocol = "tcp" /\ slot[i].tag = Tag(r.id)
           More(id) == IF id = r.id THEN {r.p} ELSE {}
<1>1. /\ r.pc = "inc" /\ wk' = [wk EXCEPT ![w] = [r EXCEPT !.pc = "put"]]
      /\ slot' = IF mine THEN [slot EXCEPT ![i].sending = @ + 1] ELSE slot
      /\ UNCHANGED <<scene, pipe, th, sent>>
  BY DEF IncSending, Goto
<1>2. r \in Working /\ r.id \in Nat /\ i \in Slots
  <2>1. r \in Working
    <3>1. wk[w] \in WorkerRecs /\ wk[w].pc = "inc"
      BY <1>1 DEF TypeOK
    <3> HIDE DEF r
    <3>2. wk[w] \in Working
      BY <3>1 DEF WorkerRecs, Resting
    <3> QED
      BY <3>2 DEF r
  <2>2. r.id \in Ids /\ Ids \subseteq Nat
    BY <2>1, IdsAreNat DEF Working, TypeOK
  <2> QED
    BY <2>1, <2>2, Hash DEF TypeOK
<1>3. PICK s : s = [r EXCEPT !.pc = "put"]
  OBVIOUS
<1>4. s.cmd = r.cmd /\ s.id = r.id /\ s.p = r.p
  BY <1>2, <1>3 DEF Working
<1>5. ASSUME NEW id PROVE Queued(id)' \subseteq Queued(id) \cup More(id)
  <2> SUFFICES ASSUME NEW p \in DOMAIN sent, InQueue(id, p)', p \notin More(id) PROVE InQueue(id, p)
    BY <1>1 DEF Queued
  <2>1. \A v \in Workers : wk'[v] = IF v = w THEN s ELSE wk[v]
    BY <1>1, <1>3 DEF TypeOK
  <2>2. \/ \E v \in Workers : wk'[v].pc = "put" /\ Carries(wk'[v], id, p)
        \/ \E k \in DOMAIN pipe : Carries(pipe[k], id, p)
    BY <1>1 DEF InQueue, Carries
  <2>3. ~Carries(s, id, p)
    BY <1>4 DEF Carries
  <2> QED
    BY <2>1, <2>2, <2>3 DEF InQueue
<1>6. Slots' = Slots
  BY <1>1, SameScene
<1>7. ASSUME NEW j \in Slots, NEW id \in Nat PROVE CountAt(j, id)'
  <2>0. SUFFICES ASSUME slot'[j].id = id, slot'[j].protocol = "tcp"
                 PROVE  H(id)' = j /\ slot'[j].tag = Tag(id)' /\ slot'[j].sending >= Cardinality(Queued(id)') + Serving(id)'
    BY DEF CountAt
  <2>1. H(id)' = H(id) /\ Tag(id)' = Tag(id) /\ Serving(id)' = Serving(id)
    BY <1>1, SameTags DEF Serving
  <2>2. /\ slot[j] \in Sockets /\ slot'[j].id = slot[j].id /\ slot'[j].protocol = slot[j].protocol /\ slot'[j].tag = slot[j].tag
        /\ slot'[j].sending = slot[j].sending + (IF mine /\ j = i THEN 1 ELSE 0)
    <3>1. slot[j] \in Sockets
      BY DEF TypeOK
    <3>2. CASE mine /\ j = i
      <4>1. PICK y : y = [slot[j] EXCEPT !.sending = @ + 1]
        OBVIOUS
      <4>2. slot'[j] = y
        BY <1>1, <1>2, <3>2, <4>1 DEF TypeOK
      <4>3. y.id = slot[j].id /\ y.protocol = slot[j].protocol /\ y.tag = slot[j].tag /\ y.sending = slot[j].sending + 1
        BY <3>1, <4>1 DEF Sockets
      <4> QED
        BY <3>1, <3>2, <4>2, <4>3
    <3>3. CASE ~(mine /\ j = i)
      <4>1. slot'[j] = slot[j]
        BY <1>1, <3>3 DEF TypeOK
      <4>2. slot[j].sending \in Nat
        BY <3>1 DEF Sockets
      <4> QED
        BY <3>1, <3>3, <4>1, <4>2
    <3> QED
      BY <3>2, <3>3
  <2>3. H(id) = j /\ slot[j].tag = Tag(id) /\ slot[j].sending >= Cardinality(Queued(id)) + Serving(id)
    BY <2>0, <2>2 DEF CountInv, CountAt
  <2>4. slot[j].sending \in Nat /\ Serving(id) \in 0 .. 1
    BY <2>2 DEF Sockets, Serving
  <2>5. id = r.id => mine /\ j = i
    BY <2>0, <2>2, <2>3
  <2>6. IsFiniteSet(Queued(id)) /\ Cardinality(Queued(id)) \in Nat
    BY QueuedFinite
  <2>7. CASE id = r.id
    <3>1. IsFiniteSet(Queued(id) \cup {r.p}) /\ Cardinality(Queued(id) \cup {r.p}) <= Cardinality(Queued(id)) + 1
      <4>1. PICK S, p : S = Queued(id) /\ p = r.p
        OBVIOUS
      <4>2. IsFiniteSet(S \cup {p}) /\ Cardinality(S \cup {p}) = IF p \in S THEN Cardinality(S) ELSE Cardinality(S) + 1
        BY <2>6, <4>1, FS_AddElement, Zenon
      <4>3. Cardinality(S) \in Nat
        BY <2>6, <4>1
      <4>4. Cardinality(S \cup {p}) <= Cardinality(S) + 1
        BY <4>2, <4>3
      <4> QED
        BY <4>1, <4>2, <4>4
    <3>2. Queued(id)' \in SUBSET (Queued(id) \cup {r.p})
      BY <1>5, <2>7
    <3>3. Cardinality(Queued(id)') <= Cardinality(Queued(id) \cup {r.p}) /\ Cardinality(Queued(id)') \in Nat
          /\ Cardinality(Queued(id) \cup {r.p}) \in Nat
      BY <3>1, <3>2, FS_Subset, FS_CardinalityType
    <3> HIDE DEF mine, i, r, More
    <3>4. slot'[j].sending = slot[j].sending + 1
      BY <2>2, <2>5, <2>7
    <3> QED
      BY <2>1, <2>2, <2>3, <2>4, <2>6, <3>1, <3>3, <3>4
  <2>8. CASE id # r.id
    <3>1. Queued(id)' \in SUBSET Queued(id)
      BY <1>5, <2>8
    <3>2. Cardinality(Queued(id)') <= Cardinality(Queued(id)) /\ Cardinality(Queued(id)') \in Nat
      BY <2>6, <3>1, FS_Subset, FS_CardinalityType
    <3> HIDE DEF mine, i, r, More
    <3>3. slot'[j].sending >= slot[j].sending /\ slot'[j].sending \in Nat
      BY <2>2, <2>4
    <3> QED
      BY <2>1, <2>2, <2>3, <2>4, <2>6, <3>2, <3>3
  <2> QED
    BY <2>7, <2>8
<1> QED
  BY <1>6, <1>7 DEF CountInv

LEMMA ReserveCount ==
  ASSUME BaseInv, OwnInv, CountInv, NEW w \in Workers, NEW kind, OpenRequest(w, kind)
  PROVE  CountInv'
<1> USE DEF BaseInv
<1>1. PICK new : wk' = wk /\ UNCHANGED <<scene, th>> /\ Put([cmd |-> kind, id |-> new]) /\ kind \in scene.kinds
  BY DEF OpenRequest
<1>2. kind \notin Counted
  <2>1. scene.kinds \subseteq {"O", "L", "B", "U"}
    BY SocketAssumption DEF TypeOK, SceneRecords
  <2> QED
    BY <1>1, <2>1 DEF Counted
<1>3. \A id, p : InQueue(id, p)' => InQueue(id, p)
  <2>1. [cmd |-> kind, id |-> new].cmd \notin Counted
    BY <1>2
  <2> QED
    BY <1>1, <2>1, QueueWork
<1>4. \A id : Queued(id)' \subseteq Queued(id)
  BY <1>3, QueuedLess
<1>5. \A id : Serving(id)' <= Serving(id)
  BY <1>1 DEF Serving
<1>6. PICK id, y : Fresh(id, y) /\ y.protocol = "unknown"
  BY ReserveFresh
<1>7. H(id) \in Slots /\ slot' = [slot EXCEPT ![H(id)] = y] /\ y.protocol # "tcp"
  BY <1>6 DEF Fresh
<1> QED
  BY <1>1, <1>4, <1>5, <1>7, CountSet

LEMMA WorkerCount ==
  ASSUME BaseInv, OwnInv, CountInv, NEW w \in Workers, Worker(w)
  PROVE  CountInv'
<1> USE DEF BaseInv
<1>1. CASE Connect(w) \/ Listen(w) \/ BindFd(w) \/ Udp(w)
  BY <1>1, ReserveCount DEF Connect, Listen, BindFd, Udp
<1>2. ASSUME slot' = slot PROVE WorkSteady /\ \A i \in Slots : slot'[i].sending = slot[i].sending
  BY <1>2, SameSlots
<1>3. ASSUME NEW id \in 1 .. alloc, StartPause(w, id) \/ Close(w, id) \/ Shutdown(w, id)
      PROVE  CountInv'
  <2>1. UNCHANGED <<scene, th, slot, wk>> /\ \E cmd \in {"R", "S", "K", "X"} : Put([cmd |-> cmd, id |-> id])
    BY <1>3 DEF StartPause, Close, Shutdown, Request, sockVars
  <2>2. \A cmd \in {"R", "S", "K", "X"} : [cmd |-> cmd, id |-> id].cmd \notin Counted
    BY DEF Counted
  <2> QED
    BY <1>2, <2>1, <2>2, CountWork
<1>4. CASE Exit(w)
  <2>1. UNCHANGED <<scene, th, slot, wk>> /\ Put([cmd |-> "exit"])
    BY <1>4 DEF Exit, sockVars
  <2>2. [cmd |-> "exit"].cmd \notin Counted
    BY DEF Counted
  <2> QED
    BY <1>2, <2>1, <2>2, CountWork
<1>5. ASSUME NEW id \in 1 .. alloc, Send(w, id) \/ SendLow(w, id) \/ UdpSend(w, id)
      PROVE  CountInv'
  <2>0. PICK kind \in Data : \E bad, direct : Sending(w, id, kind, bad, direct)
    BY <1>5 DEF Send, SendLow, UdpSend, Data
  <2>1. PICK bad, direct : Sending(w, id, kind, bad, direct)
    BY <2>0
  <2>2. PICK r : r = [pc |-> IF direct THEN "check" ELSE Queueing(kind), id |-> id, p |-> Len(sent) + 1, cmd |-> kind]
    OBVIOUS
  <2>3. UNCHANGED <<scene, th, slot, pipe>> /\ (wk' = wk \/ wk' = [wk EXCEPT ![w] = r])
    BY <2>1, <2>2 DEF Sending, Goto
  <2>4. r.pc = "put" => r.cmd \notin Counted
    BY <2>2 DEF Queueing, Counted
  <2> HIDE <2>2
  <2> QED
    BY <1>2, <2>3, <2>4, CountWork
<1>6. ASSUME NEW id \in 1 .. alloc, UdpConnect(w, id)
      PROVE  CountInv'
  <2>1. /\ UNCHANGED <<scene, th, pipe>> /\ slot' = [slot EXCEPT ![H(id)].udpconnecting = @ + 1]
        /\ wk' = [wk EXCEPT ![w] = [pc |-> "resolve", id |-> id, p |-> 0, cmd |-> "C"]]
    BY <1>6 DEF UdpConnect, Goto
  <2>2. WorkSteady
    BY <1>6, UdpConnectWork DEF WorkStep
  <2>3. \A i \in Slots : slot'[i].sending = slot[i].sending
    BY <2>1 DEF TypeOK, Sockets
  <2> QED
    BY <2>1, <2>2, <2>3, CountWork
<1>7. CASE DoubleCheck(w)
  <2>1. /\ UNCHANGED <<scene, th, pipe, slot>> /\ wk[w].pc = "check"
        /\ \E pc \in {"write", Queueing(wk[w].cmd)} : wk' = [wk EXCEPT ![w] = [wk[w] EXCEPT !.pc = pc]]
    BY <1>7 DEF DoubleCheck, Goto
  <2>2. wk[w] \in Working
    BY <2>1 DEF TypeOK, WorkerRecs, Resting
  <2>3. PICK pc \in {"write", Queueing(wk[w].cmd)} : wk' = [wk EXCEPT ![w] = [wk[w] EXCEPT !.pc = pc]]
    BY <2>1
  <2>4. PICK r : r = [wk[w] EXCEPT !.pc = pc]
    OBVIOUS
  <2>5. r.cmd = wk[w].cmd /\ r.pc = pc
    BY <2>2, <2>4 DEF Working
  <2>6. r.pc = "put" => r.cmd \notin Counted
    BY <2>3, <2>5 DEF Queueing, Counted
  <2>7. wk' = [wk EXCEPT ![w] = r]
    BY <2>3, <2>4
  <2> QED
    BY <1>2, <2>1, <2>6, <2>7, CountWork
<1>8. CASE IncSending(w)
  BY <1>8, IncSendingCount
<1>9. CASE DirectWrite(w)
  <2>1. wk[w].pc = "write" /\ UNCHANGED <<scene, th, pipe>>
    BY <1>9 DEF DirectWrite
  <2>2. wk[w] \in Working
    BY <2>1 DEF TypeOK, WorkerRecs, Resting
  <2>3. PICK r : /\ wk' = [wk EXCEPT ![w] = r]
                 /\ \/ r = Resting
                    \/ r = [wk[w] EXCEPT !.pc = "put"] /\ wk[w].cmd = "A"
                    \/ r = [wk[w] EXCEPT !.pc = "inc", !.cmd = "W"]
    BY <1>9, Zenon DEF DirectWrite, Goto
  <2>4. r.pc = "put" => r.cmd \notin Counted
    <3>1. CASE r = Resting
      BY <3>1 DEF Resting
    <3>2. CASE r = [wk[w] EXCEPT !.pc = "put"] /\ wk[w].cmd = "A"
      BY <2>2, <3>2 DEF Working, Counted
    <3>3. CASE r = [wk[w] EXCEPT !.pc = "inc", !.cmd = "W"]
      BY <2>2, <3>3 DEF Working
    <3> QED
      BY <2>3, <3>1, <3>2, <3>3
  <2>5. wk' = [wk EXCEPT ![w] = r]
    BY <2>3
  <2>6. WorkSteady
    BY <1>9, DirectWriteWork DEF WorkStep
  <2>7. slot' = slot \/ \E b : slot' = [slot EXCEPT ![H(wk[w].id)].dw = b]
    BY <1>9, Zenon DEF DirectWrite
  <2>8. \A i \in Slots : slot'[i].sending = slot[i].sending
    <3>1. ASSUME NEW b, slot' = [slot EXCEPT ![H(wk[w].id)].dw = b], NEW i \in Slots
          PROVE  slot'[i].sending = slot[i].sending
      <4>1. PICK y : y = [slot[i] EXCEPT !.dw = b]
        OBVIOUS
      <4>2. y.sending = slot[i].sending
        BY <4>1 DEF TypeOK, Sockets
      <4>3. slot'[i] = y \/ slot'[i] = slot[i]
        BY <3>1, <4>1 DEF TypeOK
      <4> QED
        BY <4>2, <4>3
    <3> QED
      BY <2>7, <3>1
  <2> HIDE <2>3
  <2> QED
    BY <2>1, <2>4, <2>5, <2>6, <2>8, CountWork
<1>10. CASE PutRequest(w)
  <2>1. /\ UNCHANGED <<scene, th, slot>> /\ wk[w].pc = "put" /\ wk' = [wk EXCEPT ![w] = Resting] /\ Resting.pc = "idle"
        /\ Put([cmd |-> wk[w].cmd, id |-> wk[w].id, p |-> wk[w].p])
    BY <1>10 DEF PutRequest, Goto, sockVars, Resting
  <2>2. PICK q : q = [cmd |-> wk[w].cmd, id |-> wk[w].id, p |-> wk[w].p]
    OBVIOUS
  <2>3. q.cmd \in Counted => Carries(wk[w], q.id, q.p)
    BY <2>2 DEF Carries
  <2>4. Put(q)
    BY <2>1, <2>2
  <2> QED
    BY <1>2, <2>1, <2>3, <2>4, CountWork
<1>11. CASE Resolve(w)
  <2>1. /\ UNCHANGED <<scene, th, slot>> /\ wk' = [wk EXCEPT ![w] = Resting] /\ Resting.pc = "idle"
        /\ pipe' = pipe \/ \E n : Put([cmd |-> "C", id |-> wk[w].id, n |-> n])
    BY <1>11 DEF Resolve, Goto, Resting
  <2>2. ASSUME NEW n PROVE [cmd |-> "C", id |-> wk[w].id, n |-> n].cmd \notin Counted
    BY DEF Counted
  <2> QED
    BY <1>2, <2>1, <2>2, CountWork
<1> QED
  BY <1>1, <1>3, <1>4, <1>5, <1>6, <1>7, <1>8, <1>9, <1>10, <1>11 DEF Worker

LEMMA QueueThread ==
  ASSUME TypeOK, OwnInv, SocketThread
  PROVE  /\ scene' = scene /\ \A id : Queued(id)' \subseteq Queued(id)
<1>1. UNCHANGED <<scene, wk>> /\ (pipe' = pipe \/ (pipe # <<>> /\ pipe' = Tail(pipe)))
  BY ThreadPipe
<1>2. ASSUME NEW id, NEW p, InQueue(id, p)' PROVE InQueue(id, p)
  <2>1. \/ \E v \in Workers : wk[v].pc = "put" /\ Carries(wk[v], id, p)
        \/ \E k \in DOMAIN pipe' : Carries(pipe'[k], id, p)
    BY <1>1, <1>2 DEF InQueue, Carries
  <2>2. \A k \in DOMAIN pipe' : \E j \in DOMAIN pipe : pipe'[k] = pipe[j]
    BY <1>1, PipeEntries
  <2> QED
    BY <2>1, <2>2 DEF InQueue
<1> QED
  BY <1>1, <1>2, QueuedLess

LEMMA CountThread ==
  ASSUME BaseInv, OwnInv, CountInv, SocketThread, ThreadSteady, SendingKept, th'.pc # "dec"
  PROVE  CountInv'
<1>1. CountsKept
  BY DEF ThreadSteady, SteadyAt, SendingKept, CountsKept
<1>2. \A id : Serving(id)' <= Serving(id)
  BY DEF Serving
<1> QED
  BY <1>1, <1>2, QueueThread, CountLess DEF BaseInv

(* send_socket takes a packet out of the queue.                            *)
LEMMA SendSocketCount ==
  ASSUME BaseInv, OwnInv, CountInv, SendSocket
  PROVE  CountInv'
<1> USE DEF BaseInv
<1>1. /\ pipe # <<>> /\ pipe' = Tail(pipe) /\ Req.cmd \in Data /\ th.pc = "poll" /\ UNCHANGED <<scene, wk, sent>>
      /\ th' = IF Req.cmd = "A" THEN th ELSE [th EXCEPT !.pc = "dec", !.slot = H(Req.id), !.id = Req.id]
  BY SendSocketSlot DEF Ctrl, workVars
<1>2. ThreadSteady /\ SendingKept /\ SocketThread
  BY SendSocketStep, SendSocketLoad DEF ThreadStep, SocketThread
<1>3. CASE Req.cmd = "A"
  BY <1>1, <1>2, <1>3, CountThread
<1>4. CASE Req.cmd # "A"
  <2>1. Req.cmd \in Counted /\ \A id : Serving(id) = 0 /\ Serving(id)' = IF id = Req.id THEN 1 ELSE 0
    <3>1. th'.pc = "dec" /\ th'.id = Req.id
      BY <1>1, <1>4 DEF TypeOK, Positions
    <3> QED
      BY <1>1, <1>4, <3>1 DEF Serving, Counted, Data
  <2>2. \A id : Queued(id)' \subseteq Queued(id)
    BY <1>2, QueueThread
  <2>9. PICK n, p : n = Req.id /\ p = Req.p
    OBVIOUS
  <2>8. 1 \in DOMAIN pipe
    <3>1. DOMAIN pipe = 1 .. Len(pipe) /\ Len(pipe) \in Nat /\ Len(pipe) > 0
      BY <1>1, PipeEntries
    <3> QED
      BY <3>1
  <2>3. Req = pipe[1] /\ \A k \in DOMAIN pipe' : k + 1 \in DOMAIN pipe /\ k + 1 # 1 /\ pipe'[k] = pipe[k + 1]
    BY <1>1, PipeEntries
  <2>4. p \in Queued(n)
    <3>1. InQueue(n, p)
      BY <2>1, <2>3, <2>8, <2>9 DEF InQueue, Carries
    <3> QED
      BY <3>1, QueuedSent DEF Queued
  <2>5. p \notin Queued(n)'
    <3> SUFFICES ASSUME InQueue(n, p)' PROVE FALSE
      BY DEF Queued
    <3>2. InRequest(Req) = {p} /\ Counted \subseteq Data
      BY <1>1, <2>9 DEF InRequest, Counted, Data
    <3>3. \/ \E v \in Workers : wk[v].pc = "put" /\ wk[v].cmd \in Counted /\ wk[v].p = p
          \/ \E k \in DOMAIN pipe' : pipe'[k].cmd \in Counted /\ pipe'[k].p = p
      BY <1>1 DEF InQueue, Carries
    <3>4. CASE \E v \in Workers : wk[v].pc = "put" /\ wk[v].cmd \in Counted /\ wk[v].p = p
      BY <2>3, <2>8, <3>2, <3>4 DEF OwnInv, RequestsApart, InCall
    <3>5. CASE \E k \in DOMAIN pipe' : pipe'[k].cmd \in Counted /\ pipe'[k].p = p
      <4>1. PICK k \in DOMAIN pipe' : pipe'[k].cmd \in Counted /\ pipe'[k].p = p
        BY <3>5
      <4>2. PICK j \in DOMAIN pipe : j # 1 /\ pipe[j].cmd \in Counted /\ pipe[j].p = p
        BY <2>3, <4>1
      <4>3. InRequest(pipe[j]) = {p}
        BY <3>2, <4>2 DEF InRequest
      <4> QED
        BY <2>3, <2>8, <3>2, <4>2, <4>3 DEF OwnInv, RequestsApart
    <3> QED
      BY <3>3, <3>4, <3>5
  <2>6. ASSUME NEW i \in Slots, NEW id \in Nat PROVE CountAt(i, id)'
    <3>0. SUFFICES ASSUME slot'[i].id = id, slot'[i].protocol = "tcp"
                   PROVE  H(id)' = i /\ slot'[i].tag = Tag(id)' /\ slot'[i].sending >= Cardinality(Queued(id)') + Serving(id)'
      BY DEF CountAt
    <3>1. H(id)' = H(id) /\ Tag(id)' = Tag(id)
      BY <1>1, SameTags
    <3>2. slot'[i].tag = slot[i].tag /\ slot'[i].sending = slot[i].sending /\ slot[i].sending \in Nat
          /\ slot[i].id = id /\ slot[i].protocol = "tcp"
      BY <1>2, <3>0 DEF ThreadSteady, SteadyAt, SendingKept, TypeOK, Sockets
    <3>3. H(id) = i /\ slot[i].tag = Tag(id) /\ slot[i].sending >= Cardinality(Queued(id)) + Serving(id)
      BY <3>2 DEF CountInv, CountAt
    <3>4. IsFiniteSet(Queued(id)) /\ Cardinality(Queued(id)) \in Nat /\ Queued(id)' \in SUBSET Queued(id)
      BY <2>2, QueuedFinite
    <3>5. Cardinality(Queued(id)') <= Cardinality(Queued(id)) /\ Cardinality(Queued(id)') \in Nat
      BY <3>4, FS_Subset, FS_CardinalityType
    <3>6. id = Req.id => Cardinality(Queued(id)') # Cardinality(Queued(id))
      <4>1. Queued(n)' # Queued(n)
        BY <2>4, <2>5
      <4>2. Cardinality(Queued(id)) = Cardinality(Queued(id)') => Queued(id) = Queued(id)'
        BY <3>4, FS_Subset
      <4>3. id = Req.id => id = n
        BY <2>9
      <4> QED
        BY <4>1, <4>2, <4>3, Zenon
    <3> QED
      BY <2>1, <3>1, <3>2, <3>3, <3>4, <3>5, <3>6
  <2>7. Slots' = Slots
    BY <1>1, SameScene
  <2> QED
    BY <2>6, <2>7 DEF CountInv
<1> QED
  BY <1>3, <1>4

(* dec_sending_ref: the count is not 0, and one less.                      *)
LEMMA DecSendingCount ==
  ASSUME BaseInv, OwnInv, CountInv, DecSending
  PROVE  CountInv' /\ failed' = failed
<1> USE DEF BaseInv
<1> DEFINE x == slot[th.slot]
           mine == x.id = th.id /\ x.protocol = "tcp"
<1>1. /\ th.pc = "dec" /\ th.slot \in Slots /\ x \in Sockets /\ th.id \in Nat /\ x.sending \in Nat
      /\ Check("dec_sending_ref: sending # 0", mine => x.sending # 0)
      /\ slot' = IF mine /\ x.sending # 0 THEN [slot EXCEPT ![th.slot].sending = @ - 1] ELSE slot
      /\ th' = Polling
  <2>1. th.pc = "dec"
    BY DEF DecSending
  <2>2. th.slot \in Slots /\ th.id \in Nat
    BY <2>1 DEF TypeOK, Positions
  <2>3. slot[th.slot] \in Sockets
    BY <2>2 DEF TypeOK
  <2>4. slot[th.slot].sending \in Nat
    BY <2>3 DEF Sockets
  <2> QED
    BY <2>1, <2>2, <2>3, <2>4 DEF DecSending
<1>2. \A id : Serving(id) = (IF id = th.id THEN 1 ELSE 0) /\ Serving(id)' = 0
  BY <1>1, PollingType DEF Serving
<1>3. mine => x.sending >= Cardinality(Queued(th.id)) + 1 /\ H(th.id) = th.slot /\ x.tag = Tag(th.id)
  BY <1>1, <1>2 DEF CountInv, CountAt
<1>4. Cardinality(Queued(th.id)) \in Nat
  BY QueuedFinite
<1>10. mine => x.sending # 0
  <2>1. PICK n, m : n = x.sending /\ m = Cardinality(Queued(th.id))
    OBVIOUS
  <2>2. n \in Nat /\ m \in Nat /\ (mine => n >= m + 1)
    BY <1>1, <1>3, <1>4, <2>1
  <2>3. mine => n # 0
    BY <2>2
  <2> QED
    BY <2>1, <2>3
<1>5. failed' = failed
  BY <1>1, <1>10 DEF Check
<1>6. scene' = scene /\ \A id : Queued(id)' \subseteq Queued(id)
  BY QueueThread DEF SocketThread
<1>7. \A id : Serving(id)' <= Serving(id)
  BY <1>2
<1>8. CASE ~mine
  <2>1. slot' = slot
    BY <1>1, <1>8
  <2>2. ThreadSteady /\ SendingKept /\ th'.pc # "dec" /\ SocketThread
    BY <1>1, <2>1, DecSendingStep, PollingType DEF SendingKept, ThreadStep, SocketThread
  <2> QED
    BY <1>5, <2>2, CountThread
<1>9. CASE mine
  <2>1. PICK y : y = [x EXCEPT !.sending = @ - 1]
    OBVIOUS
  <2>3. slot' = [slot EXCEPT ![th.slot] = y]
    BY <1>1, <1>9, <1>10, <2>1 DEF TypeOK
  <2>4. y.id = th.id /\ y.tag = Tag(th.id) /\ y.sending = x.sending - 1
    BY <1>1, <1>3, <1>9, <2>1 DEF Sockets
  <2>5. PICK n, m : n = x.sending /\ m = Cardinality(Queued(th.id))
    OBVIOUS
  <2>6. n \in Nat /\ m \in Nat /\ n >= m + 1
    BY <1>1, <1>3, <1>4, <1>9, <2>5
  <2>7. n - 1 \in Nat /\ n - 1 >= m + 0
    BY <2>6
  <2>8. y.sending \in Nat /\ y.sending >= Cardinality(Queued(th.id)) + 0
    BY <2>4, <2>5, <2>7
  <2> HIDE DEF mine, x
  <2>9. \A id \in Nat : y.id = id /\ y.protocol = "tcp" =>
            /\ H(id) = th.slot /\ y.tag = Tag(id)
            /\ y.sending \in Nat /\ y.sending >= Cardinality(Queued(id)) + Serving(id)'
    BY <1>2, <1>3, <1>9, <2>4, <2>8
  <2> QED
    BY <1>1, <1>5, <1>6, <1>7, <2>3, <2>9, CountSet
<1> QED
  BY <1>8, <1>9

(* A slot that is set up, or given to a connection, starts to count.       *)
LEMMA OpeningCount ==
  ASSUME BaseInv, OwnInv, CountInv, OpenedInv, OpenSocket \/ ListenSocket \/ BindSocket \/ AddUdpSocket
  PROVE  CountInv'
<1> USE DEF BaseInv
<1>1. scene' = scene /\ (\A id : Queued(id)' \subseteq Queued(id))
  BY QueueThread DEF SocketThread
<1>2. th' = th /\ th.pc = "poll" /\ \E cmd \in Opening : Ctrl({cmd})
  BY DEF OpenSocket, ListenSocket, BindSocket, AddUdpSocket, NoSocket, SetUp, Opening, Ctrl
<1>3. pipe # <<>> /\ Req.cmd \in Opening
  BY <1>2 DEF Ctrl
<1>4. \A id : Serving(id) = 0 /\ Serving(id)' = 0
  BY <1>2 DEF Serving
<1>5. PICK y \in Sockets : /\ Fresh(Req.id, y)
                           /\ \/ y.protocol = X.protocol /\ y.tag = X.tag /\ y.sending = X.sending
                              \/ NewCount(Req.id, y) /\ (y.protocol = "udp" \/ Req.cmd # "U")
  BY OpeningFresh
<1>6. /\ Req.id \in Nat /\ H(Req.id) \in Slots /\ X = slot[H(Req.id)] /\ X.id = Req.id
  BY <1>3, ReservedRequest
<1>7. y.sending \in Nat /\ slot' = [slot EXCEPT ![H(Req.id)] = y] /\ y.id = Req.id
  BY <1>5 DEF Fresh, Sockets
<1>8. ASSUME y.protocol = "tcp"
      PROVE  y.tag = Tag(Req.id) /\ y.sending >= Cardinality(Queued(Req.id)) + 0
  <2>1. CASE y.protocol = X.protocol /\ y.tag = X.tag /\ y.sending = X.sending
    BY <1>4, <1>6, <1>8, <2>1 DEF CountInv, CountAt
  <2>2. CASE NewCount(Req.id, y) /\ Req.cmd # "U"
    <3>1. 1 \in DOMAIN pipe /\ Req = pipe[1]
      BY <1>3 DEF Req, TypeOK
    <3>2. Req.cmd \in Setup
      BY <1>3, <2>2 DEF Opening, Setup
    <3>3. ~told[Req.id].open
      BY <3>1, <3>2 DEF OpenedInv
    <3>4. Queued(Req.id) = {}
      BY <3>3, QueuedNone
    <3>5. Cardinality(Queued(Req.id)) = 0
      BY <3>4, FS_EmptySet
    <3> QED
      BY <1>7, <1>8, <2>2, <3>5 DEF NewCount
  <2> QED
    BY <1>5, <1>8, <2>1, <2>2
<1>9. \A id \in Nat : y.id = id /\ y.protocol = "tcp" =>
         /\ H(id) = H(Req.id) /\ y.tag = Tag(id)
         /\ y.sending \in Nat /\ y.sending >= Cardinality(Queued(id)) + Serving(id)'
  BY <1>4, <1>7, <1>8
<1>10. \A id : Serving(id)' <= Serving(id)
  BY <1>4
<1> QED
  BY <1>1, <1>6, <1>7, <1>9, <1>10, CountSet

LEMMA AcceptCount ==
  ASSUME BaseInv, OwnInv, CountInv, OpenedInv, ReportAccept
  PROVE  CountInv'
<1> USE DEF BaseInv
<1>1. scene' = scene /\ (\A id : Queued(id)' \subseteq Queued(id))
  BY QueueThread DEF SocketThread
<1>2. \A id : Serving(id) = 0 /\ Serving(id)' = 0
  BY PollingType DEF ReportAccept, Event, Serving
<1>3. \A id : Serving(id)' <= Serving(id)
  BY <1>2
<1>4. CASE slot' = slot
  <2>1. CountsKept
    BY <1>4 DEF CountsKept
  <2> QED
    BY <1>1, <1>3, <2>1, CountLess
<1>5. CASE slot' # slot
  <2>1. PICK id \in Ids, y \in Sockets : Fresh(id, y) /\ NewCount(id, y) /\ id > alloc
    BY <1>5, AcceptFresh
  <2>2. y.sending \in Nat /\ slot' = [slot EXCEPT ![H(id)] = y] /\ y.id = id /\ H(id) \in Slots
    BY <2>1 DEF Fresh, Sockets
  <2>3. id \notin 1 .. alloc
    BY <2>1, IdsAreNat DEF TypeOK
  <2>4. Cardinality(Queued(id)) = 0
    BY <2>3, QueuedNone, FS_EmptySet
  <2>5. \A n \in Nat : y.id = n /\ y.protocol = "tcp" =>
           /\ H(n) = H(id) /\ y.tag = Tag(n)
           /\ y.sending \in Nat /\ y.sending >= Cardinality(Queued(n)) + Serving(n)'
    BY <1>2, <2>1, <2>2, <2>4 DEF NewCount
  <2> QED
    BY <1>1, <1>3, <2>2, <2>5, CountSet
<1> QED
  BY <1>4, <1>5

LEMMA NotServing ==
  ASSUME TypeOK,
         \/ CloseSocket \/ Resume \/ Pause \/ TriggerWrite \/ SetUdpAddress \/ ForceClose
         \/ SpWait \/ InvalidSocket \/ VoidEvent \/ ExitCmd \/ ClearEvent \/ NoCommand \/ ReservedEvent
         \/ ReportConnect \/ ReadTcp \/ ReadUdp \/ SendBuffer \/ ErrorEvent
  PROVE  th'.pc # "dec"
<1>1. Polling.pc = "poll" /\ [Polling EXCEPT !.pc = "exit"].pc = "exit"
  BY DEF Polling
<1>2. ASSUME NEW i, NEW msg, NEW ctl, BeginForceClose(i, msg, ctl) PROVE th'.pc = "force"
  BY <1>2 DEF BeginForceClose
<1>3. CASE CloseSocket
  <2>1. (th' = th /\ th.pc = "poll") \/ \E i, msg, ctl : BeginForceClose(i, msg, ctl)
    BY <1>3, Zenon DEF CloseSocket, Ctrl
  <2> QED
    BY <1>2, <2>1
<1>4. CASE Resume \/ Pause \/ TriggerWrite \/ SetUdpAddress
  <2>1. th' = th /\ th.pc = "poll"
    BY <1>4 DEF Resume, Pause, TriggerWrite, SetUdpAddress, Adjust, Ctrl
  <2> QED
    BY <2>1
<1>5. CASE InvalidSocket \/ SendBuffer \/ ExitCmd \/ ClearEvent \/ ReservedEvent
  BY <1>1, <1>5 DEF InvalidSocket, SendBuffer, ExitCmd, ClearEvent, ReservedEvent
<1>9. CASE ForceClose
  <2>1. th' = [th EXCEPT !.pc = "clear", !.id = slot[th.slot].id] \/ th' = Polling
    BY <1>9 DEF ForceClose
  <2> QED
    BY <1>1, <2>1 DEF TypeOK, Positions
<1>6. CASE VoidEvent \/ NoCommand
  BY <1>6 DEF VoidEvent, NoCommand
<1>7. CASE SpWait
  <2>1. th.pc = "poll" /\ (th' = th \/ th' = [th EXCEPT !.pc = "fresh"])
    BY <1>7, Zenon DEF SpWait
  <2> QED
    BY <2>1 DEF TypeOK, Positions
<1>8. CASE ReportConnect \/ ReadTcp \/ ReadUdp \/ ErrorEvent
  <2>1. th' = Polling \/ \E i, msg, ctl : BeginForceClose(i, msg, ctl)
    BY <1>8, Zenon DEF ReportConnect, ReadTcp, ReadUdp, ErrorEvent
  <2> QED
    BY <1>1, <1>2, <2>1
<1> QED
  BY <1>3, <1>4, <1>5, <1>6, <1>7, <1>8, <1>9

LEMMA CountNext ==
  ASSUME BaseInv, ArmedInv, OwnInv, LoadInv, OpenedInv, CountInv, [Next]_vars
  PROVE  CountInv'
<1> USE DEF BaseInv
<1>1. CASE (\E id \in Ids : Network(id)) \/ UNCHANGED vars
  <2>1. UNCHANGED <<scene, slot, pipe, wk, sent, th>>
    BY <1>1 DEF Network, vars
  <2>2. \A id, p : InQueue(id, p)' <=> InQueue(id, p)
    BY <2>1 DEF InQueue, Carries
  <2>3. \A id : Queued(id)' \subseteq Queued(id)
    BY <2>1, <2>2 DEF Queued
  <2>4. CountsKept
    BY <2>1 DEF CountsKept
  <2>5. \A id : Serving(id)' <= Serving(id)
    BY <2>1 DEF Serving
  <2> QED
    BY <2>1, <2>3, <2>4, <2>5, CountLess
<1>2. CASE \E w \in Workers : Worker(w)
  BY <1>2, WorkerCount
<1>3. CASE OpenSocket \/ ListenSocket \/ BindSocket \/ AddUdpSocket \/ ReportAccept
  BY <1>3, OpeningCount, AcceptCount
<1>4. CASE SendSocket \/ DecSending
  BY <1>4, SendSocketCount, DecSendingCount
<1>5. CASE CloseSocket \/ Resume \/ Pause \/ TriggerWrite \/ SetUdpAddress \/ ForceClose
  <2>1. ThreadStep
    BY <1>5, CloseSocketStep, ResumeStep, AdjustStep, ForceCloseStep
  <2>2. SendingKept
    BY <1>5, CloseSocketLoad, ResumeLoad, AdjustLoad, ForceCloseLoad
  <2>3. SocketThread /\ th'.pc # "dec"
    BY <1>5, NotServing DEF SocketThread
  <2> QED
    BY <2>1, <2>2, <2>3, CountThread DEF ThreadStep
<1>6. CASE ReportConnect \/ ReadTcp \/ ReadUdp \/ SendBuffer \/ ErrorEvent \/ ReservedEvent
  <2>1. ThreadStep
    BY <1>6, ReportConnectStep, ReadTcpStep, ReadUdpStep, SendBufferStep, ErrorEventStep, ReservedEventStep
  <2>2. SendingKept
    BY <1>6, EventLoad, SendBufferLoad, ReservedEventLoad
  <2>3. SocketThread /\ th'.pc # "dec"
    BY <1>6, NotServing DEF SocketThread
  <2> QED
    BY <2>1, <2>2, <2>3, CountThread DEF ThreadStep
<1>7. CASE SpWait \/ InvalidSocket \/ VoidEvent \/ ExitCmd \/ ClearEvent \/ NoCommand
  <2>1. slot' = slot
    BY <1>7 DEF SpWait, InvalidSocket, VoidEvent, ExitCmd, ClearEvent, NoCommand
  <2>2. SocketThread /\ th'.pc # "dec"
    BY <1>7, NotServing DEF SocketThread
  <2>3. CountsKept
    BY <2>1 DEF CountsKept
  <2>4. \A id : Serving(id)' <= Serving(id)
    BY <2>2 DEF Serving
  <2> QED
    BY <2>2, <2>3, <2>4, QueueThread, CountLess
<1> QED
  BY <1>1, <1>2, <1>3, <1>4, <1>5, <1>6, <1>7 DEF Next, SocketThread

LEMMA AssertionsInit == Init => LoadInv /\ OpenedInv /\ CountInv
<1> SUFFICES ASSUME Init PROVE LoadInv /\ OpenedInv /\ CountInv
  OBVIOUS
<1>1. \A i \in Slots : slot[i].type = "INVALID" /\ slot[i].protocol = "unknown"
  BY DEF Init, FreshSlot
<1> QED
  BY <1>1, OpenedInit DEF LoadInv, CountInv, CountAt, Alive

(* The assertions of force_close, new_fd, dec_sending_ref and send_buffer_ *)
(* hold: the bytes a socket waits to send are those in its lists, only the *)
(* first buffer of the high list was begun, and every packet that          *)
(* dec_sending_ref serves was counted by inc_sending_ref for the same use  *)
(* of the slot, although slots are reused while packets for an earlier id  *)
(* are still in the pipe.  What may fail is what an event of the socket    *)
(* before meets in a slot that is reserved again.                          *)
THEOREM SocketAssertions == Spec => []NoListAssertFails
<1>1. Init => ArmedInv /\ OwnInv /\ LoadInv /\ OpenedInv /\ CountInv /\ NoListAssertFails
  BY ArmedInit, OwnInit, AssertionsInit DEF Init, NoListAssertFails
<1> DEFINE IInv == ArmedInv /\ OwnInv /\ LoadInv /\ OpenedInv /\ CountInv /\ NoListAssertFails
<1>2. BaseInv /\ BaseInv' /\ IInv /\ [Next]_vars => IInv'
  <2> SUFFICES ASSUME BaseInv, BaseInv', IInv, [Next]_vars PROVE IInv'
    OBVIOUS
  <2>1. TypeOK' /\ ArmedInv' /\ OwnInv'
    BY ArmedNext, OwnNext DEF BaseInv
  <2>2. OpenedInv' /\ CountInv'
    BY <2>1, OpenedNext, CountNext
  <2>3. LoadInv' /\ (failed' = failed \/ DecSending \/ ReservedEvent)
    BY <2>1, LoadNext
  <2>4. failed' \subseteq failed \cup {"event of a reserved slot"}
    BY <2>3, DecSendingCount DEF ReservedEvent, Check
  <2> QED
    BY <2>1, <2>2, <2>3, <2>4 DEF NoListAssertFails
<1> QED
  <2>1. Init => IInv
    BY <1>1
  <2> HIDE DEF IInv
  <2>2. IInv => NoListAssertFails
    BY DEF IInv
  <2> QED
    BY <1>2, <2>1, <2>2, SocketBase, PTL DEF Spec

-----------------------------------------------------------------------------
(* The addresses of datagrams.                                             *)

(* The address new_fd and set_udp_address have stored.                     *)
Stored(x) == IF x.type = "RESERVE" THEN 0 ELSE x.address

(* A request that will store an address for id, one that stands before k   *)
(* and brings one no older than c, and that c is not forgotten at k.       *)
Brings(q, id) == q.cmd = "C" /\ q.id = id /\ q.n # 0
AskedBefore(k, id, c) == \E j \in DOMAIN pipe : j < k /\ Brings(pipe[j], id) /\ pipe[j].n >= c
Known(k, id, c) == c <= Stored(slot[H(id)]) \/ AskedBefore(k, id, c)
Serves(id) == slot[H(id)].id = id /\ slot[H(id)].type # "INVALID" /\ net[id].udp

KindInv ==
  /\ \A id \in Ids : id > alloc => ~net[id].udp /\ net[id].conns = 0 /\ wire[id] = <<>>
  /\ \A k \in DOMAIN pipe : pipe[k].cmd \in Opening => (net[pipe[k].id].udp <=> pipe[k].cmd = "U")
  /\ \A i \in Slots : Alive(i) => (net[slot[i].id].udp <=> slot[i].protocol = "udp")

(* Packet p was handed over for id, by a call of this kind.                *)
HandedFor(p, id, kind) ==
  p \in DOMAIN sent /\ sent[p].id = id /\ (kind # "W" => sent[p].kind = kind)

SentInv ==
  /\ \A p \in DOMAIN sent : sent[p].id \in 1 .. alloc /\ (sent[p].udp <=> net[sent[p].id].udp)
  /\ \A k \in DOMAIN pipe : pipe[k].cmd \in Data => HandedFor(pipe[k].p, pipe[k].id, pipe[k].cmd)
  /\ \A w \in Workers : wk[w].pc \notin {"idle", "resolve"} =>
        HandedFor(wk[w].p, wk[w].id, wk[w].cmd) /\ sent[wk[w].p].since <= conn[<<w, wk[w].id>>]

ConnInv ==
  /\ \A w \in Workers, id \in Ids : conn[<<w, id>>] <= net[id].conns
  /\ \A k \in DOMAIN pipe : \A id \in Ids : Brings(pipe[k], id) =>
       /\ pipe[k].n <= net[id].conns
       /\ \A j \in DOMAIN pipe : j < k /\ Brings(pipe[j], id) => pipe[j].n < pipe[k].n
  /\ \A id \in Ids : Serves(id) =>
       /\ Stored(slot[H(id)]) <= net[id].conns
       /\ \A k \in DOMAIN pipe : Brings(pipe[k], id) => Stored(slot[H(id)]) < pipe[k].n
       /\ \A w \in Workers : Known(Len(pipe) + 1, id, conn[<<w, id>>])
       /\ \A k \in DOMAIN pipe : pipe[k].cmd \in {"D", "P"} /\ pipe[k].id = id => Known(k, id, sent[pipe[k].p].since)

(* Connects of id that have begun and are not yet stored.                  *)
Requested(id) == {n \in 1 .. net[id].conns : \E k \in DOMAIN pipe : Brings(pipe[k], id) /\ pipe[k].n = n}
Resolving(id) == {w \in Workers : wk[w].pc = "resolve" /\ wk[w].id = id}
PendInv ==
  \A id \in Ids : Serves(id) => slot[H(id)].udpconnecting >= Cardinality(Requested(id)) + Cardinality(Resolving(id))

(* A datagram goes where it may.                                           *)
MayGo(p, to) ==
  /\ p \in DOMAIN sent
  /\ ~sent[p].retried => IF sent[p].kind = "A" THEN to = MaxCalls + 1 ELSE to >= sent[p].since
MayWait(list) == \A k \in DOMAIN list : MayGo(list[k].p, list[k].to)
Retried(p) == p \in DOMAIN sent /\ sent[p].retried

ToInv ==
  /\ \A i \in Slots : Alive(i) /\ slot[i].protocol = "udp" =>
       MayWait(slot[i].high) /\ MayWait(slot[i].low) /\ (slot[i].dw # None => Retried(slot[i].dw.p))
  /\ \A id \in Ids : net[id].udp =>
       \A k \in DOMAIN wire[id] :
         LET u == wire[id][k] IN MayGo(u.p, u.to) /\ (~sent[u.p].retried => u.to > 0)
  /\ \A w \in Workers : wk[w].pc = "write" /\ net[wk[w].id].udp /\ wk[w].cmd # "A" =>
        sent[wk[w].p].since <= slot[H(wk[w].id)].address

UdpInv == KindInv /\ SentInv /\ ConnInv /\ PendInv /\ ToInv

(* The kind of an id and its connects stay, and so does what was sent.     *)
NetSame == \A id \in Ids : net'[id].udp = net[id].udp /\ net'[id].conns = net[id].conns
Served == pipe # <<>> /\ pipe' = Tail(pipe)
PipeServed == pipe' = pipe \/ Served

(* The socket thread stores the address of a request it takes, and no other. *)
Stores(id) == Served /\ Brings(Req, id)
StoresRight ==
  \A id \in Ids : Serves(id)' =>
    /\ Serves(id)
    /\ IF Stores(id) THEN /\ Stored(slot'[H(id)]) = Req.n
                          /\ slot'[H(id)].udpconnecting = slot[H(id)].udpconnecting - 1
       ELSE /\ Stored(slot'[H(id)]) = Stored(slot[H(id)])
            /\ slot'[H(id)].udpconnecting = slot[H(id)].udpconnecting

(* Numbers, of what the lemmas below compare.                              *)
LEMMA UdpNumbers ==
  ASSUME BaseInv
  PROVE  /\ \A id \in Ids : H(id) \in Slots /\ net[id].conns \in Nat /\ Stored(slot[H(id)]) \in Nat /\ slot[H(id)].udpconnecting \in Int
         /\ \A w \in Workers, id \in Ids : conn[<<w, id>>] \in Nat
         /\ \A k \in DOMAIN pipe : pipe[k].cmd = "C" => pipe[k].n \in Nat /\ pipe[k].id \in Ids
         /\ \A p \in DOMAIN sent : sent[p] \in SentRecs /\ sent[p].since \in Nat /\ sent[p].id \in Ids
<1> USE DEF BaseInv
<1>1. ASSUME NEW id \in Ids
      PROVE  H(id) \in Slots /\ net[id].conns \in Nat /\ Stored(slot[H(id)]) \in Nat /\ slot[H(id)].udpconnecting \in Int
  <2>1. H(id) \in Slots
    BY IdsAreNat DEF TypeOK
  <2>2. slot[H(id)] \in Sockets /\ net[id] \in NetRecs
    BY <2>1 DEF TypeOK
  <2> QED
    BY <2>1, <2>2 DEF Sockets, NetRecs, Stored
<1>2. \A w \in Workers, id \in Ids : conn[<<w, id>>] \in Nat
  BY DEF TypeOK
<1>3. ASSUME NEW k \in DOMAIN pipe, pipe[k].cmd = "C" PROVE pipe[k].n \in Nat /\ pipe[k].id \in Ids
  <2>1. pipe[k] \in Requests
    BY PipeEntries
  <2> QED
    BY <1>3, <2>1 DEF Requests, Data, Opening
<1>4. ASSUME NEW p \in DOMAIN sent PROVE sent[p] \in SentRecs /\ sent[p].since \in Nat /\ sent[p].id \in Ids
  <2>1. sent[p] \in SentRecs
    BY DEF TypeOK
  <2> QED
    BY <2>1 DEF SentRecs
<1> QED
  BY <1>1, <1>2, <1>3, <1>4

(* Where the requests of the pipe are after one was taken.                 *)
LEMMA ServedPipe ==
  ASSUME TypeOK, Served
  PROVE  /\ pipe' # pipe /\ Len(pipe) \in Nat \ {0} /\ Len(pipe') = Len(pipe) - 1
         /\ DOMAIN pipe = 1 .. Len(pipe) /\ DOMAIN pipe' = 1 .. Len(pipe) - 1
         /\ Req = pipe[1] /\ 1 \in DOMAIN pipe
         /\ \A k \in DOMAIN pipe' : k \in Nat /\ k + 1 \in DOMAIN pipe /\ pipe'[k] = pipe[k + 1]
         /\ \A k \in DOMAIN pipe : k \in Nat /\ (k = 1 \/ (k - 1 \in DOMAIN pipe' /\ pipe'[k - 1] = pipe[k]))
<1>1. pipe \in Seq(Requests) /\ pipe # <<>> /\ pipe' = Tail(pipe)
  BY DEF TypeOK, Served
<1>2. Len(pipe) \in Nat \ {0} /\ Len(pipe') = Len(pipe) - 1
  BY <1>1
<1>3. /\ DOMAIN pipe = 1 .. Len(pipe) /\ DOMAIN pipe' = 1 .. Len(pipe) - 1 /\ Req = pipe[1]
      /\ \A k \in DOMAIN pipe' : k + 1 \in DOMAIN pipe /\ pipe'[k] = pipe[k + 1]
      /\ \A k \in DOMAIN pipe : k = 1 \/ (k - 1 \in DOMAIN pipe' /\ pipe'[k - 1] = pipe[k])
  BY <1>1, PipeEntries
<1> HIDE <1>1
<1>4. pipe' # pipe
  BY <1>2
<1> QED
  BY <1>2, <1>3, <1>4

(* A request that is taken stores what it brings; what the others bring    *)
(* stands one place nearer.                                                *)
LEMMA KnownThread ==
  ASSUME BaseInv, ConnInv, UNCHANGED scene, PipeServed, StoresRight, NEW id \in Ids, Serves(id)',
         NEW c \in Nat, NEW k \in Nat, Known(k, id, c), NEW m \in Int, m = IF pipe' = pipe THEN k ELSE k - 1
  PROVE  Known(m, id, c)'
<1>1. H(id)' = H(id)
  BY SameTags
<1>2. Serves(id) /\ IF Stores(id) THEN Stored(slot'[H(id)]) = Req.n ELSE Stored(slot'[H(id)]) = Stored(slot[H(id)])
  BY DEF StoresRight
<1>3. Stored(slot[H(id)]) \in Nat /\ \A j \in DOMAIN pipe : Brings(pipe[j], id) => pipe[j].n \in Nat /\ Stored(slot[H(id)]) < pipe[j].n
  BY <1>2, UdpNumbers DEF ConnInv, Brings
<1>4. CASE pipe' = pipe
  <2>1. ~Stores(id)
    BY <1>4, ServedPipe DEF Stores, BaseInv
  <2> QED
    BY <1>1, <1>2, <1>4, <2>1 DEF Known, AskedBefore
<1>5. CASE pipe' # pipe
  <2>0. Served
    BY <1>5 DEF PipeServed
  <2>1. /\ Req = pipe[1] /\ 1 \in DOMAIN pipe
        /\ \A j \in DOMAIN pipe : j \in Nat /\ (j = 1 \/ (j - 1 \in DOMAIN pipe' /\ pipe'[j - 1] = pipe[j]))
    BY <2>0, ServedPipe DEF BaseInv
  <2>2. CASE c <= Stored(slot[H(id)])
    <3>1. c <= Stored(slot'[H(id)])
      BY <1>2, <1>3, <2>1, <2>2 DEF Stores
    <3> QED
      BY <1>1, <3>1 DEF Known
  <2>3. ASSUME NEW j \in DOMAIN pipe, j < k, Brings(pipe[j], id), pipe[j].n >= c
        PROVE  Known(m, id, c)'
    <3>1. CASE j = 1
      <4>1. Stores(id)
        BY <2>0, <2>1, <2>3, <3>1 DEF Stores
      <4> QED
        BY <1>1, <1>2, <2>1, <2>3, <3>1, <4>1 DEF Known
    <3>2. CASE j # 1
      <4>1. j - 1 \in DOMAIN pipe' /\ pipe'[j - 1] = pipe[j] /\ j - 1 < m
        BY <1>5, <2>1, <2>3, <3>2
      <4> QED
        BY <2>3, <4>1 DEF Known, AskedBefore, Brings
    <3> QED
      BY <3>1, <3>2
  <2> QED
    BY <1>5, <2>2, <2>3 DEF Known, AskedBefore
<1> QED
  BY <1>4, <1>5

LEMMA ConnThread ==
  ASSUME BaseInv, ConnInv, SentInv, UNCHANGED <<scene, conn, sent>>, NetSame, PipeServed, StoresRight
  PROVE  ConnInv'
<1> USE DEF BaseInv
<1>1. Ids' = Ids /\ \A id : H(id)' = H(id)
  BY SameScene, SameTags
<1>2. DOMAIN pipe = 1 .. Len(pipe) /\ Len(pipe) \in Nat
  BY PipeEntries
<1>3. ASSUME NEW k \in DOMAIN pipe'
      PROVE  \E l \in DOMAIN pipe : pipe'[k] = pipe[l] /\ k \in Nat /\ l \in Nat /\ l = IF pipe' = pipe THEN k ELSE k + 1
  <2>1. CASE pipe' = pipe
    BY <1>2, <2>1
  <2>2. CASE Served
    BY <2>2, ServedPipe
  <2> QED
    BY <2>1, <2>2 DEF PipeServed
<1>4. ASSUME NEW k \in DOMAIN pipe', NEW id \in Ids, Brings(pipe'[k], id)
      PROVE  /\ pipe'[k].n <= net'[id].conns
             /\ \A j \in DOMAIN pipe' : j < k /\ Brings(pipe'[j], id) => pipe'[j].n < pipe'[k].n
  <2>1. PICK l \in DOMAIN pipe : pipe'[k] = pipe[l] /\ k \in Nat /\ l \in Nat /\ l = IF pipe' = pipe THEN k ELSE k + 1
    BY <1>3
  <2>2. pipe[l].n <= net[id].conns /\ \A j \in DOMAIN pipe : j < l /\ Brings(pipe[j], id) => pipe[j].n < pipe[l].n
    BY <1>4, <2>1 DEF ConnInv
  <2>3. ASSUME NEW j \in DOMAIN pipe', j < k PROVE \E m \in DOMAIN pipe : m < l /\ pipe'[j] = pipe[m]
    BY <1>3, <2>1, <2>3
  <2> QED
    BY <1>1, <2>1, <2>2, <2>3 DEF NetSame
<1>5. ASSUME NEW id \in Ids, Serves(id)'
      PROVE  /\ Stored(slot'[H(id)]) <= net'[id].conns
             /\ \A k \in DOMAIN pipe' : Brings(pipe'[k], id) => Stored(slot'[H(id)]) < pipe'[k].n
             /\ \A w \in Workers : Known(Len(pipe) + 1, id, conn[<<w, id>>])'
             /\ \A k \in DOMAIN pipe' : pipe'[k].cmd \in {"D", "P"} /\ pipe'[k].id = id => Known(k, id, sent[pipe[k].p].since)'
  <2>1. Serves(id) /\ IF Stores(id) THEN Stored(slot'[H(id)]) = Req.n ELSE Stored(slot'[H(id)]) = Stored(slot[H(id)])
    BY <1>5 DEF StoresRight
  <2>2. ASSUME NEW k \in DOMAIN pipe', Brings(pipe'[k], id) PROVE Stored(slot'[H(id)]) < pipe'[k].n
    <3>1. PICK l \in DOMAIN pipe : pipe'[k] = pipe[l] /\ k \in Nat /\ l \in Nat /\ l = IF pipe' = pipe THEN k ELSE k + 1
      BY <1>3
    <3>2. Stored(slot[H(id)]) < pipe[l].n
      BY <2>1, <2>2, <3>1 DEF ConnInv
    <3>3. CASE Stores(id)
      <4>1. pipe' # pipe /\ Req = pipe[1] /\ 1 \in DOMAIN pipe /\ \A j \in DOMAIN pipe' : j # 0
        BY <3>3, ServedPipe DEF Stores
      <4>2. 1 < l /\ Brings(pipe[1], id)
        BY <3>1, <3>3, <4>1 DEF Stores
      <4>3. pipe[1].n < pipe[l].n
        BY <2>2, <3>1, <4>1, <4>2 DEF ConnInv
      <4> QED
        BY <2>1, <3>1, <3>3, <4>1, <4>3
    <3> QED
      BY <2>1, <3>1, <3>2, <3>3
  <2>3. ASSUME NEW w \in Workers PROVE Known(Len(pipe) + 1, id, conn[<<w, id>>])'
    <3>1. Known(Len(pipe) + 1, id, conn[<<w, id>>]) /\ conn[<<w, id>>] \in Nat
      BY <2>1, UdpNumbers DEF ConnInv
    <3>2. Len(pipe) + 1 \in Nat /\ Len(pipe') + 1 \in Int /\ Len(pipe') + 1 = IF pipe' = pipe THEN Len(pipe) + 1 ELSE (Len(pipe) + 1) - 1
      <4>1. CASE pipe' = pipe
        BY <1>2, <4>1
      <4>2. CASE pipe' # pipe
        <5>1. Served
          BY <4>2 DEF PipeServed
        <5>2. Len(pipe') = Len(pipe) - 1
          BY <5>1, ServedPipe
        <5> QED
          BY <1>2, <4>2, <5>2
      <4> QED
        BY <4>1, <4>2
    <3>3. PICK m \in Int : m = Len(pipe') + 1
      BY <3>2
    <3>4. Known(m, id, conn[<<w, id>>])'
      BY <1>5, <3>1, <3>2, <3>3, KnownThread
    <3> QED
      BY <3>3, <3>4 DEF Known, AskedBefore
  <2>4. ASSUME NEW k \in DOMAIN pipe', pipe'[k].cmd \in {"D", "P"}, pipe'[k].id = id
        PROVE  Known(k, id, sent[pipe[k].p].since)'
    <3>1. PICK l \in DOMAIN pipe : pipe'[k] = pipe[l] /\ k \in Nat /\ l \in Nat /\ l = IF pipe' = pipe THEN k ELSE k + 1
      BY <1>3
    <3>2. Known(l, id, sent[pipe[l].p].since)
      BY <2>1, <2>4, <3>1 DEF ConnInv
    <3>3. sent[pipe[l].p].since \in Nat
      BY <2>4, <3>1, UdpNumbers DEF SentInv, Data, HandedFor
    <3>4. k = (IF pipe' = pipe THEN l ELSE l - 1)
      BY <3>1
    <3>5. PICK c \in Nat : c = sent[pipe[l].p].since
      BY <3>3
    <3>6. Known(l, id, c) /\ k \in Int
      BY <3>1, <3>2, <3>5
    <3>7. Known(k, id, c)'
      <4> HIDE <3>1, <3>2, <3>3, <3>5
      <4>1. l \in Nat
        BY <3>1
      <4> QED
        BY <1>5, <3>4, <3>6, <4>1, KnownThread
    <3> QED
      BY <3>1, <3>5, <3>7 DEF Known, AskedBefore
  <2>5. Stored(slot'[H(id)]) <= net'[id].conns
    <3>1. Stored(slot[H(id)]) <= net[id].conns /\ net'[id].conns = net[id].conns
      BY <2>1 DEF ConnInv, NetSame
    <3>2. Stores(id) => Req = pipe[1] /\ 1 \in DOMAIN pipe /\ Brings(pipe[1], id)
      BY ServedPipe DEF Stores
    <3> QED
      BY <2>1, <3>1, <3>2 DEF ConnInv
  <2> QED
    BY <2>2, <2>3, <2>4, <2>5
<1> QED
  BY <1>1, <1>4, <1>5 DEF ConnInv, NetSame

(* The connects under way are counted.                                     *)
LEMMA UnderWay ==
  ASSUME BaseInv, NEW id \in Ids
  PROVE  /\ IsFiniteSet(Requested(id)) /\ Cardinality(Requested(id)) \in Nat
         /\ IsFiniteSet(Resolving(id)) /\ Cardinality(Resolving(id)) \in Nat
<1>1. net[id].conns \in Nat
  BY UdpNumbers
<1>2. IsFiniteSet(1 .. net[id].conns)
  BY <1>1, FS_Interval
<1>3. Requested(id) \subseteq 1 .. net[id].conns /\ Resolving(id) \subseteq Workers
  BY DEF Requested, Resolving
<1>4. IsFiniteSet(Requested(id)) /\ IsFiniteSet(Resolving(id))
  BY <1>2, <1>3, SocketAssumption, FS_Subset
<1> QED
  BY <1>4, FS_CardinalityType

LEMMA PendThread ==
  ASSUME BaseInv, ConnInv, PendInv, UNCHANGED <<scene, wk>>, NetSame, PipeServed, StoresRight
  PROVE  PendInv'
<1> USE DEF BaseInv
<1>1. Ids' = Ids /\ \A id : H(id)' = H(id)
  BY SameScene, SameTags
<1> SUFFICES ASSUME NEW id \in Ids, Serves(id)'
             PROVE  slot'[H(id)].udpconnecting >= Cardinality(Requested(id)') + Cardinality(Resolving(id)')
  BY <1>1 DEF PendInv
<1>2. /\ slot[H(id)].udpconnecting >= Cardinality(Requested(id)) + Cardinality(Resolving(id))
      /\ slot'[H(id)].udpconnecting = slot[H(id)].udpconnecting - (IF Stores(id) THEN 1 ELSE 0)
      /\ slot[H(id)].udpconnecting \in Int
  BY UdpNumbers DEF PendInv, StoresRight
<1>3. Resolving(id)' = Resolving(id)
  BY DEF Resolving
<1>4. \A k \in DOMAIN pipe' : \E l \in DOMAIN pipe : pipe'[k] = pipe[l]
  BY PipeEntries DEF PipeServed, Served
<1>5. Requested(id)' \subseteq Requested(id)
  BY <1>4 DEF Requested, NetSame, Brings
<1>6. CASE ~Stores(id)
  <2>1. Cardinality(Requested(id)') <= Cardinality(Requested(id)) /\ Cardinality(Requested(id)') \in Nat
    BY <1>5, UnderWay, FS_Subset, FS_CardinalityType
  <2> QED
    BY <1>2, <1>3, <1>6, <2>1, UnderWay
<1>7. CASE Stores(id)
  <2>1. /\ Req = pipe[1] /\ 1 \in DOMAIN pipe /\ Brings(pipe[1], id)
        /\ \A k \in DOMAIN pipe' : k \in Nat /\ k + 1 \in DOMAIN pipe /\ pipe'[k] = pipe[k + 1]
        /\ 0 \notin DOMAIN pipe'
    BY <1>7, ServedPipe DEF Stores
  <2>2. ASSUME NEW k \in DOMAIN pipe', Brings(pipe'[k], id) PROVE pipe'[k].n # Req.n
    <3>1. k + 1 \in DOMAIN pipe /\ pipe'[k] = pipe[k + 1] /\ 1 < k + 1
      BY <2>1
    <3>2. pipe[1].n < pipe[k + 1].n
      BY <2>1, <2>2, <3>1 DEF ConnInv
    <3>3. pipe[1].n \in Nat /\ pipe[k + 1].n \in Nat
      BY <2>1, <2>2, <3>1, UdpNumbers DEF Brings
    <3> QED
      BY <2>1, <3>1, <3>2, <3>3
  <2>3. Req.n \in Requested(id)
    <3>1. Req.n \in Nat /\ Req.n # 0 /\ Req.n <= net[id].conns /\ net[id].conns \in Nat
      BY <2>1, UdpNumbers DEF Brings, ConnInv
    <3> QED
      BY <2>1, <3>1 DEF Requested
  <2>4. Requested(id)' \subseteq Requested(id) \ {Req.n}
    BY <1>5, <2>2 DEF Requested
  <2>5. /\ IsFiniteSet(Requested(id) \ {Req.n})
        /\ Cardinality(Requested(id) \ {Req.n}) = Cardinality(Requested(id)) - 1
    BY <2>3, UnderWay, FS_RemoveElement
  <2>6. Cardinality(Requested(id)') <= Cardinality(Requested(id)) - 1 /\ Cardinality(Requested(id)') \in Nat
    BY <2>4, <2>5, UnderWay, FS_Subset, FS_CardinalityType
  <2> QED
    BY <1>2, <1>3, <1>7, <2>6, UnderWay
<1> QED
  BY <1>6, <1>7

(* What was handed over stays as it is, but for the mark of a retry.       *)
SentStays ==
  /\ Len(sent') \in Nat /\ DOMAIN sent \subseteq DOMAIN sent'
  /\ \A p \in DOMAIN sent : /\ sent'[p].id = sent[p].id /\ sent'[p].kind = sent[p].kind /\ sent'[p].udp = sent[p].udp
                            /\ sent'[p].since = sent[p].since /\ (sent[p].retried => sent'[p].retried)

LEMMA SentThread ==
  ASSUME BaseInv, SentInv, UNCHANGED <<scene, conn, sent, wk>>, NetSame, PipeServed, alloc' = alloc \/ (alloc' \in Nat /\ alloc' >= alloc)
  PROVE  SentInv'
<1> USE DEF BaseInv
<1>1. \A k \in DOMAIN pipe' : \E l \in DOMAIN pipe : pipe'[k] = pipe[l]
  BY PipeEntries DEF PipeServed, Served
<1>2. 1 .. alloc \subseteq 1 .. alloc'
  BY DEF TypeOK
<1>3. ASSUME NEW p \in DOMAIN sent PROVE sent[p].id \in 1 .. alloc' /\ (sent[p].udp <=> net'[sent[p].id].udp)
  <2>1. sent[p].id \in 1 .. alloc /\ sent[p].id \in Ids /\ (sent[p].udp <=> net[sent[p].id].udp)
    BY UdpNumbers DEF SentInv
  <2> QED
    BY <1>2, <2>1 DEF NetSame
<1>4. ASSUME NEW k \in DOMAIN pipe', pipe'[k].cmd \in Data PROVE HandedFor(pipe'[k].p, pipe'[k].id, pipe'[k].cmd)
  BY <1>1, <1>4 DEF SentInv
<1> QED
  BY <1>3, <1>4 DEF SentInv, HandedFor

LEMMA KindThread ==
  ASSUME BaseInv, KindInv, UNCHANGED scene, NetSame, PipeServed, alloc' = alloc \/ (alloc' \in Nat /\ alloc' >= alloc),
         \A id \in Ids : id > alloc => wire'[id] = wire[id],
         \A i \in Slots : Alive(i)' =>
           \/ Alive(i) /\ slot'[i].id = slot[i].id /\ slot'[i].protocol = slot[i].protocol
           \/ Served /\ Req.cmd \in Opening /\ slot'[i].id = Req.id /\ (slot'[i].protocol = "udp" <=> Req.cmd = "U")
           \/ slot'[i].id \in Ids /\ slot'[i].id > alloc /\ slot'[i].protocol # "udp"
  PROVE  KindInv'
<1> USE DEF BaseInv
<1>1. Ids' = Ids /\ Slots' = Slots
  BY SameScene
<1>2. \A k \in DOMAIN pipe' : \E l \in DOMAIN pipe : pipe'[k] = pipe[l]
  BY PipeEntries DEF PipeServed, Served
<1>3. ASSUME NEW k \in DOMAIN pipe', pipe'[k].cmd \in Opening PROVE net'[pipe'[k].id].udp <=> pipe'[k].cmd = "U"
  <2>1. PICK l \in DOMAIN pipe : pipe'[k] = pipe[l]
    BY <1>2
  <2>2. pipe[l].id \in Ids /\ (net[pipe[l].id].udp <=> pipe[l].cmd = "U")
    BY <1>3, <2>1, PipeEntries DEF KindInv
  <2> QED
    BY <2>1, <2>2 DEF NetSame
<1>4. ASSUME NEW i \in Slots, Alive(i)' PROVE net'[slot'[i].id].udp <=> slot'[i].protocol = "udp"
  <2>1. CASE Alive(i) /\ slot'[i].id = slot[i].id /\ slot'[i].protocol = slot[i].protocol
    <3>1. slot[i].id \in Ids
      BY <2>1, GivenIds DEF SlotInv, Alive
    <3> QED
      BY <2>1, <3>1 DEF KindInv, NetSame
  <2>2. CASE Served /\ Req.cmd \in Opening /\ slot'[i].id = Req.id /\ (slot'[i].protocol = "udp" <=> Req.cmd = "U")
    <3>1. Req = pipe[1] /\ 1 \in DOMAIN pipe
      BY <2>2, ServedPipe
    <3>2. Req.id \in Ids /\ (net[Req.id].udp <=> Req.cmd = "U")
      BY <2>2, <3>1, PipeEntries DEF KindInv
    <3> QED
      BY <2>2, <3>2 DEF NetSame
  <2>3. CASE slot'[i].id \in Ids /\ slot'[i].id > alloc /\ slot'[i].protocol # "udp"
    BY <2>3 DEF KindInv, NetSame
  <2> QED
    BY <1>4, <2>1, <2>2, <2>3
<1>5. ASSUME NEW id \in Ids, id > alloc' PROVE ~net'[id].udp /\ net'[id].conns = 0 /\ wire'[id] = <<>>
  <2>1. id > alloc
    BY <1>5, IdsAreNat DEF TypeOK
  <2> QED
    BY <2>1 DEF KindInv, NetSame
<1> QED
  BY <1>1, <1>3, <1>4, <1>5 DEF KindInv

(* Where the datagrams of the socket y may go, and what is on a wire.      *)
WaitsRight(y) ==
  MayWait(y.high) /\ MayWait(y.low) /\ (y.dw # None => Retried(y.dw.p))
WireRight(s) ==
  \A k \in DOMAIN s : MayGo(s[k].p, s[k].to) /\ (~sent[s[k].p].retried => s[k].to > 0)

LEMMA ToThread ==
  ASSUME BaseInv, TypeOK', SentInv, ToInv, UNCHANGED <<scene, sent, wk>>, NetSame,
         \A i \in Slots : Alive(i)' /\ slot'[i].protocol = "udp" => WaitsRight(slot'[i]),
         \A id \in Ids : net[id].udp => WireRight(wire'[id]),
         \A w \in Workers : wk[w].pc = "write" /\ net[wk[w].id].udp => slot[H(wk[w].id)].address <= slot'[H(wk[w].id)].address
  PROVE  ToInv'
<1> USE DEF BaseInv
<1>1. Ids' = Ids /\ Slots' = Slots /\ \A id : H(id)' = H(id)
  BY SameScene, SameTags
<1>2. \A p, to : MayGo(p, to)' <=> MayGo(p, to)
  BY DEF MayGo, MaxCalls
<1>3. ASSUME NEW i \in Slots, Alive(i)', slot'[i].protocol = "udp"
      PROVE  (MayWait(slot[i].high) /\ MayWait(slot[i].low) /\ (slot[i].dw # None => Retried(slot[i].dw.p)))'
  BY <1>2, <1>3 DEF WaitsRight, MayWait, Retried
<1>4. ASSUME NEW id \in Ids, net'[id].udp
      PROVE  (\A k \in DOMAIN wire[id] : LET u == wire[id][k] IN MayGo(u.p, u.to) /\ (~sent[u.p].retried => u.to > 0))'
  <2>1. WireRight(wire'[id])
    BY <1>4 DEF NetSame
  <2> QED
    BY <1>2, <2>1 DEF WireRight
<1>5. ASSUME NEW w \in Workers, wk'[w].pc = "write", net'[wk'[w].id].udp, wk'[w].cmd # "A"
      PROVE  sent'[wk'[w].p].since <= slot'[H(wk'[w].id)].address
  <2>1. wk[w].id \in Ids /\ H(wk[w].id) \in Slots
    BY <1>5, GivenIds, IdsAreNat DEF LockInv, TypeOK
  <2>2. slot[H(wk[w].id)] \in Sockets /\ slot'[H(wk[w].id)] \in Sockets
    BY <1>1, <2>1 DEF TypeOK
  <2>3. sent[wk[w].p].since <= slot[H(wk[w].id)].address /\ slot[H(wk[w].id)].address <= slot'[H(wk[w].id)].address
    BY <1>1, <1>5, <2>1 DEF ToInv, NetSame
  <2>4. wk[w].p \in DOMAIN sent
    BY <1>5 DEF SentInv, HandedFor
  <2>5. sent[wk[w].p].since \in Nat /\ slot[H(wk[w].id)].address \in Nat /\ slot'[H(wk[w].id)].address \in Nat
    BY <2>2, <2>4, UdpNumbers DEF Sockets
  <2>6. sent[wk[w].p].since <= slot'[H(wk[w].id)].address
    BY <2>3, <2>5
  <2> QED
    BY <2>6
<1> QED
  BY <1>1, <1>3, <1>4, <1>5 DEF ToInv

(* Most steps of the socket thread keep the address of a socket, and lose  *)
(* what waits or keep it.                                                  *)
Mild(x, y) ==
  /\ y.address = x.address /\ y.udpconnecting = x.udpconnecting
  /\ y.high = x.high \/ y.high = <<>>
  /\ y.low = x.low \/ y.low = <<>>
  /\ y.dw = x.dw \/ y.dw = None
ThreadMild == \A i \in Slots : Mild(slot[i], slot'[i])

LEMMA SetMild ==
  ASSUME TypeOK, slot' = slot \/ \E i \in Slots : \E y : slot' = [slot EXCEPT ![i] = y] /\ Mild(slot[i], y)
  PROVE  ThreadMild
<1>1. \A j \in Slots : Mild(slot[j], slot[j])
  BY DEF Mild
<1> QED
  BY <1>1 DEF ThreadMild, TypeOK

LEMMA MildThread ==
  ASSUME BaseInv, TypeOK', UdpInv, ThreadSteady, ThreadMild, NetSame, PipeServed, UNCHANGED <<scene, wk, conn, alloc, sent, wire>>,
         \A id \in Ids : Serves(id) => ~Stores(id)
  PROVE  UdpInv'
<1> USE DEF BaseInv, UdpInv
<1>1. \A id : H(id)' = H(id)
  BY SameTags
<1>2. StoresRight
  <2> SUFFICES ASSUME NEW id \in Ids, Serves(id)'
               PROVE  Serves(id) /\ Stored(slot'[H(id)]) = Stored(slot[H(id)]) /\ slot'[H(id)].udpconnecting = slot[H(id)].udpconnecting
    BY DEF StoresRight
  <2>1. H(id) \in Slots /\ net[id].udp /\ slot'[H(id)].id = id /\ slot'[H(id)].type # "INVALID"
    BY <1>1, UdpNumbers DEF Serves, NetSame
  <2> QED
    BY <2>1 DEF ThreadSteady, SteadyAt, ThreadMild, Mild, Serves, Stored, Alive
<1>3. SentInv' /\ ConnInv' /\ PendInv'
  BY <1>2, SentThread, ConnThread, PendThread
<1>4. ASSUME NEW i \in Slots, Alive(i)'
      PROVE  Alive(i) /\ slot'[i].id = slot[i].id /\ slot'[i].protocol = slot[i].protocol /\ Mild(slot[i], slot'[i])
  BY <1>4 DEF ThreadSteady, SteadyAt, ThreadMild, Alive
<1>5. KindInv'
  BY <1>4, KindThread
<1>6. ASSUME NEW i \in Slots, Alive(i)', slot'[i].protocol = "udp"
      PROVE  WaitsRight(slot'[i])
  <2>1. WaitsRight(slot[i]) /\ Mild(slot[i], slot'[i])
    BY <1>4, <1>6 DEF ToInv, WaitsRight
  <2>2. MayWait(<<>>)
    BY DEF MayWait
  <2> QED
    BY <2>1, <2>2 DEF WaitsRight, Mild
<1>7. \A id \in Ids : net[id].udp => WireRight(wire'[id])
  BY DEF ToInv, WireRight
<1>8. ASSUME NEW w \in Workers, wk[w].pc = "write" PROVE slot[H(wk[w].id)].address <= slot'[H(wk[w].id)].address
  <2>1. wk[w].id \in Ids /\ H(wk[w].id) \in Slots
    BY <1>8, GivenIds, IdsAreNat DEF LockInv, TypeOK
  <2>2. slot[H(wk[w].id)].address \in Nat
    BY <2>1 DEF TypeOK, Sockets
  <2> QED
    BY <2>1, <2>2 DEF ThreadMild, Mild
<1>9. ToInv'
  BY <1>6, <1>7, <1>8, ToThread
<1> QED
  BY <1>3, <1>5, <1>9

LEMMA MildRequest ==
  ASSUME BaseInv, CloseSocket \/ Resume \/ Pause \/ TriggerWrite
  PROVE  ThreadMild
<1> USE DEF BaseInv
<1> DEFINE Read == [X EXCEPT !.reading = TRUE]
           Resumed == [X EXCEPT !.reading = TRUE, !.type = CASE @ = "PACCEPT" -> "CONNECTED"
                                                             [] @ = "PLISTEN" -> "LISTEN"
                                                             [] OTHER -> @]
           Changed == {[X EXCEPT !.closing = TRUE], [CloseRead(X) EXCEPT !.closing = TRUE], [X EXCEPT !.high = <<>>, !.low = <<>>],
                       Read, [X EXCEPT !.reading = FALSE], [X EXCEPT !.writing = TRUE], Resumed}
<1>1. pipe # <<>> /\ Req.cmd \in {"K", "X", "R", "S", "W"}
  BY DEF CloseSocket, Resume, Pause, TriggerWrite, Adjust, Ctrl
<1>2. H(Req.id) \in Slots /\ X \in Sockets /\ X = slot[H(Req.id)]
  BY <1>1, ReqType DEF X
<1>3. slot' = slot \/ \E y \in Changed : slot' = [slot EXCEPT ![H(Req.id)] = y]
  <2>1. CASE CloseSocket
    <3>1. \/ slot' = slot \/ \E msg : BeginForceClose(H(Req.id), msg, TRUE)
          \/ SetSlot(H(Req.id), IF X.type = "HALFCLOSE_READ" THEN [X EXCEPT !.closing = TRUE] ELSE [CloseRead(X) EXCEPT !.closing = TRUE])
      BY <2>1, Zenon DEF CloseSocket
    <3> QED
      BY <1>2, <3>1 DEF BeginForceClose, SetSlot
  <2>2. CASE Resume
    <3>1. slot' = slot \/ SetSlot(H(Req.id), Read) \/ SetSlot(H(Req.id), Resumed)
      BY <2>2 DEF Resume
    <3> QED
      BY <3>1 DEF SetSlot
  <2>3. CASE Pause \/ TriggerWrite
    BY <2>3 DEF Pause, TriggerWrite, Adjust, SetSlot
  <2> QED
    BY <2>1, <2>2, <2>3
<1>4. \A y \in Changed : Mild(X, y)
  BY <1>2 DEF Mild, Sockets, CloseRead
<1> HIDE DEF Changed
<1> QED
  BY <1>2, <1>3, <1>4, SetMild

LEMMA MildEvent ==
  ASSUME BaseInv, ReportConnect \/ ReadTcp \/ ReadUdp \/ ErrorEvent \/ ReservedEvent
  PROVE  ThreadMild
<1> USE DEF BaseInv
<1> DEFINE Changed == {[Y EXCEPT !.type = "CONNECTED", !.writing = @ /\ ~NoMoreSendingData(Y)], CloseRead(Y),
                       [Y EXCEPT !.high = <<>>, !.low = <<>>], [Y EXCEPT !.writing = @ /\ ~(~E0.read /\ E0.write)]}
<1>1. Event(Plain) \/ Event({"CONNECTING"}) \/ Event({"RESERVE"})
  BY DEF ReportConnect, ReadTcp, ReadUdp, ErrorEvent, ReservedEvent
<1>2. E0.slot \in Slots /\ Y \in Sockets /\ Y = slot[E0.slot]
  BY <1>1, EventType DEF Y
<1>3. \/ slot' = slot
      \/ \E msg : BeginForceClose(E0.slot, msg, FALSE)
      \/ SetSlot(E0.slot, CloseRead(Y))
      \/ SetSlot(E0.slot, [Y EXCEPT !.type = "CONNECTED", !.writing = @ /\ ~NoMoreSendingData(Y)])
      \/ SetSlot(E0.slot, [Y EXCEPT !.writing = @ /\ ~(~E0.read /\ E0.write)])
  BY Zenon DEF ReportConnect, ReadTcp, ReadUdp, ErrorEvent, ReservedEvent
<1>4. slot' = slot \/ \E y \in Changed : slot' = [slot EXCEPT ![E0.slot] = y]
  BY <1>2, <1>3 DEF BeginForceClose, SetSlot
<1>5. \A y \in Changed : Mild(Y, y)
  BY <1>2 DEF Mild, Sockets, CloseRead
<1> HIDE DEF Changed
<1> QED
  BY <1>2, <1>4, <1>5, SetMild

LEMMA MildClose ==
  ASSUME BaseInv, ForceClose \/ DecSending
  PROVE  ThreadMild
<1> USE DEF BaseInv
<1>1. th.slot \in Slots /\ slot[th.slot] \in Sockets
  BY DEF ForceClose, DecSending, TypeOK
<1>2. PICK y \in {[slot[th.slot] EXCEPT !.type = "INVALID", !.dw = None], [slot[th.slot] EXCEPT !.sending = @ - 1]} :
        slot' = slot \/ slot' = [slot EXCEPT ![th.slot] = y]
  BY DEF ForceClose, DecSending, SetSlot
<1>3. Mild(slot[th.slot], y)
  BY <1>1, <1>2 DEF Mild, Sockets
<1> QED
  BY <1>1, <1>2, <1>3, SetMild

(* The network's side of an id changes, but not its kind.                  *)
LEMMA NetSet ==
  ASSUME TypeOK, NEW id,
         \/ net' = net
         \/ \E v : net' = [net EXCEPT ![id].inb = v] \/ net' = [net EXCEPT ![id].rst = v] \/ net' = [net EXCEPT ![id].fin = v]
                   \/ net' = [net EXCEPT ![id].est = v]
         \/ \E v, u : net' = [net EXCEPT ![id].rst = v, ![id].shut = u]
  PROVE  NetSame
<1>1. ASSUME NEW m, net' = [net EXCEPT ![id] = m], id \in Ids => m.udp = net[id].udp /\ m.conns = net[id].conns
      PROVE  NetSame
  BY <1>1 DEF NetSame, TypeOK
<1>2. CASE id \notin Ids
  <2>1. net' = net
    BY <1>2 DEF TypeOK
  <2> QED
    BY <2>1 DEF NetSame
<1>3. CASE id \in Ids
  <2>1. net[id] \in NetRecs /\ net \in [Ids -> NetRecs]
    BY <1>3 DEF TypeOK
  <2>2. ASSUME NEW m, NEW u, NEW v,
               \/ m = [net[id] EXCEPT !.inb = v] \/ m = [net[id] EXCEPT !.rst = v] \/ m = [net[id] EXCEPT !.fin = v]
               \/ m = [net[id] EXCEPT !.est = v] \/ m = [net[id] EXCEPT !.rst = v, !.shut = u]
        PROVE  m.udp = net[id].udp /\ m.conns = net[id].conns
    BY <2>1, <2>2 DEF NetRecs
  <2>3. ASSUME NEW v, net' = [net EXCEPT ![id].inb = v] PROVE NetSame
    <3>1. PICK m : m = [net[id] EXCEPT !.inb = v] /\ net' = [net EXCEPT ![id] = m]
      BY <1>3, <2>1, <2>3
    <3> QED
      BY <1>1, <2>2, <3>1
  <2>4. ASSUME NEW v, net' = [net EXCEPT ![id].rst = v] PROVE NetSame
    <3>1. PICK m : m = [net[id] EXCEPT !.rst = v] /\ net' = [net EXCEPT ![id] = m]
      BY <1>3, <2>1, <2>4
    <3> QED
      BY <1>1, <2>2, <3>1
  <2>5. ASSUME NEW v, net' = [net EXCEPT ![id].fin = v] PROVE NetSame
    <3>1. PICK m : m = [net[id] EXCEPT !.fin = v] /\ net' = [net EXCEPT ![id] = m]
      BY <1>3, <2>1, <2>5
    <3> QED
      BY <1>1, <2>2, <3>1
  <2>6. ASSUME NEW v, net' = [net EXCEPT ![id].est = v] PROVE NetSame
    <3>1. PICK m : m = [net[id] EXCEPT !.est = v] /\ net' = [net EXCEPT ![id] = m]
      BY <1>3, <2>1, <2>6
    <3> QED
      BY <1>1, <2>2, <3>1
  <2>7. ASSUME NEW v, NEW u, net' = [net EXCEPT ![id].rst = v, ![id].shut = u] PROVE NetSame
    <3>1. PICK m : m = [net[id] EXCEPT !.rst = v, !.shut = u] /\ net' = [net EXCEPT ![id] = m]
      BY <1>3, <2>1, <2>7
    <3> QED
      BY <1>1, <2>2, <3>1
  <2>8. net' = net => NetSame
    BY DEF NetSame
  <2> QED
    BY <2>3, <2>4, <2>5, <2>6, <2>7, <2>8
<1> QED
  BY <1>2, <1>3

MildSteps ==
  \/ CloseSocket \/ Resume \/ Pause \/ TriggerWrite \/ DecSending \/ ExitCmd \/ ForceClose \/ ClearEvent \/ NoCommand \/ SpWait
  \/ ReportConnect \/ InvalidSocket \/ VoidEvent \/ ReadTcp \/ ReadUdp \/ ErrorEvent \/ ReservedEvent

LEMMA MildUdp ==
  ASSUME BaseInv, TypeOK', UdpInv, MildSteps
  PROVE  UdpInv'
<1> USE DEF BaseInv
<1>1. SocketThread
  BY DEF MildSteps, SocketThread
<1>2. UNCHANGED <<scene, wk>> /\ PipeServed
  BY <1>1, ThreadPipe DEF PipeServed, Served
<1>3. UNCHANGED <<conn, alloc, sent, wire>>
  <2>1. CASE CloseSocket \/ Resume \/ Pause \/ TriggerWrite \/ DecSending \/ ExitCmd
    BY <2>1 DEF CloseSocket, Resume, Pause, TriggerWrite, DecSending, ExitCmd, Adjust, workVars
  <2>2. CASE ForceClose \/ ClearEvent \/ NoCommand \/ SpWait \/ VoidEvent
    BY <2>2 DEF ForceClose, ClearEvent, NoCommand, SpWait, VoidEvent, workVars
  <2>3. CASE ReportConnect \/ InvalidSocket \/ ReadTcp \/ ReadUdp \/ ErrorEvent \/ ReservedEvent
    BY <2>3 DEF ReportConnect, InvalidSocket, ReadTcp, ReadUdp, ErrorEvent, ReservedEvent, Event, workVars
  <2> QED
    BY <2>1, <2>2, <2>3 DEF MildSteps
<1>4. NetSame
  <2>1. CASE CloseSocket \/ Resume \/ Pause \/ TriggerWrite \/ DecSending \/ ExitCmd \/ ForceClose \/ ClearEvent \/ NoCommand
             \/ SpWait \/ VoidEvent \/ ReportConnect \/ InvalidSocket \/ ReservedEvent
    <3>1. net' = net
      BY <2>1 DEF CloseSocket, Resume, Pause, TriggerWrite, DecSending, ExitCmd, Adjust, ForceClose, ClearEvent, NoCommand, SpWait,
                  VoidEvent, ReportConnect, InvalidSocket, ReservedEvent
    <3> QED
      BY <3>1 DEF NetSame
  <2>2. CASE ReadTcp \/ ReadUdp \/ ErrorEvent
    <3>1. net' = net \/ net' = [net EXCEPT ![Y.id].inb = @ - 1] \/ net' = [net EXCEPT ![Y.id].rst = IF @ = "err" THEN "done" ELSE @]
      BY <2>2, Zenon DEF ReadTcp, ReadUdp, ErrorEvent
    <3>2. CASE Y.id \in Ids
      <4>1. net' = net \/ \E v : net' = [net EXCEPT ![Y.id].inb = v] \/ net' = [net EXCEPT ![Y.id].rst = v]
        BY <3>1, <3>2
      <4> QED
        BY <4>1, NetSet
    <3>3. CASE Y.id \notin Ids
      BY <3>1, <3>3 DEF TypeOK, NetSame
    <3> QED
      BY <3>2, <3>3
  <2> QED
    BY <2>1, <2>2 DEF MildSteps
<1>5. CASE ExitCmd \/ ClearEvent \/ NoCommand \/ SpWait \/ InvalidSocket \/ VoidEvent
  <2>1. slot' = slot
    BY <1>5 DEF ExitCmd, ClearEvent, NoCommand, SpWait, InvalidSocket, VoidEvent
  <2>2. \A id : ~Stores(id)
    <3>1. pipe' = pipe \/ (pipe # <<>> /\ Req.cmd = "exit")
      BY <1>5 DEF ExitCmd, ClearEvent, NoCommand, SpWait, InvalidSocket, VoidEvent, Event, Ctrl
    <3> QED
      BY <3>1, ServedPipe DEF Stores, Brings
  <2> QED
    BY <1>2, <1>3, <1>4, <2>1, <2>2, SetSteady, SetMild, MildThread
<1>6. CASE CloseSocket \/ Resume \/ Pause \/ TriggerWrite
  <2>1. Req.cmd # "C"
    BY <1>6 DEF CloseSocket, Resume, Pause, TriggerWrite, Adjust, Ctrl
  <2>2. \A id : ~Stores(id)
    BY <2>1 DEF Stores, Brings
  <2>3. ThreadSteady
    BY <1>6, CloseSocketStep, ResumeStep, AdjustStep DEF ThreadStep
  <2> QED
    BY <1>2, <1>3, <1>4, <1>6, <2>2, <2>3, MildRequest, MildThread
<1>7. CASE ReportConnect \/ ReadTcp \/ ReadUdp \/ ErrorEvent \/ ReservedEvent \/ ForceClose \/ DecSending
  <2>1. pipe' = pipe
    BY <1>7 DEF ReportConnect, ReadTcp, ReadUdp, ErrorEvent, ReservedEvent, Event, ForceClose, DecSending
  <2>2. \A id : ~Stores(id)
    BY <2>1, ServedPipe DEF Stores
  <2>3. ThreadSteady
    BY <1>7, ReportConnectStep, ReadTcpStep, ReadUdpStep, ErrorEventStep, ReservedEventStep, ForceCloseStep, DecSendingStep DEF ThreadStep
  <2>4. ThreadMild
    BY <1>7, MildEvent, MildClose
  <2> QED
    BY <1>2, <1>3, <1>4, <2>2, <2>3, <2>4, MildThread
<1> QED
  BY <1>5, <1>6, <1>7 DEF MildSteps

(* set_udp_address                                                         *)
LEMMA SetUdpAddressUdp ==
  ASSUME BaseInv, TypeOK', UdpInv, SetUdpAddress
  PROVE  UdpInv'
<1> USE DEF BaseInv
<1>1. /\ UNCHANGED <<scene, wk, conn, alloc, sent, wire>> /\ NetSame
      /\ Served /\ PipeServed /\ pipe # <<>> /\ Req.cmd = "C"
  BY DEF SetUdpAddress, Adjust, Ctrl, workVars, Served, PipeServed, NetSame
<1>2. Req.id \in Ids /\ H(Req.id) \in Slots /\ X \in Sockets /\ X = slot[H(Req.id)] /\ Req.n \in Nat
  BY <1>1, ReqType DEF X, TypeOK
<1>3. ThreadSteady
  BY AdjustStep DEF ThreadStep
<1>4. CASE Invalid(X, Req.id) \/ Req.n = 0
  <2>1. slot' = slot \/ slot' = [slot EXCEPT ![H(Req.id)] = X]
    BY <1>4 DEF SetUdpAddress, Adjust, SetSlot
  <2>2. \A id \in Ids : Serves(id) => ~Stores(id)
    BY <1>2, <1>4 DEF Serves, Stores, Brings, Invalid
  <2>3. ThreadMild
    BY <1>2, <2>1, SetMild DEF Mild
  <2> QED
    BY <1>1, <1>3, <2>2, <2>3, MildThread
<1>5. CASE ~Invalid(X, Req.id) /\ Req.n # 0
  <2>1. Alive(H(Req.id)) /\ X.id = Req.id
    BY <1>1, <1>5, LiveRequest DEF Opening
  <2>2. PICK y : y = [X EXCEPT !.address = Req.n, !.udpconnecting = @ - 1] /\ slot' = [slot EXCEPT ![H(Req.id)] = y]
    BY <1>5 DEF SetUdpAddress, Adjust, SetSlot
  <2>3. /\ y.address = Req.n /\ y.udpconnecting = X.udpconnecting - 1 /\ y.type = X.type /\ y.id = X.id /\ y.protocol = X.protocol
        /\ y.high = X.high /\ y.low = X.low /\ y.dw = X.dw
    BY <1>2, <2>2 DEF Sockets
  <2>4. \A i \in Slots : slot'[i] = IF i = H(Req.id) THEN y ELSE slot[i]
    BY <1>2, <2>2 DEF TypeOK
  <2>5. \A id : H(id)' = H(id)
    BY <1>1, SameTags
  <2>6. \A id : Stores(id) <=> id = Req.id
    BY <1>1, <1>5 DEF Stores, Brings
  <2>7. StoresRight
    <3> SUFFICES ASSUME NEW id \in Ids, Serves(id)'
                 PROVE  /\ Serves(id)
                        /\ IF Stores(id) THEN /\ Stored(slot'[H(id)]) = Req.n
                                              /\ slot'[H(id)].udpconnecting = slot[H(id)].udpconnecting - 1
                           ELSE /\ Stored(slot'[H(id)]) = Stored(slot[H(id)])
                                /\ slot'[H(id)].udpconnecting = slot[H(id)].udpconnecting
      BY DEF StoresRight
    <3>1. H(id) \in Slots /\ net[id].udp /\ slot'[H(id)].id = id /\ slot'[H(id)].type # "INVALID"
      BY <1>1, <2>5, UdpNumbers DEF Serves, NetSame
    <3>2. CASE H(id) = H(Req.id)
      BY <1>2, <2>1, <2>3, <2>4, <2>6, <3>1, <3>2 DEF Serves, Stored, Alive
    <3>3. CASE H(id) # H(Req.id)
      BY <2>4, <2>6, <3>1, <3>3 DEF Serves
    <3> QED
      BY <3>2, <3>3
  <2>8. SentInv' /\ ConnInv' /\ PendInv'
    BY <1>1, <2>7, SentThread, ConnThread, PendThread DEF UdpInv
  <2>9. \A i \in Slots : Alive(i)' => Alive(i) /\ slot'[i].id = slot[i].id /\ slot'[i].protocol = slot[i].protocol
    BY <1>3 DEF ThreadSteady, SteadyAt, Alive
  <2>10. KindInv'
    BY <1>1, <2>9, KindThread DEF UdpInv
  <2>11. ASSUME NEW i \in Slots, Alive(i)', slot'[i].protocol = "udp"
         PROVE  WaitsRight(slot'[i])
    <3>1. WaitsRight(slot[i])
      BY <2>9, <2>11 DEF UdpInv, ToInv, WaitsRight
    <3>2. slot'[i].high = slot[i].high /\ slot'[i].low = slot[i].low /\ slot'[i].dw = slot[i].dw
      BY <1>2, <2>3, <2>4
    <3> QED
      BY <3>1, <3>2 DEF WaitsRight
  <2>12. ASSUME NEW w \in Workers, wk[w].pc = "write", net[wk[w].id].udp
         PROVE  slot[H(wk[w].id)].address <= slot'[H(wk[w].id)].address
    <3>1. wk[w].id \in Ids /\ H(wk[w].id) \in Slots /\ slot[H(wk[w].id)].id = wk[w].id
      BY <2>12, HoldsLock
    <3>2. slot[H(wk[w].id)].address \in Nat
      BY <3>1 DEF TypeOK, Sockets
    <3>3. CASE H(wk[w].id) # H(Req.id)
      BY <2>4, <3>1, <3>2, <3>3
    <3>4. CASE H(wk[w].id) = H(Req.id)
      <4>1. net[Req.id].udp
        BY <1>2, <2>1, <2>12, <3>1, <3>4
      <4>2. Serves(Req.id) /\ Brings(pipe[1], Req.id) /\ Req = pipe[1] /\ 1 \in DOMAIN pipe
        BY <1>1, <1>2, <1>5, <2>1, <4>1, ServedPipe DEF Serves, Brings, Alive
      <4>3. Stored(X) < Req.n
        BY <1>2, <4>2 DEF UdpInv, ConnInv
      <4>4. X.address <= Req.n
        BY <1>2, <2>1, <4>3 DEF Stored, Alive, Sockets
      <4> QED
        BY <1>2, <2>3, <2>4, <3>1, <3>4, <4>4
    <3> QED
      BY <3>3, <3>4
  <2>13. ToInv'
    BY <1>1, <2>11, <2>12, ToThread DEF UdpInv, ToInv, WireRight
  <2> QED
    BY <2>8, <2>10, <2>13 DEF UdpInv
<1> QED
  BY <1>4, <1>5

(* A slot that served nobody is given to id.                               *)
LEMMA FreshTo ==
  ASSUME BaseInv, TypeOK', SentInv, ToInv, UNCHANGED <<scene, sent, wk, wire>>, NetSame, NEW id, NEW y, Fresh(id, y), ~Alive(H(id))
  PROVE  ToInv'
<1> USE DEF BaseInv
<1>1. slot'[H(id)] = y /\ \A j \in Slots : j # H(id) => slot'[j] = slot[j]
  BY DEF Fresh, TypeOK
<1>2. ASSUME NEW i \in Slots, Alive(i)', slot'[i].protocol = "udp" PROVE WaitsRight(slot'[i])
  <2>1. CASE i = H(id)
    BY <1>1, <2>1 DEF Fresh, BufferEmpty, WaitsRight, MayWait
  <2>2. CASE i # H(id)
    BY <1>1, <1>2, <2>2 DEF ToInv, WaitsRight, Alive
  <2> QED
    BY <2>1, <2>2
<1>3. \A m \in Ids : net[m].udp => WireRight(wire'[m])
  BY DEF ToInv, WireRight
<1>4. ASSUME NEW w \in Workers, wk[w].pc = "write" PROVE slot[H(wk[w].id)].address <= slot'[H(wk[w].id)].address
  <2>1. H(wk[w].id) \in Slots /\ Alive(H(wk[w].id))
    BY <1>4, HoldsLock
  <2>2. slot'[H(wk[w].id)] = slot[H(wk[w].id)] /\ slot[H(wk[w].id)].address \in Nat
    BY <1>1, <2>1 DEF TypeOK, Sockets
  <2> QED
    BY <2>2
<1> QED
  BY <1>2, <1>3, <1>4, ToThread

(* The slot of a request that opens an id is set up: it has no address yet. *)
LEMMA OpeningUdp ==
  ASSUME BaseInv, TypeOK', UdpInv, OpenSocket \/ ListenSocket \/ BindSocket \/ AddUdpSocket
  PROVE  UdpInv'
<1> USE DEF BaseInv
<1>1. /\ UNCHANGED <<scene, wk, conn, alloc, sent, wire>> /\ NetSame
      /\ Served /\ PipeServed /\ pipe # <<>> /\ Req.cmd \in Opening
  BY DEF OpenSocket, ListenSocket, BindSocket, AddUdpSocket, NoSocket, SetUp, Ctrl, workVars, Served, PipeServed, NetSame, Opening
<1>2. PICK y \in Sockets : Fresh(Req.id, y) /\ Readied(y)
  BY OpeningFresh
<1>3. Req.id \in Ids /\ H(Req.id) \in Slots /\ X \in Sockets /\ X = slot[H(Req.id)] /\ X.type = "RESERVE" /\ X.id = Req.id
  BY <1>1, ReservedRequest
<1>4. /\ slot'[H(Req.id)] = y /\ y.id = Req.id
      /\ \A j \in Slots : j # H(Req.id) => slot'[j] = slot[j]
  BY <1>2 DEF Fresh, TypeOK
<1>5. \A id : H(id)' = H(id)
  BY <1>1, SameTags
<1>6. \A id : ~Stores(id)
  BY <1>1 DEF Stores, Brings, Opening
<1>7. StoresRight
  <2> SUFFICES ASSUME NEW id \in Ids, Serves(id)'
               PROVE  Serves(id) /\ Stored(slot'[H(id)]) = Stored(slot[H(id)]) /\ slot'[H(id)].udpconnecting = slot[H(id)].udpconnecting
    BY <1>6 DEF StoresRight
  <2>1. H(id) \in Slots /\ net[id].udp /\ slot'[H(id)].id = id /\ slot'[H(id)].type # "INVALID"
    BY <1>1, <1>5, UdpNumbers DEF Serves, NetSame
  <2>2. CASE H(id) = H(Req.id)
    BY <1>2, <1>3, <1>4, <2>1, <2>2 DEF Readied, Serves, Stored
  <2>3. CASE H(id) # H(Req.id)
    BY <1>4, <2>1, <2>3 DEF Serves
  <2> QED
    BY <2>2, <2>3
<1>8. SentInv' /\ ConnInv' /\ PendInv'
  BY <1>1, <1>7, SentThread, ConnThread, PendThread DEF UdpInv
<1>9. ASSUME NEW i \in Slots, Alive(i)'
      PROVE  \/ Alive(i) /\ slot'[i].id = slot[i].id /\ slot'[i].protocol = slot[i].protocol
             \/ Served /\ Req.cmd \in Opening /\ slot'[i].id = Req.id /\ (slot'[i].protocol = "udp" <=> Req.cmd = "U")
  BY <1>1, <1>2, <1>4, <1>9 DEF Alive, Readied
<1>10. KindInv'
  BY <1>1, <1>9, KindThread DEF UdpInv
<1>11. ToInv'
  BY <1>1, <1>2, <1>3, FreshTo DEF UdpInv, Alive
<1> QED
  BY <1>8, <1>10, <1>11 DEF UdpInv

(* A connection is accepted: its id is not one for datagrams.              *)
LEMMA AcceptUdp ==
  ASSUME BaseInv, TypeOK', UdpInv, ReportAccept
  PROVE  UdpInv'
<1> USE DEF BaseInv
<1>1. UNCHANGED <<scene, wk, conn, pipe, sent, wire>> /\ PipeServed
  BY DEF ReportAccept, Event, workVars, PipeServed
<1>2. NetSame
  <2>1. net' = net \/ net' = [net EXCEPT ![Y.id].inb = @ - 1]
    BY Zenon DEF ReportAccept
  <2>2. CASE Y.id \in Ids
    BY <2>1, <2>2, NetSet
  <2>3. CASE Y.id \notin Ids
    BY <2>1, <2>3 DEF TypeOK, NetSame
  <2> QED
    BY <2>2, <2>3
<1>3. alloc' = alloc \/ (alloc' \in Nat /\ alloc' >= alloc)
  <2>1. alloc' = alloc \/ \E id \in FreeIds : alloc' = id /\ id <= scene.ids
    BY Zenon DEF ReportAccept, Accept
  <2> QED
    BY <2>1, FreeIdType DEF TypeOK
<1>4. \A id : ~Stores(id)
  BY <1>1, ServedPipe DEF Stores
<1>5. CASE slot' = slot
  <2>1. ThreadSteady /\ ThreadMild
    BY <1>5, SetSteady, SetMild
  <2>2. StoresRight
    BY <1>1, <1>2, <1>4, <1>5, SameTags DEF StoresRight, Serves, NetSame
  <2>3. SentInv' /\ ConnInv' /\ PendInv'
    BY <1>1, <1>2, <1>3, <2>2, SentThread, ConnThread, PendThread DEF UdpInv
  <2>4. KindInv'
    BY <1>1, <1>2, <1>3, <1>5, KindThread DEF UdpInv, Alive
  <2>5. \A i \in Slots : Alive(i)' /\ slot'[i].protocol = "udp" => WaitsRight(slot'[i])
    BY <1>5 DEF UdpInv, ToInv, WaitsRight, Alive
  <2>6. \A m \in Ids : net[m].udp => WireRight(wire'[m])
    BY <1>1 DEF UdpInv, ToInv, WireRight
  <2>7. ASSUME NEW w \in Workers, wk[w].pc = "write" PROVE slot[H(wk[w].id)].address <= slot'[H(wk[w].id)].address
    <3>1. slot[H(wk[w].id)].address \in Nat
      BY <2>7, HoldsLock DEF TypeOK, Sockets
    <3> QED
      BY <1>5, <3>1
  <2>8. ToInv'
    BY <1>1, <1>2, <2>5, <2>6, <2>7, ToThread DEF UdpInv
  <2> QED
    BY <2>3, <2>4, <2>8 DEF UdpInv
<1>6. CASE slot' # slot
  <2>1. PICK id \in Ids, y \in Sockets : Fresh(id, y) /\ y.protocol # "udp" /\ id > alloc
    BY <1>6, AcceptFresh
  <2>2. ~net[id].udp
    BY <2>1 DEF UdpInv, KindInv
  <2>3. H(id) \in Slots /\ slot'[H(id)] = y /\ y.id = id /\ \A j \in Slots : j # H(id) => slot'[j] = slot[j]
    BY <2>1 DEF Fresh, TypeOK
  <2>4. StoresRight
    <3> SUFFICES ASSUME NEW m \in Ids, Serves(m)'
                 PROVE  Serves(m) /\ slot'[H(m)] = slot[H(m)]
      BY <1>4 DEF StoresRight
    <3>1. H(m) \in Slots /\ net[m].udp /\ slot'[H(m)].id = m /\ slot'[H(m)].type # "INVALID"
      BY <1>1, <1>2, SameTags, UdpNumbers DEF Serves, NetSame
    <3>2. H(m) # H(id)
      BY <2>2, <2>3, <3>1
    <3> QED
      BY <2>3, <3>1, <3>2 DEF Serves
  <2>5. SentInv' /\ ConnInv' /\ PendInv'
    BY <1>1, <1>2, <1>3, <2>4, SentThread, ConnThread, PendThread DEF UdpInv
  <2>6. ASSUME NEW i \in Slots, Alive(i)'
        PROVE  \/ Alive(i) /\ slot'[i].id = slot[i].id /\ slot'[i].protocol = slot[i].protocol
               \/ slot'[i].id \in Ids /\ slot'[i].id > alloc /\ slot'[i].protocol # "udp"
    BY <2>1, <2>3, <2>6 DEF Alive
  <2>7. KindInv'
    BY <1>1, <1>2, <1>3, <2>6, KindThread DEF UdpInv
  <2>8. ~Alive(H(id))
    <3>1. PICK i \in FreeIds : Accept(i)
      BY <1>6, Zenon DEF ReportAccept
    <3>2. i <= scene.ids /\ \E z : slot' = [slot EXCEPT ![H(i)] = z]
      BY <3>1 DEF Accept, SetSlot
    <3>3. H(i) \in Slots /\ slot[H(i)].type = "INVALID"
      BY <3>2, FreeIdType
    <3>4. H(i) = H(id)
      <4>1. slot[H(id)] # y
        <5>1. slot \in [Slots -> Sockets] /\ slot' = [slot EXCEPT ![H(id)] = y]
          BY <2>1 DEF TypeOK, Fresh
        <5> QED
          BY <1>6, <2>3, <5>1
      <4> QED
        BY <2>3, <3>2, <3>3, <4>1 DEF TypeOK
    <3> QED
      BY <3>3, <3>4 DEF Alive
  <2>9. ToInv'
    BY <1>1, <1>2, <2>1, <2>8, FreshTo DEF UdpInv
  <2> QED
    BY <2>5, <2>7, <2>9 DEF UdpInv
<1> QED
  BY <1>5, <1>6

(* The socket thread changes a socket it serves, but not where it sends to, *)
(* and may write.                                                          *)
LEMMA SetUdp ==
  ASSUME BaseInv, TypeOK', UdpInv, NEW i \in Slots, Alive(i), NEW y, slot' = [slot EXCEPT ![i] = y],
         y.id = slot[i].id, y.protocol = slot[i].protocol, y.address = slot[i].address, y.udpconnecting = slot[i].udpconnecting,
         y.type # "RESERVE", y.type # "INVALID" /\ y.protocol = "udp" => WaitsRight(y),
         PipeServed, Served => Req.cmd # "C", NetSame, UNCHANGED <<scene, wk, conn, alloc, sent>>,
         wire' = wire \/ \E id \in 1 .. alloc : \E s : wire' = [wire EXCEPT ![id] = s],
         \A id \in Ids : net[id].udp => WireRight(wire'[id])
  PROVE  UdpInv'
<1> USE DEF BaseInv
<1>1. slot'[i] = y /\ \A j \in Slots : j # i => slot'[j] = slot[j]
  BY DEF TypeOK
<1>2. StoresRight
  <2> SUFFICES ASSUME NEW id \in Ids, Serves(id)'
               PROVE  Serves(id) /\ Stored(slot'[H(id)]) = Stored(slot[H(id)]) /\ slot'[H(id)].udpconnecting = slot[H(id)].udpconnecting
    BY DEF StoresRight, Stores, Brings
  <2>1. H(id) \in Slots /\ net[id].udp /\ slot'[H(id)].id = id /\ slot'[H(id)].type # "INVALID"
    BY SameTags, UdpNumbers DEF Serves, NetSame
  <2>2. CASE H(id) = i
    BY <1>1, <2>1, <2>2 DEF Serves, Stored, Alive
  <2>3. CASE H(id) # i
    BY <1>1, <2>1, <2>3 DEF Serves
  <2> QED
    BY <2>2, <2>3
<1>3. SentInv' /\ ConnInv' /\ PendInv'
  BY <1>2, SentThread, ConnThread, PendThread DEF UdpInv
<1>4. \A j \in Slots : Alive(j)' => Alive(j) /\ slot'[j].id = slot[j].id /\ slot'[j].protocol = slot[j].protocol
  BY <1>1 DEF Alive
<1>5. KindInv'
  <2>1. \A id \in Ids : id > alloc => wire'[id] = wire[id]
    BY IdsAreNat DEF TypeOK
  <2> QED
    BY <1>4, <2>1, KindThread DEF UdpInv
<1>6. ASSUME NEW j \in Slots, Alive(j)', slot'[j].protocol = "udp" PROVE WaitsRight(slot'[j])
  <2>1. CASE j = i
    BY <1>1, <1>6, <2>1 DEF Alive
  <2>2. CASE j # i
    BY <1>1, <1>6, <2>2 DEF UdpInv, ToInv, WaitsRight, Alive
  <2> QED
    BY <2>1, <2>2
<1>7. ASSUME NEW w \in Workers, wk[w].pc = "write" PROVE slot[H(wk[w].id)].address <= slot'[H(wk[w].id)].address
  <2>1. H(wk[w].id) \in Slots /\ slot[H(wk[w].id)].address \in Nat
    BY <1>7, HoldsLock DEF TypeOK, Sockets
  <2> QED
    BY <1>1, <2>1
<1>8. ToInv'
  BY <1>6, <1>7, ToThread DEF UdpInv
<1> QED
  BY <1>3, <1>5, <1>8 DEF UdpInv

(* Pieces of a wire and pieces that are written go on as they are.         *)
LEMMA ExtendRight ==
  ASSUME NEW s \in Seq(Pieces), NEW out \in Seq(Pieces), WireRight(s), WireRight(out)
  PROVE  WireRight(Extend(s, out))
<1> DEFINE join == s # <<>> /\ out # <<>> /\ s[Len(s)].p = out[1].p /\ End(s[Len(s)]) = out[1].off
           Good(u) == MayGo(u.p, u.to) /\ (~sent[u.p].retried => u.to > 0)
<1>1. (\A k \in DOMAIN s : Good(s[k])) /\ (\A k \in DOMAIN out : Good(out[k]))
  BY DEF WireRight
<1>2. \A c \in Seq(Pieces) : (\A k \in DOMAIN c : Good(c[k])) => WireRight(c)
  BY DEF WireRight
<1>3. \A a, b : a.p = b.p /\ a.to = b.to /\ Good(b) => Good(a)
  OBVIOUS
<1> HIDE DEF Good
<1>4. \A c, d \in Seq(Pieces) : (\A k \in DOMAIN c : Good(c[k])) /\ (\A k \in DOMAIN d : Good(d[k])) => \A k \in DOMAIN (c \o d) : Good((c \o d)[k])
  <2> TAKE c, d \in Seq(Pieces)
  <2> HAVE (\A k \in DOMAIN c : Good(c[k])) /\ (\A k \in DOMAIN d : Good(d[k]))
  <2> TAKE k \in DOMAIN (c \o d)
  <2>1. CASE k <= Len(c)
    <3>1. k \in DOMAIN c /\ (c \o d)[k] = c[k]
      BY <2>1
    <3> QED
      BY <3>1
  <2>2. CASE ~(k <= Len(c))
    <3>1. k - Len(c) \in DOMAIN d /\ (c \o d)[k] = d[k - Len(c)]
      BY <2>2
    <3> QED
      BY <3>1
  <2> QED
    BY <2>1, <2>2
<1>5. CASE join
  <2>1. s # <<>> /\ out # <<>> /\ Len(s) \in DOMAIN s /\ s[Len(s)] \in Pieces /\ out[1] \in Pieces
    BY <1>5
  <2> DEFINE u == [s[Len(s)] EXCEPT !.n = @ + out[1].n]
             t == [s EXCEPT ![Len(s)] = u]
  <2>2. u.p = s[Len(s)].p /\ u.to = s[Len(s)].to
    BY <2>1 DEF Pieces
  <2>3. u \in Pieces
    <3>1. ASSUME NEW a \in Pieces, NEW b \in Pieces PROVE [a EXCEPT !.n = @ + b.n] \in Pieces
      <4>1. ASSUME NEW n \in Int PROVE [a EXCEPT !.n = n] \in Pieces
        BY DEF Pieces
      <4>2. a.n + b.n \in Int
        BY DEF Pieces
      <4> QED
        BY <4>1, <4>2
    <3> QED
      BY <2>1, <3>1
  <2>4. Extend(s, out) = t \o Tail(out)
    BY <1>5 DEF Extend
  <2> HIDE DEF u, join
  <2>5. t \in Seq(Pieces) /\ DOMAIN t = DOMAIN s /\ \A k \in DOMAIN s : t[k] = IF k = Len(s) THEN u ELSE s[k]
    BY <2>1, <2>3
  <2>6. Tail(out) \in Seq(Pieces) /\ \A k \in DOMAIN Tail(out) : k + 1 \in DOMAIN out /\ Tail(out)[k] = out[k + 1]
    BY <2>1
  <2> HIDE DEF t
  <2>7. \A k \in DOMAIN t : Good(t[k])
    BY <1>1, <1>3, <2>1, <2>2, <2>5
  <2>8. \A k \in DOMAIN Tail(out) : Good(Tail(out)[k])
    BY <1>1, <2>6
  <2>9. t \o Tail(out) \in Seq(Pieces)
    BY <2>5, <2>6
  <2> QED
    BY <1>2, <1>4, <2>4, <2>5, <2>6, <2>7, <2>8, <2>9
<1>6. CASE ~join
  <2>1. Extend(s, out) = s \o out /\ s \o out \in Seq(Pieces)
    BY <1>6 DEF Extend
  <2> QED
    BY <1>1, <1>2, <1>4, <2>1
<1> QED
  BY <1>5, <1>6

(* send_socket: a datagram goes to the address it carries or to the one    *)
(* that is stored, which is no older than the last connect of its sender.  *)
LEMMA SendSocketUdp ==
  ASSUME BaseInv, TypeOK', UdpInv, SendSocket
  PROVE  UdpInv'
<1> USE DEF BaseInv
<1>1. /\ Ctrl(Data) /\ pipe # <<>> /\ Req.cmd \in Data /\ UNCHANGED <<scene, wk, conn, alloc, sent, net>>
      /\ Served /\ PipeServed /\ NetSame /\ Req.cmd # "C"
  BY SendSocketSlot DEF Ctrl, workVars, Served, PipeServed, NetSame, Data
<1>2. Req.id \in Ids /\ H(Req.id) \in Slots /\ X \in Sockets /\ X = slot[H(Req.id)] /\ Req = pipe[1] /\ 1 \in DOMAIN pipe
  BY <1>1, ReqType, ServedPipe DEF X, Data
<1>3. /\ Req.p \in DOMAIN sent /\ sent[Req.p].id = Req.id /\ sent[Req.p].kind = Req.cmd
      /\ sent[Req.p].udp <=> net[Req.id].udp
  BY <1>1, <1>2 DEF UdpInv, SentInv, HandedFor, Data
<1> DEFINE to == IF ~sent[Req.p].udp THEN 0 ELSE IF Req.cmd = "A" THEN MaxCalls + 1 ELSE X.address
           b == Buffer(Req.p, 0, to)
           drop == Refused(X, Req.id) \/ (BufferEmpty(X) /\ X.protocol = "udp" /\ to = 0)
<1>4. \/ drop /\ UNCHANGED <<slot, wire>>
      \/ ~drop /\ \E toLow \in BOOLEAN : SetSlot(H(Req.id), Appended(X, b, toLow)) /\ UNCHANGED wire
      \/ ~drop /\ X.protocol = "udp" /\ BufferEmpty(X) /\ wire' = [wire EXCEPT ![Req.id] = Extend(@, <<Piece(b, 1)>>)] /\ UNCHANGED slot
  BY Zenon DEF SendSocket
<1>5. b.p = Req.p /\ b.to = to /\ to \in Nat /\ b \in Buffers
  <2>1. MaxCalls + 1 \in Nat
    BY Scene DEF MaxCalls, TypeOK
  <2>2. X.address \in Nat /\ Req.p \in Nat
    BY <1>1, <1>2, ReqType DEF Sockets
  <2> QED
    BY <2>1, <2>2 DEF Buffer, Buffers
<1>6. \A id \in Ids : net[id].udp => WireRight(wire[id])
  BY DEF UdpInv, ToInv, WireRight
<1>7. CASE drop /\ UNCHANGED <<slot, wire>>
  <2>1. ThreadSteady /\ ThreadMild
    BY <1>7, SetSteady, SetMild
  <2>2. \A id : ~Stores(id)
    BY <1>1 DEF Stores, Brings
  <2> QED
    BY <1>1, <1>7, <2>1, <2>2, MildThread
<1>8. ASSUME ~drop
      PROVE  Alive(H(Req.id)) /\ X.id = Req.id /\ (net[Req.id].udp <=> X.protocol = "udp")
             /\ (X.protocol = "udp" => MayGo(Req.p, to))
  <2>1. Alive(H(Req.id)) /\ X.id = Req.id
    BY <1>1, <1>8, LiveRequest DEF Refused, Opening, Data
  <2>2. net[Req.id].udp <=> X.protocol = "udp"
    BY <1>2, <2>1 DEF UdpInv, KindInv
  <2>3. ASSUME X.protocol = "udp", sent[Req.p].kind # "A" PROVE to >= sent[Req.p].since
    <3>1. Serves(Req.id) /\ pipe[1].cmd \in {"D", "P"} /\ pipe[1].id = Req.id
      BY <1>1, <1>2, <1>3, <2>1, <2>2, <2>3 DEF Serves, Alive, Data
    <3>2. Known(1, Req.id, sent[Req.p].since)
      BY <1>2, <3>1 DEF UdpInv, ConnInv
    <3>3. sent[Req.p].since <= X.address
      <4>1. \A j \in DOMAIN pipe : ~(j < 1)
        BY PipeEntries
      <4>2. Stored(slot[H(Req.id)]) = X.address
        BY <1>2, <2>1 DEF Stored, Alive
      <4> QED
        BY <3>2, <4>1, <4>2 DEF Known, AskedBefore
    <3>4. sent[Req.p].since \in Nat /\ to = X.address
      BY <1>3, <2>2, <2>3, UdpNumbers
    <3> QED
      BY <1>5, <3>3, <3>4
  <2>4. X.protocol = "udp" => MayGo(Req.p, to)
    BY <1>3, <2>2, <2>3 DEF MayGo
  <2> QED
    BY <2>1, <2>2, <2>4
<1>9. ASSUME NEW toLow \in BOOLEAN, ~drop, SetSlot(H(Req.id), Appended(X, b, toLow)), wire' = wire PROVE UdpInv'
  <2> HIDE DEF drop, b, to
  <2>1. PICK y : y = Appended(X, b, toLow)
    OBVIOUS
  <2>2. /\ y.id = X.id /\ y.protocol = X.protocol /\ y.dw = X.dw /\ y.type = X.type
        /\ y.high = IF toLow THEN X.high ELSE Append(X.high, b)
        /\ y.low = IF toLow THEN Append(X.low, b) ELSE X.low
    BY <1>2, <2>1, AppendedFields
  <2>3. y.address = X.address /\ y.udpconnecting = X.udpconnecting
    BY <1>2, <2>1 DEF Appended, Sockets
  <2>4. slot' = [slot EXCEPT ![H(Req.id)] = y]
    BY <1>9, <2>1 DEF SetSlot
  <2>5. ASSUME y.protocol = "udp" PROVE WaitsRight(y)
    <3>1. WaitsRight(X)
      BY <1>2, <1>8, <1>9, <2>2, <2>5 DEF UdpInv, ToInv, WaitsRight
    <3>2. MayGo(b.p, b.to)
      BY <1>5, <1>8, <1>9, <2>2, <2>5
    <3>3. ASSUME NEW list \in Seq(Buffers), MayWait(list) PROVE MayWait(Append(list, b))
      <4>1. \A k \in DOMAIN Append(list, b) : (k \in DOMAIN list /\ Append(list, b)[k] = list[k]) \/ Append(list, b)[k] = b
        BY <1>5, <3>3
      <4> QED
        BY <3>2, <3>3, <4>1 DEF MayWait
    <3>4. X.high \in Seq(Buffers) /\ X.low \in Seq(Buffers)
      BY <1>2 DEF Sockets
    <3> QED
      BY <2>2, <3>1, <3>3, <3>4 DEF WaitsRight
  <2>6. Alive(H(Req.id)) /\ y.type # "RESERVE" /\ Req.cmd # "C" /\ \A id \in Ids : net[id].udp => WireRight(wire'[id])
    BY <1>1, <1>2, <1>6, <1>8, <1>9, <2>2 DEF Alive
  <2> QED
    BY <1>1, <1>2, <1>9, <2>2, <2>3, <2>4, <2>5, <2>6, SetUdp
<1>10. ASSUME ~drop, X.protocol = "udp", BufferEmpty(X), wire' = [wire EXCEPT ![Req.id] = Extend(@, <<Piece(b, 1)>>)], slot' = slot
       PROVE  UdpInv'
  <2>1. to > 0 /\ MayGo(Req.p, to)
    BY <1>5, <1>8, <1>10
  <2> HIDE DEF drop, to
  <2>2. PICK u : u = Piece(b, 1)
    OBVIOUS
  <2>3. u \in Pieces /\ u.p = Req.p /\ u.to = to
    BY <1>5, <2>2 DEF Piece, Pieces, Buffers
  <2> HIDE DEF b
  <2>4. <<u>> \in Seq(Pieces) /\ WireRight(<<u>>)
    BY <2>1, <2>3 DEF WireRight
  <2>5. wire[Req.id] \in Seq(Pieces) /\ net[Req.id].udp /\ Req.id \in 1 .. alloc
    BY <1>1, <1>2, <1>8, <1>10 DEF TypeOK, PipeInv, Data
  <2>6. WireRight(Extend(wire[Req.id], <<u>>))
    BY <1>2, <1>6, <2>4, <2>5, ExtendRight
  <2>7. \A id \in Ids : net[id].udp => WireRight(wire'[id])
    BY <1>2, <1>6, <1>10, <2>2, <2>6 DEF TypeOK
  <2>8. slot' = [slot EXCEPT ![H(Req.id)] = X] /\ X.type # "RESERVE" /\ Alive(H(Req.id))
    BY <1>2, <1>8, <1>10 DEF TypeOK, Alive
  <2>9. WaitsRight(X)
    BY <1>2, <1>8, <1>10 DEF UdpInv, ToInv, WaitsRight
  <2> QED
    BY <1>1, <1>2, <1>10, <2>5, <2>7, <2>8, <2>9, SetUdp
<1> HIDE DEF drop, b
<1> QED
  BY <1>4, <1>7, <1>9, <1>10

(* What a list of datagrams is written to, and what stays in it.           *)
LEMMA OutcomeRight ==
  ASSUME NEW list \in Seq(Buffers), MayWait(list), NEW reset, NEW r, r = Nothing \/ r \in Outcomes(list, TRUE, reset)
  PROVE  MayWait(Rest(list, r)) /\ WireRight(Written(list, r))
<1>1. Fits(r, list) /\ r.n = 0 /\ \A j \in 1 .. r.m : list[j].to # 0
  <2>1. Fits(r, list)
    BY OutcomeFits
  <2>2. CASE r = Nothing
    BY <2>1, <2>2 DEF Nothing
  <2>3. CASE r \in Outcomes(list, TRUE, reset)
    BY <2>1, <2>3 DEF Outcomes
  <2> QED
    BY <2>1, <2>2, <2>3
<1>2. DOMAIN list = 1 .. Len(list) /\ Len(list) \in Nat /\ r.m \in Nat /\ r.drop \in Nat /\ r.m + r.drop <= Len(list) /\ r.m <= Len(list)
  BY <1>1 DEF Fits
<1>3. ASSUME NEW j \in DOMAIN Rest(list, r) PROVE MayGo(Rest(list, r)[j].p, Rest(list, r)[j].to)
  <2>1. j \in 1 .. Len(list) - r.m - r.drop
    BY DEF Rest
  <2>2. r.m + r.drop + j \in DOMAIN list
    BY <1>2, <2>1
  <2>3. Rest(list, r)[j] = LET b == list[r.m + r.drop + j] IN IF j = 1 THEN [b EXCEPT !.off = @ + r.n] ELSE b
    BY <2>1 DEF Rest
  <2>4. list[r.m + r.drop + j] \in Buffers /\ MayGo(list[r.m + r.drop + j].p, list[r.m + r.drop + j].to)
    BY <2>2 DEF MayWait
  <2>5. Rest(list, r)[j].p = list[r.m + r.drop + j].p /\ Rest(list, r)[j].to = list[r.m + r.drop + j].to
    BY <2>3, <2>4 DEF Buffers
  <2> QED
    BY <2>4, <2>5
<1>4. ASSUME NEW j \in DOMAIN Written(list, r) PROVE MayGo(Written(list, r)[j].p, Written(list, r)[j].to) /\ Written(list, r)[j].to > 0
  <2>1. j \in 1 .. r.m
    BY <1>1, <1>2 DEF Written
  <2>2. Written(list, r)[j].p = list[j].p /\ Written(list, r)[j].to = list[j].to
    BY <1>1, <1>2, <2>1 DEF Written, Piece
  <2>3. j \in DOMAIN list /\ list[j] \in Buffers /\ list[j].to # 0
    BY <1>1, <1>2, <2>1
  <2>4. list[j].to > 0 /\ MayGo(list[j].p, list[j].to)
    BY <2>3 DEF MayWait, Buffers
  <2> QED
    BY <2>2, <2>4
<1> QED
  BY <1>3, <1>4 DEF MayWait, WireRight

(* send_buffer: only the rest of a direct write goes to another address.   *)
LEMMA SendBufferUdp ==
  ASSUME BaseInv, TypeOK', UdpInv, SendBuffer
  PROVE  UdpInv'
<1> USE DEF BaseInv
<1>1. /\ Event(Plain) /\ UNCHANGED <<scene, wk, conn, alloc, sent, pipe>>
      /\ Alive(E0.slot) /\ E0.slot \in Slots /\ Y \in Sockets /\ Y = slot[E0.slot]
  BY SendBufferCases, LiveEvent DEF Plain, workVars
<1>2. PipeServed /\ ~Served
  BY <1>1, ServedPipe DEF PipeServed
<1>3. \A id \in Ids : net[id].udp => WireRight(wire[id])
  BY DEF UdpInv, ToInv, WireRight
<1>4. Y.id \in Ids /\ Y.id \in 1 .. alloc /\ (net[Y.id].udp <=> Y.protocol = "udp")
  BY <1>1, GivenIds DEF SlotInv, Alive, UdpInv, KindInv
<1>5. CASE UNCHANGED <<slot, net, wire>>
  <2>1. ThreadSteady /\ ThreadMild
    BY <1>5, SetSteady, SetMild
  <2> QED
    BY <1>1, <1>2, <1>5, <2>1, MildThread DEF NetSame, Stores
<1>6. ASSUME NEW a \in Nat, NEW x \in Sockets, NEW y \in Sockets, x = WithDirect(Y, a),
             ByError(x, y) \/ \E h, l, r : ByWrite(x, y, h, l, r)
      PROVE  UdpInv'
  <2>1. Kept(Y, x) /\ x.type = Y.type /\ x.dw = None /\ x.low = Y.low
        /\ x.high = IF Y.dw = None THEN Y.high ELSE <<[Y.dw EXCEPT !.to = a]>> \o Y.high
    BY <1>1, <1>6, WithDirectType
  <2>2. x.high \in Seq(Buffers) /\ x.low \in Seq(Buffers)
    BY DEF Sockets
  <2>3. CASE ByError(x, y)
    <3>1. /\ slot' = [slot EXCEPT ![E0.slot] = y] /\ Kept(x, y) /\ wire' = wire /\ Y.protocol # "udp"
          /\ y.type \in {"INVALID", "HALFCLOSE_WRITE"}
      BY <2>3 DEF ByError, AfterError
    <3>2. x.id \in Ids
      BY <1>4, <2>1 DEF Kept
    <3>3. NetSame
      <4>1. net' = [net EXCEPT ![x.id].rst = "done", ![x.id].shut = @ \/ ~((x.closing \/ x.type = "HALFCLOSE_READ") \/ x.type = "HALFCLOSE_WRITE")]
        BY <2>3 DEF ByError, WriteError
      <4>2. \E v, u : net' = [net EXCEPT ![x.id].rst = v, ![x.id].shut = u]
        BY <3>2, <4>1 DEF TypeOK
      <4> QED
        BY <4>2, NetSet
    <3>4. y.id = Y.id /\ y.protocol = Y.protocol /\ y.address = Y.address /\ y.udpconnecting = Y.udpconnecting /\ y.type # "RESERVE"
      BY <2>1, <3>1 DEF Kept
    <3> QED
      BY <1>1, <1>2, <1>3, <3>1, <3>3, <3>4, SetUdp
  <2>4. ASSUME NEW h, NEW l, NEW r, ByWrite(x, y, h, l, r) PROVE UdpInv'
    <3>1. /\ slot' = [slot EXCEPT ![E0.slot] = y] /\ Kept(x, y) /\ y.dw = x.dw /\ y.high = r.high /\ y.low = r.low
          /\ y.type \in {"INVALID", x.type} /\ Sends(x, h, l, r) /\ net' = net
          /\ wire' = [wire EXCEPT ![x.id] = Extend(@, SentBy(x, h, l).out)] /\ SentBy(x, h, l).out \in Seq(Pieces)
          /\ Fits(h, x.high) /\ Fits(l, x.low)
      BY <2>4 DEF ByWrite, AfterWrite
    <3>2. PICK reset : LET udp == Y.protocol = "udp" IN h \in Outcomes(x.high, udp, reset) /\ (l = Nothing \/ l \in Outcomes(x.low, udp, reset))
      BY <2>4 DEF ByWrite
    <3>3. /\ y.id = Y.id /\ y.protocol = Y.protocol /\ y.address = Y.address /\ y.udpconnecting = Y.udpconnecting
          /\ y.type # "RESERVE" /\ x.id = Y.id
      BY <1>1, <2>1, <3>1 DEF Kept, Alive
    <3>4. NetSame /\ (Served => Req.cmd # "C")
      BY <1>2, <3>1 DEF NetSame
    <3>5. ASSUME Y.protocol = "udp" PROVE WaitsRight(y) /\ WireRight(Extend(wire[Y.id], SentBy(x, h, l).out))
      <4>1. WaitsRight(Y)
        BY <1>1, <3>5 DEF UdpInv, ToInv, WaitsRight
      <4>2. MayWait(x.high)
        <5>1. CASE Y.dw = None
          BY <2>1, <4>1, <5>1 DEF WaitsRight
        <5>2. CASE Y.dw # None
          <6> DEFINE b == [Y.dw EXCEPT !.to = a]
          <6>1. Y.dw \in Buffers /\ Y.high \in Seq(Buffers)
            BY <1>1, <5>2 DEF Sockets
          <6>2. b.p = Y.dw.p /\ b \in Buffers
            BY <6>1 DEF Buffers
          <6>3. MayGo(b.p, b.to)
            BY <4>1, <5>2, <6>2 DEF WaitsRight, Retried, MayGo
          <6> HIDE DEF b
          <6>4. \A k \in DOMAIN (<<b>> \o Y.high) : (<<b>> \o Y.high)[k] = b
                  \/ (k - 1 \in DOMAIN Y.high /\ (<<b>> \o Y.high)[k] = Y.high[k - 1])
            BY <6>1, <6>2
          <6>5. MayWait(<<b>> \o Y.high)
            BY <4>1, <6>3, <6>4 DEF WaitsRight, MayWait
          <6> QED
            BY <2>1, <5>2, <6>5 DEF b
        <5> QED
          BY <5>1, <5>2
      <4>3. MayWait(x.low)
        BY <2>1, <4>1 DEF WaitsRight
      <4>4. MayWait(Rest(x.high, h)) /\ WireRight(Written(x.high, h)) /\ MayWait(Rest(x.low, l)) /\ WireRight(Written(x.low, l))
        BY <2>2, <3>2, <3>5, <4>2, <4>3, OutcomeRight
      <4>5. Written(x.high, h) \in Seq(Pieces) /\ Written(x.low, l) \in Seq(Pieces)
        BY <2>2, <3>1, WrittenType
      <4>6. WireRight(SentBy(x, h, l).out)
        <5>1. SentBy(x, h, l).out = Written(x.high, h) \o Written(x.low, l)
          BY DEF SentBy
        <5>2. \A c, d \in Seq(Pieces) : WireRight(c) /\ WireRight(d) => WireRight(c \o d)
          <6> TAKE c, d \in Seq(Pieces)
          <6> HAVE WireRight(c) /\ WireRight(d)
          <6>1. \A k \in DOMAIN (c \o d) : (k \in DOMAIN c /\ (c \o d)[k] = c[k]) \/ (k - Len(c) \in DOMAIN d /\ (c \o d)[k] = d[k - Len(c)])
            OBVIOUS
          <6> QED
            BY <6>1 DEF WireRight
        <5> QED
          BY <4>4, <4>5, <5>1, <5>2
      <4>7. wire[Y.id] \in Seq(Pieces) /\ WireRight(wire[Y.id])
        BY <1>3, <1>4, <3>5 DEF TypeOK
      <4>8. WireRight(Extend(wire[Y.id], SentBy(x, h, l).out))
        BY <3>1, <4>6, <4>7, ExtendRight
      <4>9. MayWait(r.high) /\ MayWait(r.low)
        <5> DEFINE high == Rest(x.high, h)
                   low == Rest(x.low, l)
        <5>1. high \in Seq(Buffers) /\ low \in Seq(Buffers)
              /\ \/ r.high = high /\ r.low = low
                 \/ low # <<>> /\ r.high = <<Head(low)>> /\ r.low = Tail(low)
          BY <3>1 DEF Sends, Uncomplete
        <5> HIDE DEF high, low
        <5>2. ASSUME low \in Seq(Buffers), low # <<>>, MayWait(low) PROVE MayWait(<<Head(low)>>) /\ MayWait(Tail(low))
          <6>1. 1 \in DOMAIN low /\ Head(low) = low[1] /\ \A k \in DOMAIN Tail(low) : k + 1 \in DOMAIN low /\ Tail(low)[k] = low[k + 1]
            BY <5>2
          <6> QED
            BY <5>2, <6>1 DEF MayWait
        <5>3. MayWait(high) /\ MayWait(low)
          BY <4>4 DEF high, low
        <5> QED
          BY <5>1, <5>2, <5>3
      <4> QED
        BY <2>1, <3>1, <4>8, <4>9 DEF WaitsRight
    <3>6. \A id \in Ids : net[id].udp => WireRight(wire'[id])
      BY <1>3, <1>4, <3>1, <3>3, <3>5 DEF TypeOK
    <3>7. \E id \in 1 .. alloc : \E s : wire' = [wire EXCEPT ![id] = s]
      BY <1>4, <3>1, <3>3
    <3>8. y.type # "INVALID" /\ y.protocol = "udp" => WaitsRight(y)
      BY <3>3, <3>5
    <3> HIDE <3>5
    <3> QED
      BY <1>1, <1>2, <3>1, <3>3, <3>4, <3>6, <3>7, <3>8, SetUdp
  <2> QED
    BY <1>6, <2>3, <2>4
<1> QED
  BY <1>5, <1>6, SendBufferWays, Zenon

(* What the network does, and a step that does nothing.                    *)
LEMMA NetworkUdp ==
  ASSUME BaseInv, TypeOK', UdpInv, (\E id \in Ids : Network(id)) \/ UNCHANGED vars
  PROVE  UdpInv'
<1> USE DEF BaseInv
<1>1. UNCHANGED <<scene, slot, alloc, pipe, wire, wk, sent, conn>>
  BY DEF Network, vars
<1>2. NetSame
  <2>1. CASE UNCHANGED vars
    BY <2>1 DEF vars, NetSame
  <2>2. ASSUME NEW id \in Ids, Network(id) PROVE NetSame
    <3>1. net[id] \in NetRecs /\ net \in [Ids -> NetRecs]
      BY DEF TypeOK
    <3>2. ASSUME NEW m, net' = [net EXCEPT ![id] = m], m.udp = net[id].udp, m.conns = net[id].conns PROVE NetSame
      BY <3>1, <3>2 DEF NetSame
    <3>3. \E o, m : /\ net' = [net EXCEPT ![id] = m]
                    /\ \/ m = [net[id] EXCEPT !.est = o] \/ m = [net[id] EXCEPT !.inb = o]
                       \/ m = [net[id] EXCEPT !.fin = o] \/ m = [net[id] EXCEPT !.rst = o]
      BY <2>2, Zenon DEF Network
    <3>4. PICK o, m : /\ net' = [net EXCEPT ![id] = m]
                      /\ \/ m = [net[id] EXCEPT !.est = o] \/ m = [net[id] EXCEPT !.inb = o]
                         \/ m = [net[id] EXCEPT !.fin = o] \/ m = [net[id] EXCEPT !.rst = o]
      BY <3>3
    <3>5. m.udp = net[id].udp /\ m.conns = net[id].conns
      BY <3>1, <3>4 DEF NetRecs
    <3> QED
      BY <3>2, <3>4, <3>5
  <2> QED
    BY <2>1, <2>2
<1>3. ThreadSteady /\ ThreadMild
  BY <1>1, SetSteady, SetMild
<1>4. PipeServed /\ \A id : ~Stores(id)
  BY <1>1, ServedPipe DEF PipeServed, Stores
<1> QED
  BY <1>1, <1>2, <1>3, <1>4, MildThread

-----------------------------------------------------------------------------
(* Steps of a worker that reserve no id: they may put one request, and no  *)
(* address changes.                                                        *)
AddressSame == \A i \in Slots : slot'[i].address = slot[i].address
UdpSame == \A id \in Ids : net'[id].udp = net[id].udp /\ net'[id].conns >= net[id].conns

(* A request of a worker: it brings the newest address of its id, or       *)
(* carries a packet that was handed over.                                  *)
NewRequest(q) ==
  /\ Put(q) /\ q.cmd \notin Opening
  /\ \A id \in Ids : Brings(q, id) => q.n = net'[id].conns /\ net'[id].conns > net[id].conns
  /\ q.cmd \in Data => HandedFor(q.p, q.id, q.cmd)
  /\ q.cmd \in {"D", "P"} => q.p \in DOMAIN sent /\ \E w \in Workers : sent[q.p].since <= conn[<<w, q.id>>]
MayPut == pipe' = pipe \/ \E q : NewRequest(q)
ConnMoves ==
  \A w \in Workers, id \in Ids :
    conn'[<<w, id>>] = conn[<<w, id>>] \/ \E q : NewRequest(q) /\ Brings(q, id) /\ conn'[<<w, id>>] = q.n

LEMMA SameServed ==
  ASSUME BaseInv, UNCHANGED scene, WorkSteady, AddressSame, UdpSame
  PROVE  /\ \A id : H(id)' = H(id)
         /\ \A id \in Ids : Serves(id)' <=> Serves(id)
         /\ \A id \in Ids : Stored(slot'[H(id)]) = Stored(slot[H(id)]) /\ H(id) \in Slots
         /\ \A i \in Slots : Alive(i)' <=> Alive(i)
<1> USE DEF BaseInv
<1>1. \A id : H(id)' = H(id)
  BY SameTags
<1>2. \A id \in Ids : H(id) \in Slots
  BY UdpNumbers
<1> QED
  BY <1>1, <1>2 DEF WorkSteady, AddressSame, UdpSame, Serves, Stored, Alive

LEMMA KindWork ==
  ASSUME BaseInv, KindInv, UNCHANGED <<scene, alloc>>, WorkSteady, AddressSame, UdpSame, MayPut,
         \A id \in Ids : id > alloc => net'[id].conns = net[id].conns /\ wire'[id] = wire[id]
  PROVE  KindInv'
<1> USE DEF BaseInv
<1>1. Ids' = Ids /\ Slots' = Slots
  BY SameScene
<1>2. ASSUME NEW k \in DOMAIN pipe', pipe'[k].cmd \in Opening
      PROVE  net'[pipe'[k].id].udp <=> pipe'[k].cmd = "U"
  <2>1. k \in DOMAIN pipe /\ pipe'[k] = pipe[k]
    <3>1. CASE pipe' = pipe
      BY <1>2, <3>1
    <3>2. ASSUME NEW q, NewRequest(q) PROVE k \in DOMAIN pipe /\ pipe'[k] = pipe[k]
      <4>1. /\ q.cmd \notin Opening /\ DOMAIN pipe' = 1 .. Len(pipe) + 1 /\ pipe'[Len(pipe) + 1] = q /\ DOMAIN pipe = 1 .. Len(pipe)
            /\ Len(pipe) \in Nat /\ \A j \in 1 .. Len(pipe) : pipe'[j] = pipe[j]
        BY <3>2, PipeEntries DEF NewRequest
      <4> QED
        BY <1>2, <4>1
    <3> QED
      BY <3>1, <3>2 DEF MayPut
  <2>2. pipe[k].id \in Ids /\ (net[pipe[k].id].udp <=> pipe[k].cmd = "U")
    BY <1>2, <2>1, PipeEntries DEF KindInv
  <2> QED
    BY <2>1, <2>2 DEF UdpSame
<1>3. ASSUME NEW i \in Slots, Alive(i)' PROVE net'[slot'[i].id].udp <=> slot'[i].protocol = "udp"
  <2>1. Alive(i) /\ slot'[i].id = slot[i].id /\ slot'[i].protocol = slot[i].protocol
    BY <1>3 DEF WorkSteady, Alive
  <2>2. slot[i].id \in Ids
    BY <2>1, GivenIds DEF SlotInv, Alive
  <2> QED
    BY <2>1, <2>2 DEF KindInv, UdpSame
<1>4. ASSUME NEW id \in Ids, id > alloc PROVE ~net'[id].udp /\ net'[id].conns = 0 /\ wire'[id] = <<>>
  BY <1>4 DEF KindInv, UdpSame
<1> QED
  BY <1>1, <1>2, <1>3, <1>4 DEF KindInv

LEMMA SentWork ==
  ASSUME BaseInv, TypeOK', SentInv, UNCHANGED <<scene, alloc>>, SentStays, UdpSame, MayPut,
         \A w \in Workers, id \in Ids : conn'[<<w, id>>] \in Nat /\ conn'[<<w, id>>] >= conn[<<w, id>>],
         \A p \in DOMAIN sent' : p \notin DOMAIN sent => sent'[p].id \in 1 .. alloc /\ (sent'[p].udp <=> net[sent'[p].id].udp),
         \A w \in Workers : wk'[w] # wk[w] /\ wk'[w].pc \notin {"idle", "resolve"} =>
            HandedFor(wk[w].p, wk[w].id, wk[w].cmd)' /\ sent'[wk'[w].p].since <= conn[<<w, wk'[w].id>>] /\ wk'[w].id \in Ids
  PROVE  SentInv'
<1> USE DEF BaseInv
<1>1. \A id \in Ids : net'[id].udp = net[id].udp
  BY DEF UdpSame
<1>2. 1 .. alloc \subseteq Ids
  BY GivenIds
<1>3. ASSUME NEW p \in DOMAIN sent' PROVE sent'[p].id \in 1 .. alloc /\ (sent'[p].udp <=> net'[sent'[p].id].udp)
  <2>1. CASE p \in DOMAIN sent
    BY <1>1, <1>2, <2>1 DEF SentInv, SentStays
  <2>2. CASE p \notin DOMAIN sent
    BY <1>1, <1>2, <2>2
  <2> QED
    BY <2>1, <2>2
<1>4. \A p, id, kind : HandedFor(p, id, kind) => HandedFor(p, id, kind)'
  BY DEF HandedFor, SentStays
<1>5. ASSUME NEW k \in DOMAIN pipe', pipe'[k].cmd \in Data PROVE HandedFor(pipe[k].p, pipe[k].id, pipe[k].cmd)'
  <2>1. CASE k \in DOMAIN pipe /\ pipe'[k] = pipe[k]
    <3>1. HandedFor(pipe[k].p, pipe[k].id, pipe[k].cmd)
      BY <1>5, <2>1 DEF SentInv
    <3> QED
      BY <2>1, <3>1 DEF HandedFor, SentStays
  <2>2. CASE \E q : NewRequest(q) /\ pipe'[k] = q
    <3>1. PICK q : NewRequest(q) /\ pipe'[k] = q
      BY <2>2
    <3>2. HandedFor(q.p, q.id, q.cmd)
      BY <1>5, <3>1 DEF NewRequest
    <3> QED
      BY <3>1, <3>2 DEF HandedFor, SentStays
  <2>3. (k \in DOMAIN pipe /\ pipe'[k] = pipe[k]) \/ \E q : NewRequest(q) /\ pipe'[k] = q
    <3>1. CASE pipe' = pipe
      BY <1>5, <3>1
    <3>2. ASSUME NEW q, NewRequest(q) PROVE (k \in DOMAIN pipe /\ pipe'[k] = pipe[k]) \/ pipe'[k] = q
      <4>1. /\ DOMAIN pipe' = 1 .. Len(pipe) + 1 /\ pipe'[Len(pipe) + 1] = q /\ DOMAIN pipe = 1 .. Len(pipe)
            /\ Len(pipe) \in Nat /\ \A j \in 1 .. Len(pipe) : pipe'[j] = pipe[j]
        BY <3>2, PipeEntries DEF NewRequest
      <4> QED
        BY <4>1
    <3> QED
      BY <3>1, <3>2 DEF MayPut
  <2> QED
    BY <2>1, <2>2, <2>3
<1>6. ASSUME NEW w \in Workers, wk'[w].pc \notin {"idle", "resolve"}
      PROVE  HandedFor(wk[w].p, wk[w].id, wk[w].cmd)' /\ sent'[wk'[w].p].since <= conn'[<<w, wk'[w].id>>]
  <2>1. CASE wk'[w] = wk[w]
    <3>1. HandedFor(wk[w].p, wk[w].id, wk[w].cmd) /\ sent[wk[w].p].since <= conn[<<w, wk[w].id>>]
      BY <1>6, <2>1 DEF SentInv
    <3>2. wk[w].p \in DOMAIN sent /\ wk[w].id \in Ids /\ sent'[wk[w].p].since = sent[wk[w].p].since
      BY <1>6, <2>1, <3>1, GivenIds DEF LockInv, HandedFor, SentStays
    <3>3. sent[wk[w].p].since \in Nat /\ conn[<<w, wk[w].id>>] \in Nat
      BY <3>2, UdpNumbers
    <3>4. sent[wk[w].p].since <= conn'[<<w, wk[w].id>>]
      BY <3>1, <3>2, <3>3
    <3> QED
      BY <2>1, <3>1, <3>2, <3>4 DEF HandedFor, SentStays
  <2>2. CASE wk'[w] # wk[w]
    <3>1. HandedFor(wk[w].p, wk[w].id, wk[w].cmd)' /\ sent'[wk'[w].p].since <= conn[<<w, wk'[w].id>>] /\ wk'[w].id \in Ids
      BY <1>6, <2>2
    <3>2. sent'[wk'[w].p].since \in Int
      <4>1. wk'[w].p \in DOMAIN sent'
        BY <3>1 DEF HandedFor
      <4>2. sent' \in Seq(SentRecs')
        BY DEF TypeOK
      <4>3. sent'[wk'[w].p] \in SentRecs'
        BY <4>1, <4>2
      <4> QED
        BY <4>3 DEF SentRecs
    <3>3. conn[<<w, wk'[w].id>>] \in Nat /\ conn'[<<w, wk'[w].id>>] \in Nat
      BY <3>1, UdpNumbers
    <3> QED
      BY <3>1, <3>2, <3>3
  <2> QED
    BY <2>1, <2>2
<1> QED
  BY <1>3, <1>5, <1>6 DEF SentInv

(* Where the requests of the pipe are when one may have been put.          *)
LEMMA PutPipe ==
  ASSUME TypeOK, TypeOK', MayPut
  PROVE  /\ DOMAIN pipe = 1 .. Len(pipe) /\ Len(pipe) \in Nat
         /\ DOMAIN pipe' = 1 .. Len(pipe') /\ Len(pipe') \in Nat /\ Len(pipe') >= Len(pipe)
         /\ \A k \in DOMAIN pipe : k \in DOMAIN pipe' /\ pipe'[k] = pipe[k]
         /\ \A k \in DOMAIN pipe' : k \in DOMAIN pipe \/ (k = Len(pipe) + 1 /\ NewRequest(pipe'[k]))
         /\ \A q : NewRequest(q) => Len(pipe') = Len(pipe) + 1 /\ pipe'[Len(pipe) + 1] = q /\ Len(pipe) + 1 \in DOMAIN pipe'
<1>1. DOMAIN pipe = 1 .. Len(pipe) /\ Len(pipe) \in Nat
  BY PipeEntries
<1>2. DOMAIN pipe' = 1 .. Len(pipe') /\ Len(pipe') \in Nat
  BY DEF TypeOK
<1>3. ASSUME NEW q, NewRequest(q)
      PROVE  /\ Len(pipe') = Len(pipe) + 1 /\ pipe'[Len(pipe) + 1] = q /\ Len(pipe) + 1 \in DOMAIN pipe'
             /\ \A k \in DOMAIN pipe : k \in DOMAIN pipe' /\ pipe'[k] = pipe[k]
             /\ \A k \in DOMAIN pipe' : k \in DOMAIN pipe \/ (k = Len(pipe) + 1 /\ NewRequest(pipe'[k]))
  <2>1. DOMAIN pipe' = 1 .. Len(pipe) + 1 /\ pipe'[Len(pipe) + 1] = q /\ \A k \in 1 .. Len(pipe) : pipe'[k] = pipe[k]
    BY <1>3, PipeEntries DEF NewRequest
  <2>2. Len(pipe') = Len(pipe) + 1
    BY <1>3 DEF TypeOK, NewRequest, Put
  <2> QED
    BY <1>1, <1>3, <2>1, <2>2
<1>4. CASE pipe' = pipe
  <2>1. \A k \in DOMAIN pipe : k \in DOMAIN pipe' /\ pipe'[k] = pipe[k]
    BY <1>4
  <2>2. Len(pipe') >= Len(pipe)
    BY <1>1, <1>4
  <2>3. \A k \in DOMAIN pipe' : k \in DOMAIN pipe
    BY <1>4
  <2> QED
    BY <1>1, <1>2, <1>3, <2>1, <2>2, <2>3, Zenon
<1>5. ASSUME NEW q, NewRequest(q)
      PROVE  /\ Len(pipe') >= Len(pipe) /\ \A k \in DOMAIN pipe : k \in DOMAIN pipe' /\ pipe'[k] = pipe[k]
             /\ \A k \in DOMAIN pipe' : k \in DOMAIN pipe \/ (k = Len(pipe) + 1 /\ NewRequest(pipe'[k]))
  <2>1. Len(pipe') >= Len(pipe)
    BY <1>1, <1>3, <1>5
  <2> QED
    BY <1>3, <1>5, <2>1
<1> QED
  BY <1>1, <1>2, <1>3, <1>4, <1>5 DEF MayPut

LEMMA KnownWork ==
  ASSUME BaseInv, TypeOK', UNCHANGED scene, WorkSteady, AddressSame, UdpSame, MayPut,
         NEW id \in Ids, NEW k \in Nat, NEW m \in Nat, m >= k, NEW c, Known(k, id, c)
  PROVE  Known(m, id, c)'
<1> USE DEF BaseInv
<1>1. H(id)' = H(id) /\ Stored(slot'[H(id)]) = Stored(slot[H(id)])
  BY SameServed
<1>2. CASE c <= Stored(slot[H(id)])
  BY <1>1, <1>2 DEF Known
<1>3. ASSUME NEW j \in DOMAIN pipe, j < k, Brings(pipe[j], id), pipe[j].n >= c
      PROVE  Known(m, id, c)'
  <2>1. j \in DOMAIN pipe' /\ pipe'[j] = pipe[j] /\ j \in Nat
    <3>1. DOMAIN pipe = 1 .. Len(pipe) /\ Len(pipe) \in Nat
      BY PipeEntries
    <3>2. j \in Nat
      BY <3>1
    <3> QED
      BY <3>2, PutPipe
  <2>2. j < m
    BY <1>3, <2>1
  <2> QED
    BY <1>3, <2>1, <2>2 DEF Known, AskedBefore, Brings
<1> QED
  BY <1>2, <1>3 DEF Known, AskedBefore

LEMMA ConnWork ==
  ASSUME BaseInv, TypeOK', SentInv, ConnInv, SentStays, UNCHANGED scene, WorkSteady, AddressSame, UdpSame, MayPut, ConnMoves
  PROVE  ConnInv'
<1> USE DEF BaseInv
<1>1. /\ Ids' = Ids /\ \A id : H(id)' = H(id)
      /\ \A id \in Ids : (Serves(id)' <=> Serves(id)) /\ Stored(slot'[H(id)]) = Stored(slot[H(id)])
  BY SameServed, SameScene
<1>2. /\ DOMAIN pipe = 1 .. Len(pipe) /\ Len(pipe) \in Nat
      /\ DOMAIN pipe' = 1 .. Len(pipe') /\ Len(pipe') \in Nat /\ Len(pipe') >= Len(pipe)
      /\ \A k \in DOMAIN pipe : k \in DOMAIN pipe' /\ pipe'[k] = pipe[k]
  BY PutPipe
<1>9. \A k \in DOMAIN pipe' : k \in DOMAIN pipe \/ (k = Len(pipe) + 1 /\ NewRequest(pipe'[k]))
  BY PutPipe
<1>10. \A k \in DOMAIN pipe' : \A j \in DOMAIN pipe' : j < k /\ (k \in DOMAIN pipe \/ k = Len(pipe) + 1) => j \in DOMAIN pipe
  BY <1>2
<1>3. /\ \A id \in Ids : net[id].conns \in Nat /\ net'[id].conns \in Nat /\ net'[id].conns >= net[id].conns /\ Stored(slot[H(id)]) \in Nat
      /\ \A w \in Workers, id \in Ids : conn[<<w, id>>] \in Nat
      /\ \A k \in DOMAIN pipe : \A id : Brings(pipe[k], id) => pipe[k].n \in Nat
  <2>1. \A id \in Ids : net'[id].conns \in Nat
    BY <1>1 DEF TypeOK, NetRecs
  <2> QED
    BY <2>1, UdpNumbers DEF UdpSame, Brings
<1>4. ASSUME NEW k \in DOMAIN pipe', NEW id \in Ids, Brings(pipe'[k], id)
      PROVE  /\ pipe'[k].n <= net'[id].conns
             /\ \A j \in DOMAIN pipe' : j < k /\ Brings(pipe'[j], id) => pipe'[j].n < pipe'[k].n
             /\ Serves(id) => Stored(slot[H(id)]) < pipe'[k].n
  <2>1. CASE k \in DOMAIN pipe
    <3>1. pipe'[k] = pipe[k] /\ \A j \in DOMAIN pipe' : j < k => j \in DOMAIN pipe /\ pipe'[j] = pipe[j]
      BY <1>2, <1>10, <2>1
    <3>2. /\ pipe[k].n <= net[id].conns /\ (Serves(id) => Stored(slot[H(id)]) < pipe[k].n)
          /\ \A j \in DOMAIN pipe : j < k /\ Brings(pipe[j], id) => pipe[j].n < pipe[k].n
      BY <1>4, <2>1, <3>1 DEF ConnInv
    <3>3. pipe[k].n \in Nat
      BY <1>3, <1>4, <2>1, <3>1
    <3>4. pipe[k].n <= net'[id].conns
      BY <1>3, <3>2, <3>3
    <3> QED
      BY <3>1, <3>2, <3>4
  <2>2. CASE k = Len(pipe) + 1 /\ NewRequest(pipe'[k])
    <3>1. pipe'[k].n = net'[id].conns /\ net'[id].conns > net[id].conns
      BY <1>4, <2>2 DEF NewRequest
    <3>2. ASSUME NEW j \in DOMAIN pipe', j < k, Brings(pipe'[j], id) PROVE pipe'[j].n < pipe'[k].n
      <4>1. j \in DOMAIN pipe /\ pipe'[j] = pipe[j]
        BY <1>2, <1>10, <2>2, <3>2
      <4>2. pipe[j].n <= net[id].conns /\ pipe[j].n \in Nat
        BY <1>3, <3>2, <4>1 DEF ConnInv
      <4> QED
        BY <1>3, <3>1, <4>1, <4>2
    <3>3. Serves(id) => Stored(slot[H(id)]) <= net[id].conns
      BY DEF ConnInv
    <3>4. Serves(id) => Stored(slot[H(id)]) < pipe'[k].n
      BY <1>3, <3>1, <3>3
    <3>5. pipe'[k].n <= net'[id].conns
      BY <1>3, <3>1
    <3> QED
      BY <3>2, <3>4, <3>5
  <2> QED
    BY <1>9, <2>1, <2>2
<1>5. ASSUME NEW w \in Workers, NEW id \in Ids PROVE conn'[<<w, id>>] <= net'[id].conns
  <2>1. CASE conn'[<<w, id>>] = conn[<<w, id>>]
    <3>1. conn[<<w, id>>] <= net[id].conns
      BY DEF ConnInv
    <3> QED
      BY <1>3, <2>1, <3>1
  <2>2. ASSUME NEW q, NewRequest(q), Brings(q, id), conn'[<<w, id>>] = q.n PROVE conn'[<<w, id>>] <= net'[id].conns
    BY <1>3, <2>2 DEF NewRequest
  <2> QED
    BY <2>1, <2>2 DEF ConnMoves
<1>6. ASSUME NEW id \in Ids, Serves(id), NEW w \in Workers PROVE Known(Len(pipe) + 1, id, conn[<<w, id>>])'
  <2>1. CASE conn'[<<w, id>>] = conn[<<w, id>>]
    <3>1. Known(Len(pipe) + 1, id, conn[<<w, id>>])
      BY <1>6 DEF ConnInv
    <3>2. PICK m \in Nat : m = Len(pipe') + 1
      BY <1>2
    <3>3. Len(pipe) + 1 \in Nat /\ m >= Len(pipe) + 1
      BY <1>2, <3>2
    <3>4. PICK c : c = conn[<<w, id>>]
      OBVIOUS
    <3>5. Known(m, id, c)'
      BY <3>1, <3>3, <3>4, KnownWork
    <3> QED
      BY <2>1, <3>2, <3>4, <3>5 DEF Known, AskedBefore
  <2>2. ASSUME NEW q, NewRequest(q), Brings(q, id), conn'[<<w, id>>] = q.n PROVE Known(Len(pipe) + 1, id, conn[<<w, id>>])'
    <3>1. Len(pipe') = Len(pipe) + 1 /\ pipe'[Len(pipe) + 1] = q /\ Len(pipe) + 1 \in DOMAIN pipe' /\ Len(pipe) + 1 < Len(pipe') + 1
      <4>1. Len(pipe') = Len(pipe) + 1 /\ pipe'[Len(pipe) + 1] = q /\ Len(pipe) + 1 \in DOMAIN pipe'
        BY <2>2, PutPipe
      <4> QED
        BY <1>2, <4>1
    <3>2. q.n >= conn'[<<w, id>>]
      BY <1>3, <2>2 DEF NewRequest
    <3> QED
      BY <2>2, <3>1, <3>2 DEF Known, AskedBefore, Brings
  <2> QED
    BY <2>1, <2>2 DEF ConnMoves
<1>7. ASSUME NEW id \in Ids, Serves(id), NEW k \in DOMAIN pipe', pipe'[k].cmd \in {"D", "P"}, pipe'[k].id = id
      PROVE  Known(k, id, sent[pipe[k].p].since)'
  <2> DEFINE p == pipe'[k].p
  <2>1. p \in DOMAIN sent /\ k \in Nat /\ sent[p].since \in Nat /\ sent'[p].since = sent[p].since
    <3>1. p \in DOMAIN sent
      <4>1. CASE k \in DOMAIN pipe
        BY <1>2, <1>7, <4>1 DEF SentInv, Data, HandedFor
      <4>2. CASE NewRequest(pipe'[k])
        BY <1>7, <4>2 DEF NewRequest
      <4> QED
        BY <1>9, <4>1, <4>2
    <3>2. k \in Nat
      BY <1>2
    <3> QED
      BY <3>1, <3>2, UdpNumbers DEF SentStays
  <2>2. Known(k, id, sent[p].since)
    <3>1. CASE k \in DOMAIN pipe
      BY <1>2, <1>7, <3>1 DEF ConnInv
    <3>2. CASE k = Len(pipe) + 1 /\ NewRequest(pipe'[k])
      <4>1. PICK w \in Workers : sent[p].since <= conn[<<w, id>>]
        BY <1>7, <3>2 DEF NewRequest
      <4>2. Known(Len(pipe) + 1, id, conn[<<w, id>>])
        BY <1>7 DEF ConnInv
      <4>3. PICK s \in Nat : s = sent[p].since
        BY <2>1
      <4>4. PICK c \in Nat : c = conn[<<w, id>>]
        BY <1>3
      <4>5. s <= c /\ Known(k, id, c)
        BY <3>2, <4>1, <4>2, <4>3, <4>4
      <4>6. \A j \in DOMAIN pipe : Brings(pipe[j], id) /\ pipe[j].n >= c => pipe[j].n >= s
        BY <1>3, <4>5
      <4>7. Known(k, id, s)
        BY <1>3, <4>5, <4>6 DEF Known, AskedBefore
      <4> QED
        BY <4>3, <4>7
    <3> QED
      BY <1>9, <3>1, <3>2
  <2>3. PICK s : s = sent[p].since
    OBVIOUS
  <2>4. Known(k, id, s)
    BY <2>2, <2>3
  <2> HIDE <2>2
  <2>5. Known(k, id, s)'
    BY <2>1, <2>4, KnownWork
  <2> QED
    BY <2>1, <2>3, <2>5 DEF Known, AskedBefore
<1>8. ASSUME NEW id \in Ids, Serves(id) PROVE Stored(slot[H(id)]) <= net'[id].conns
  <2>1. Stored(slot[H(id)]) <= net[id].conns
    BY <1>8 DEF ConnInv
  <2> QED
    BY <1>3, <2>1
<1> QED
  BY <1>1, <1>4, <1>5, <1>6, <1>7, <1>8 DEF ConnInv

-----------------------------------------------------------------------------
(* The connects under way, when a worker steps.                            *)
LEMMA PendWork ==
  ASSUME BaseInv, PendInv, UNCHANGED scene, WorkSteady, AddressSame, UdpSame,
         \A id \in Ids : Serves(id) =>
           /\ Requested(id)' \subseteq Requested(id) /\ Resolving(id)' \subseteq Resolving(id)
           /\ slot'[H(id)].udpconnecting = slot[H(id)].udpconnecting
  PROVE  PendInv'
<1> USE DEF BaseInv
<1>1. /\ Ids' = Ids /\ \A id : H(id)' = H(id)
      /\ \A id \in Ids : Serves(id)' <=> Serves(id)
  BY SameServed, SameScene
<1> SUFFICES ASSUME NEW id \in Ids, Serves(id)
             PROVE  slot'[H(id)].udpconnecting >= Cardinality(Requested(id)') + Cardinality(Resolving(id)')
  BY <1>1 DEF PendInv
<1>2. /\ Cardinality(Requested(id)') <= Cardinality(Requested(id)) /\ Cardinality(Requested(id)') \in Nat
      /\ Cardinality(Resolving(id)') <= Cardinality(Resolving(id)) /\ Cardinality(Resolving(id)') \in Nat
  BY UnderWay, FS_Subset, FS_CardinalityType
<1>3. /\ slot[H(id)].udpconnecting >= Cardinality(Requested(id)) + Cardinality(Resolving(id))
      /\ slot'[H(id)].udpconnecting = slot[H(id)].udpconnecting /\ slot[H(id)].udpconnecting \in Int
  BY UdpNumbers DEF PendInv
<1> QED
  BY <1>2, <1>3, UnderWay

(* A worker that puts no address keeps the requested ones.                 *)
LEMMA RequestedSame ==
  ASSUME TypeOK, TypeOK', net' = net, MayPut, NEW id \in Ids
  PROVE  Requested(id)' \subseteq Requested(id)
<1> SUFFICES ASSUME NEW k \in DOMAIN pipe', Brings(pipe'[k], id) PROVE k \in DOMAIN pipe /\ pipe'[k] = pipe[k]
  BY DEF Requested, Brings
<1>1. k \in DOMAIN pipe \/ NewRequest(pipe'[k])
  BY PutPipe
<1>2. CASE NewRequest(pipe'[k])
  <2>1. net'[id].conns > net[id].conns /\ net'[id].conns = net[id].conns
    BY <1>2 DEF NewRequest
  <2>2. net[id].conns \in Nat
    BY DEF TypeOK, NetRecs
  <2> QED
    BY <2>1, <2>2
<1>3. CASE k \in DOMAIN pipe
  BY <1>3, PutPipe
<1> QED
  BY <1>1, <1>2, <1>3

(* Where datagrams may go, when a worker steps.                            *)
LEMMA ToWork ==
  ASSUME BaseInv, TypeOK', SentInv, ToInv, SentStays, UNCHANGED scene, WorkSteady, AddressSame, UdpSame,
         \A i \in Slots : slot'[i].dw # slot[i].dw => Retried(slot[i].dw.p)',
         \A id \in Ids : net[id].udp => WireRight(wire'[id]) \/ wire'[id] = wire[id],
         \A w \in Workers : wk'[w].pc = "write" =>
            wk'[w] = wk[w] \/ (wk'[w].p \in DOMAIN sent /\ wk'[w].id \in Ids
                               /\ (net[wk'[w].id].udp /\ wk'[w].cmd # "A" => sent[wk'[w].p].since <= slot[H(wk'[w].id)].address))
  PROVE  ToInv'
<1> USE DEF BaseInv
<1>1. /\ Ids' = Ids /\ Slots' = Slots /\ \A id : H(id)' = H(id)
      /\ \A i \in Slots : Alive(i)' <=> Alive(i)
  BY SameServed, SameScene
<1>2. /\ \A p, to : MayGo(p, to) => MayGo(p, to)'
      /\ \A p : Retried(p) => Retried(p)'
  BY DEF MayGo, MaxCalls, SentStays, Retried
<1>3. ASSUME NEW i \in Slots, Alive(i)', slot'[i].protocol = "udp"
      PROVE  (MayWait(slot[i].high) /\ MayWait(slot[i].low) /\ (slot[i].dw # None => Retried(slot[i].dw.p)))'
  <2>1. /\ MayWait(slot[i].high) /\ MayWait(slot[i].low) /\ (slot[i].dw # None => Retried(slot[i].dw.p))
        /\ slot'[i].high = slot[i].high /\ slot'[i].low = slot[i].low
    BY <1>1, <1>3 DEF ToInv, WorkSteady
  <2>2. MayWait(slot[i].high)' /\ MayWait(slot[i].low)'
    BY <1>2, <2>1 DEF MayWait
  <2>3. slot'[i].dw # None => Retried(slot[i].dw.p)'
    <3>1. CASE slot'[i].dw = slot[i].dw
      BY <1>2, <2>1, <3>1 DEF Retried
    <3>2. CASE slot'[i].dw # slot[i].dw
      BY <3>2
    <3> QED
      BY <3>1, <3>2
  <2> QED
    BY <2>2, <2>3
<1>4. ASSUME NEW id \in Ids, net'[id].udp
      PROVE  (\A k \in DOMAIN wire[id] : LET u == wire[id][k] IN MayGo(u.p, u.to) /\ (~sent[u.p].retried => u.to > 0))'
  <2>1. net[id].udp
    BY <1>4 DEF UdpSame
  <2>2. WireRight(wire[id])
    BY <2>1 DEF ToInv, WireRight
  <2>3. WireRight(wire'[id])
    BY <2>1, <2>2
  <2> SUFFICES ASSUME NEW k \in DOMAIN wire'[id]
               PROVE  MayGo(wire[id][k].p, wire[id][k].to)' /\ (~sent'[wire'[id][k].p].retried => wire'[id][k].to > 0)
    OBVIOUS
  <2>4. MayGo(wire'[id][k].p, wire'[id][k].to) /\ (~sent[wire'[id][k].p].retried => wire'[id][k].to > 0)
    BY <2>3 DEF WireRight
  <2>5. wire'[id][k].p \in DOMAIN sent
    BY <2>4 DEF MayGo
  <2>6. ~sent'[wire'[id][k].p].retried => ~sent[wire'[id][k].p].retried
    BY <2>5 DEF SentStays
  <2>7. MayGo(wire[id][k].p, wire[id][k].to)'
    BY <2>4, <2>5 DEF MayGo, MaxCalls, SentStays
  <2> QED
    BY <2>4, <2>6, <2>7
<1>5. ASSUME NEW w \in Workers, wk'[w].pc = "write", net'[wk'[w].id].udp, wk'[w].cmd # "A"
      PROVE  sent'[wk'[w].p].since <= slot'[H(wk'[w].id)].address
  <2>1. /\ wk'[w].p \in DOMAIN sent /\ wk'[w].id \in Ids /\ net[wk'[w].id].udp
        /\ sent[wk'[w].p].since <= slot[H(wk'[w].id)].address
    <3>1. CASE wk'[w] = wk[w]
      <4>1. wk[w].p \in DOMAIN sent
        BY <1>5, <3>1 DEF SentInv, HandedFor
      <4>2. wk[w].id \in Ids
        BY <1>5, <3>1, GivenIds DEF LockInv
      <4>3. net[wk[w].id].udp
        BY <1>5, <3>1, <4>2 DEF UdpSame
      <4> QED
        BY <1>5, <3>1, <4>1, <4>2, <4>3 DEF ToInv
    <3>2. CASE wk'[w] # wk[w]
      BY <1>5, <3>2 DEF UdpSame
    <3> QED
      BY <3>1, <3>2
  <2>2. H(wk'[w].id) \in Slots
    BY <2>1, UdpNumbers
  <2>3. sent'[wk'[w].p].since = sent[wk'[w].p].since /\ slot'[H(wk'[w].id)].address = slot[H(wk'[w].id)].address
    BY <2>1, <2>2 DEF SentStays, AddressSame
  <2> QED
    BY <2>1, <2>3
<1> QED
  BY <1>1, <1>3, <1>4, <1>5 DEF ToInv

-----------------------------------------------------------------------------
(* Steps of a worker that connect nothing.                                 *)

(* The worker v rests, stays as it was, or has a packet that was handed    *)
(* over; and the address it writes to is no older than its own connect.    *)
Moves(v) ==
  \/ wk'[v] = wk[v] \/ wk'[v].pc = "idle"
  \/ /\ wk'[v].pc \notin {"idle", "resolve"} /\ wk'[v].id \in Ids
     /\ HandedFor(wk[v].p, wk[v].id, wk[v].cmd)'
     /\ sent'[wk'[v].p].since <= conn[<<v, wk'[v].id>>]
     /\ wk'[v].pc = "write" =>
          wk'[v].p \in DOMAIN sent
          /\ (net[wk'[v].id].udp /\ wk'[v].cmd # "A" => sent[wk'[v].p].since <= slot[H(wk'[v].id)].address)

(* The slots keep their addresses, and the connects they count.            *)
SlotsKept == \A i \in Slots : slot'[i].address = slot[i].address /\ slot'[i].udpconnecting = slot[i].udpconnecting
SentNew == \A p \in DOMAIN sent' : p \notin DOMAIN sent => sent'[p].id \in 1 .. alloc /\ (sent'[p].udp <=> net[sent'[p].id].udp)

LEMMA QuietUdp ==
  ASSUME BaseInv, TypeOK', UdpInv, WorkStep, SlotsKept, UNCHANGED <<net, conn>>, MayPut, SentStays, SentNew,
         \A v \in Workers : Moves(v),
         \A i \in Slots : slot'[i].dw # slot[i].dw => Retried(slot[i].dw.p)',
         \A id \in Ids : wire'[id] = wire[id] \/ (id <= alloc /\ (net[id].udp => WireRight(wire'[id])))
  PROVE  UdpInv'
<1> USE DEF BaseInv, UdpInv
<1>1. WorkSteady /\ UNCHANGED <<scene, alloc>> /\ alloc \in Nat
  BY DEF WorkStep, TypeOK
<1>2. AddressSame /\ UdpSame
  <2>1. \A id \in Ids : net[id].conns \in Nat
    BY UdpNumbers
  <2> QED
    BY <2>1 DEF SlotsKept, AddressSame, UdpSame
<1>3. KindInv'
  <2>1. \A id \in Ids : id > alloc => net'[id].conns = net[id].conns /\ wire'[id] = wire[id]
    BY <1>1, IdsAreNat DEF TypeOK
  <2> QED
    BY <1>1, <1>2, <2>1, KindWork
<1>4. SentInv'
  <2>1. \A w \in Workers, id \in Ids : conn'[<<w, id>>] \in Nat /\ conn'[<<w, id>>] >= conn[<<w, id>>]
    <3> SUFFICES ASSUME NEW w \in Workers, NEW id \in Ids
                 PROVE  conn'[<<w, id>>] \in Nat /\ conn'[<<w, id>>] >= conn[<<w, id>>]
      OBVIOUS
    <3>1. conn[<<w, id>>] \in Nat
      BY UdpNumbers
    <3>2. conn'[<<w, id>>] = conn[<<w, id>>]
      OBVIOUS
    <3>3. conn[<<w, id>>] >= conn[<<w, id>>]
      BY <3>1
    <3> QED
      BY <3>1, <3>2, <3>3
  <2>2. \A w \in Workers : wk'[w] # wk[w] /\ wk'[w].pc \notin {"idle", "resolve"} =>
            HandedFor(wk[w].p, wk[w].id, wk[w].cmd)' /\ sent'[wk'[w].p].since <= conn[<<w, wk'[w].id>>] /\ wk'[w].id \in Ids
    BY DEF Moves
  <2> QED
    BY <1>1, <1>2, <2>1, <2>2, SentWork DEF SentNew
<1>5. ConnInv'
  <2>1. ConnMoves
    BY DEF ConnMoves
  <2> QED
    BY <1>1, <1>2, <2>1, ConnWork
<1>6. PendInv'
  <2>1. ASSUME NEW id \in Ids PROVE Requested(id)' \subseteq Requested(id) /\ Resolving(id)' \subseteq Resolving(id)
    <3>1. Requested(id)' \subseteq Requested(id)
      BY RequestedSame
    <3>2. \A w \in Workers : wk'[w].pc = "resolve" => wk'[w] = wk[w]
      BY DEF Moves
    <3> QED
      BY <3>1, <3>2 DEF Resolving
  <2>2. \A id \in Ids : H(id) \in Slots
    BY UdpNumbers
  <2> QED
    BY <1>1, <1>2, <2>1, <2>2, PendWork DEF SlotsKept
<1>7. ToInv'
  <2>1. \A w \in Workers : wk'[w].pc = "write" =>
            wk'[w] = wk[w] \/ (wk'[w].p \in DOMAIN sent /\ wk'[w].id \in Ids
                               /\ (net[wk'[w].id].udp /\ wk'[w].cmd # "A" => sent[wk'[w].p].since <= slot[H(wk'[w].id)].address))
    BY DEF Moves
  <2> QED
    BY <1>1, <1>2, <2>1, ToWork
<1> QED
  BY <1>3, <1>4, <1>5, <1>6, <1>7

(* What was sent stays, and nothing new is.                                *)
LEMMA SentSame ==
  ASSUME TypeOK, sent' = sent
  PROVE  SentStays /\ SentNew
BY DEF SentStays, SentNew, TypeOK

LEMMA RequestUdp ==
  ASSUME BaseInv, TypeOK', UdpInv, NEW w \in Workers,
         Exit(w) \/ PutRequest(w) \/ \E id \in 1 .. alloc : StartPause(w, id) \/ Close(w, id) \/ Shutdown(w, id)
  PROVE  UdpInv'
<1> USE DEF BaseInv
<1>1. UNCHANGED <<slot, net, wire, conn, sent>>
  BY DEF Exit, PutRequest, StartPause, Close, Shutdown, Request, sockVars
<1>2. WorkStep
  <2>1. Worker(w)
    BY DEF Worker
  <2>2. alloc' = alloc /\ alloc \in Nat
    <3>1. alloc' = alloc
      BY DEF Exit, PutRequest, StartPause, Close, Shutdown, Request, sockVars
    <3> QED
      BY <3>1, Scene DEF TypeOK
  <2>3. ~OpenStep
    BY <2>2 DEF OpenStep, OpenedAt
  <2> QED
    BY <2>1, <2>3, WorkerWork
<1>3. SlotsKept
  BY <1>1 DEF SlotsKept
<1>4. MayPut /\ \A v \in Workers : Moves(v)
  <2>1. CASE PutRequest(w)
    <3>1. wk[w].pc = "put" /\ Put([cmd |-> wk[w].cmd, id |-> wk[w].id, p |-> wk[w].p]) /\ wk' = [wk EXCEPT ![w] = Resting]
      BY <2>1 DEF PutRequest, Goto
    <3>2. \A v \in Workers : Moves(v)
      BY <3>1 DEF Moves, Resting, TypeOK
    <3>3. wk[w] \in Working
      BY <3>1, AtWork DEF TypeOK
    <3>4. PICK q : q = [cmd |-> wk[w].cmd, id |-> wk[w].id, p |-> wk[w].p]
      OBVIOUS
    <3>5. Put(q) /\ q.cmd = wk[w].cmd /\ q.id = wk[w].id /\ q.p = wk[w].p
      BY <3>1, <3>4
    <3>6. q.cmd \notin Opening /\ q.cmd # "C"
      BY <3>3, <3>5 DEF Working, Opening, Data
    <3>7. HandedFor(q.p, q.id, q.cmd) /\ sent[q.p].since <= conn[<<w, q.id>>]
      BY <3>1, <3>5 DEF UdpInv, SentInv
    <3>8. q.p \in DOMAIN sent
      BY <3>7 DEF HandedFor
    <3>9. NewRequest(q)
      BY <3>5, <3>6, <3>7, <3>8 DEF NewRequest, Brings
    <3> QED
      BY <3>2, <3>9 DEF MayPut
  <2>2. CASE Exit(w) \/ \E id \in 1 .. alloc : StartPause(w, id) \/ Close(w, id) \/ Shutdown(w, id)
    <3>1. wk' = wk
      BY <2>2 DEF Exit, StartPause, Close, Shutdown, Request
    <3>2. \E q : Put(q) /\ q.cmd \in {"exit", "R", "S", "K", "X"}
      <4>1. CASE Exit(w)
        <5>1. [cmd |-> "exit"].cmd = "exit"
          OBVIOUS
        <5> QED
          BY <4>1, <5>1 DEF Exit
      <4>2. ASSUME NEW id, NEW cmd \in {"R", "S", "K", "X"}, Request(w, id, cmd) PROVE \E q : Put(q) /\ q.cmd \in {"exit", "R", "S", "K", "X"}
        <5>1. [cmd |-> cmd, id |-> id].cmd = cmd
          OBVIOUS
        <5> QED
          BY <4>2, <5>1 DEF Request
      <4> QED
        BY <2>2, <4>1, <4>2 DEF StartPause, Close, Shutdown
    <3>3. PICK q : Put(q) /\ q.cmd \in {"exit", "R", "S", "K", "X"}
      BY <3>2
    <3>4. NewRequest(q)
      BY <3>3 DEF NewRequest, Brings, Opening, Data
    <3> QED
      BY <3>1, <3>4 DEF MayPut, Moves
  <2> QED
    BY <2>1, <2>2
<1>5. SentStays /\ SentNew
  BY <1>1, SentSame
<1> QED
  BY <1>1, <1>2, <1>3, <1>4, <1>5, QuietUdp

(* Sending hands over one more packet.                                     *)
LEMMA SendUdp ==
  ASSUME BaseInv, TypeOK', UdpInv, NEW w \in Workers, NEW id \in 1 .. alloc, Send(w, id) \/ SendLow(w, id) \/ UdpSend(w, id)
  PROVE  UdpInv'
<1> USE DEF BaseInv
<1>1. PICK kind \in Data : \E bad, direct : Sending(w, id, kind, bad, direct)
  BY DEF Send, SendLow, UdpSend, Data
<1>2. PICK bad, direct : Sending(w, id, kind, bad, direct)
  BY <1>1
<1>3. PICK s : s = [id |-> id, w |-> w, kind |-> kind, ok |-> ~bad, retried |-> FALSE, udp |-> net[id].udp, since |-> conn[<<w, id>>]]
  OBVIOUS
<1>4. PICK r : r = [pc |-> IF direct THEN "check" ELSE Queueing(kind), id |-> id, p |-> Len(sent) + 1, cmd |-> kind]
  OBVIOUS
<1>5. /\ UNCHANGED <<slot, pipe, net, wire, conn>> /\ (wk' = wk \/ wk' = [wk EXCEPT ![w] = r]) /\ sent' = Append(sent, s)
  BY <1>2, <1>3, <1>4 DEF Sending, Handed, Goto
<1>6. WorkStep
  BY SendWork
<1>7. id \in Ids
  BY GivenIds
<1>8. /\ Len(sent) \in Nat /\ DOMAIN sent = 1 .. Len(sent) /\ Len(sent') = Len(sent) + 1 /\ DOMAIN sent' = 1 .. Len(sent) + 1
      /\ sent'[Len(sent) + 1] = s /\ \A p \in DOMAIN sent : sent'[p] = sent[p]
  BY <1>5 DEF TypeOK
<1>9. s.id = id /\ s.kind = kind /\ s.udp = net[id].udp /\ s.since = conn[<<w, id>>]
  BY <1>3
<1>10. SentStays
  BY <1>8 DEF SentStays
<1>11. SentNew
  <2> SUFFICES ASSUME NEW p \in DOMAIN sent', p \notin DOMAIN sent PROVE p = Len(sent) + 1
    BY <1>8, <1>9 DEF SentNew
  <2> QED
    BY <1>8
<1>12. r.id = id /\ r.p = Len(sent) + 1 /\ r.cmd = kind /\ r.pc \in {"check", "inc", "put"}
  BY <1>4 DEF Queueing
<1>13. ASSUME NEW v \in Workers PROVE Moves(v)
  <2>1. CASE wk'[v] = wk[v]
    BY <2>1 DEF Moves
  <2>2. CASE wk'[v] # wk[v]
    <3>1. v = w /\ wk'[w] = r
      BY <1>5, <2>2 DEF TypeOK
    <3>2. Len(sent) + 1 \in DOMAIN sent'
      BY <1>8
    <3>3. HandedFor(wk[v].p, wk[v].id, wk[v].cmd)'
      BY <1>8, <1>9, <1>12, <3>1, <3>2 DEF HandedFor
    <3>4. sent'[wk'[v].p].since <= conn[<<v, wk'[v].id>>]
      <4>1. conn[<<w, id>>] \in Nat
        BY <1>7, UdpNumbers
      <4>2. conn[<<w, id>>] <= conn[<<w, id>>]
        BY <4>1
      <4> QED
        BY <1>8, <1>9, <1>12, <3>1, <4>2
    <3> QED
      BY <1>7, <1>12, <3>1, <3>3, <3>4 DEF Moves
  <2> QED
    BY <2>1, <2>2
<1>14. SlotsKept /\ MayPut
  BY <1>5 DEF SlotsKept, MayPut
<1> QED
  BY <1>5, <1>6, <1>10, <1>11, <1>13, <1>14, QuietUdp

LEMMA IncSendingUdp ==
  ASSUME BaseInv, TypeOK', UdpInv, NEW w \in Workers, IncSending(w)
  PROVE  UdpInv'
<1> USE DEF BaseInv
<1> DEFINE i == H(wk[w].id)
<1>1. PICK r : r = [wk[w] EXCEPT !.pc = "put"]
  OBVIOUS
<1>2. /\ UNCHANGED <<pipe, net, wire, conn, sent>> /\ wk[w].pc = "inc" /\ wk' = [wk EXCEPT ![w] = r]
      /\ slot' = slot \/ slot' = [slot EXCEPT ![i].sending = @ + 1]
  BY <1>1 DEF IncSending, Goto
<1>3. wk[w] \in Working /\ wk[w].id \in Ids
  BY <1>2, AtWork DEF TypeOK, Working
<1>4. r.pc = "put" /\ r.id = wk[w].id /\ r.p = wk[w].p /\ r.cmd = wk[w].cmd
  BY <1>1, <1>3 DEF Working
<1> HIDE DEF i
<1>5. SlotsKept /\ \A j \in Slots : slot'[j].dw = slot[j].dw
  <2>1. CASE slot' = slot
    BY <2>1 DEF SlotsKept
  <2>2. CASE slot' = [slot EXCEPT ![i].sending = @ + 1]
    <3>1. ASSUME NEW j \in Slots PROVE slot'[j].address = slot[j].address /\ slot'[j].udpconnecting = slot[j].udpconnecting /\ slot'[j].dw = slot[j].dw
      <4>1. slot[j] \in Sockets
        BY DEF TypeOK
      <4> QED
        BY <2>2, <4>1 DEF Sockets, TypeOK
    <3> QED
      BY <3>1 DEF SlotsKept
  <2> QED
    BY <1>2, <2>1, <2>2
<1>6. HandedFor(wk[w].p, wk[w].id, wk[w].cmd) /\ sent[wk[w].p].since <= conn[<<w, wk[w].id>>]
  BY <1>2 DEF UdpInv, SentInv
<1>7. \A v \in Workers : Moves(v)
  BY <1>2, <1>3, <1>4, <1>6 DEF Moves, HandedFor, TypeOK
<1>8. MayPut /\ SentStays /\ SentNew /\ WorkStep
  BY <1>2, SentSame, IncSendingWork DEF MayPut
<1> QED
  BY <1>2, <1>5, <1>7, <1>8, QuietUdp

(* A datagram is written to an address that is no older than what its      *)
(* sender connected: no connect is under way.                              *)
LEMMA DoubleCheckUdp ==
  ASSUME BaseInv, TypeOK', UdpInv, NEW w \in Workers, DoubleCheck(w)
  PROVE  UdpInv'
<1> USE DEF BaseInv
<1> DEFINE id == wk[w].id
<1>1. PICK again : again = CanDirectWrite(slot[H(id)], id)
  OBVIOUS
<1>2. PICK r : r = [wk[w] EXCEPT !.pc = IF again THEN "write" ELSE Queueing(wk[w].cmd)]
  OBVIOUS
<1>3. UNCHANGED <<slot, pipe, net, wire, conn, sent>> /\ wk[w].pc = "check" /\ wk' = [wk EXCEPT ![w] = r]
  BY <1>1, <1>2 DEF DoubleCheck, Goto
<1>4. wk[w] \in Working /\ id \in Ids /\ H(id) \in Slots
  BY <1>3, HoldsLock
<1>5. r.id = id /\ r.p = wk[w].p /\ r.cmd = wk[w].cmd /\ r.pc \in {"write", "inc", "put"} /\ (r.pc = "write" => again)
  BY <1>2, <1>4 DEF Working, Queueing
<1>6. HandedFor(wk[w].p, id, wk[w].cmd) /\ sent[wk[w].p].since <= conn[<<w, id>>]
  BY <1>3 DEF UdpInv, SentInv
<1>7. ASSUME r.pc = "write", net[id].udp
      PROVE  sent[wk[w].p].since <= slot[H(id)].address
  <2>1. slot[H(id)].id = id /\ slot[H(id)].type = "CONNECTED" /\ slot[H(id)].udpconnecting = 0
    BY <1>1, <1>5, <1>7 DEF CanDirectWrite
  <2>2. Serves(id) /\ Stored(slot[H(id)]) = slot[H(id)].address
    BY <1>7, <2>1 DEF Serves, Stored
  <2>3. Cardinality(Requested(id)) = 0
    <3>1. 0 >= Cardinality(Requested(id)) + Cardinality(Resolving(id))
      BY <1>4, <2>1, <2>2 DEF UdpInv, PendInv
    <3> QED
      BY <1>4, <3>1, UnderWay
  <2>4. Requested(id) = {}
    BY <1>4, <2>3, UnderWay, FS_EmptySet
  <2>5. PICK c \in Nat : c = conn[<<w, id>>]
    BY <1>4, UdpNumbers
  <2>6. Known(Len(pipe) + 1, id, c)
    BY <1>4, <2>2, <2>5 DEF UdpInv, ConnInv
  <2>7. ~AskedBefore(Len(pipe) + 1, id, c)
    <3> SUFFICES ASSUME NEW j \in DOMAIN pipe, Brings(pipe[j], id) PROVE FALSE
      BY DEF AskedBefore
    <3>1. pipe[j].n <= net[id].conns
      BY <1>4 DEF UdpInv, ConnInv
    <3>2. pipe[j].n \in Nat /\ pipe[j].n # 0 /\ net[id].conns \in Nat
      BY <1>4, UdpNumbers DEF Brings
    <3>3. pipe[j].n \in 1 .. net[id].conns
      BY <3>1, <3>2
    <3> QED
      BY <2>4, <3>3 DEF Requested
  <2>8. c <= slot[H(id)].address
    BY <2>2, <2>6, <2>7 DEF Known
  <2>9. sent[wk[w].p].since \in Nat /\ slot[H(id)].address \in Nat
    <3>1. wk[w].p \in DOMAIN sent /\ slot[H(id)] \in Sockets
      BY <1>4, <1>6 DEF HandedFor, TypeOK
    <3> QED
      BY <3>1, UdpNumbers DEF Sockets
  <2> QED
    BY <1>6, <2>5, <2>8, <2>9
<1>8. ASSUME NEW v \in Workers PROVE Moves(v)
  <2>1. CASE v # w
    BY <1>3, <2>1 DEF Moves, TypeOK
  <2>2. CASE v = w
    <3>1. wk'[v] = r
      BY <1>3, <2>2 DEF TypeOK
    <3>2. wk[w].p \in DOMAIN sent /\ HandedFor(wk[v].p, wk[v].id, wk[v].cmd)'
      BY <1>3, <1>5, <1>6, <2>2, <3>1 DEF HandedFor
    <3>3. sent'[wk'[v].p].since <= conn[<<v, wk'[v].id>>]
      BY <1>3, <1>5, <1>6, <2>2, <3>1
    <3>4. wk'[v].pc \notin {"idle", "resolve"} /\ wk'[v].id \in Ids
      BY <1>4, <1>5, <3>1
    <3>5. wk'[v].pc = "write" => (net[wk'[v].id].udp /\ wk'[v].cmd # "A" => sent[wk'[v].p].since <= slot[H(wk'[v].id)].address)
      BY <1>5, <1>7, <3>1
    <3> QED
      BY <1>5, <3>1, <3>2, <3>3, <3>4, <3>5 DEF Moves
  <2> QED
    BY <2>1, <2>2
<1>9. MayPut /\ SentStays /\ SentNew /\ WorkStep /\ SlotsKept
  BY <1>3, SentSame, DoubleCheckWork DEF MayPut, SlotsKept
<1> QED
  BY <1>3, <1>8, <1>9, QuietUdp

LEMMA DirectWriteUdp ==
  ASSUME BaseInv, TypeOK', ArmedInv, UdpInv, NEW w \in Workers, DirectWrite(w)
  PROVE  UdpInv'
<1> USE DEF BaseInv
<1> DEFINE p == wk[w].p
           id == wk[w].id
           i == H(id)
           to == IF slot[i].protocol # "udp" THEN 0 ELSE IF wk[w].cmd = "A" THEN MaxCalls + 1 ELSE slot[i].address
<1>1. /\ wk[w].pc = "write" /\ UNCHANGED <<pipe, net, conn>>
      /\ \/ slot' = slot /\ wk' = [wk EXCEPT ![w] = Resting] /\ sent' = sent
         \/ slot' = slot /\ wk' = [wk EXCEPT ![w] = [wk[w] EXCEPT !.pc = "put"]] /\ sent' = sent
         \/ \E n \in 0 .. Size(p) :
                /\ slot' = [slot EXCEPT ![i].dw = Buffer(p, n, 0)] /\ sent' = [sent EXCEPT ![p].retried = TRUE]
                /\ wk' = [wk EXCEPT ![w] = [wk[w] EXCEPT !.pc = "inc", !.cmd = "W"]]
      /\ \/ wire' = wire
         \/ \E n \in 0 .. Size(p) :
               /\ n # 0 /\ (slot[i].protocol = "udp" => to # 0)
               /\ wire' = [wire EXCEPT ![id] = Extend(@, <<Piece(Buffer(p, 0, to), n)>>)]
  BY Zenon DEF DirectWrite, Goto
<1>2. /\ wk[w] \in Working /\ id \in 1 .. alloc /\ id \in Ids /\ i \in Slots /\ Alive(i) /\ slot[i].id = id /\ wk[w].cmd \in Data
  <2>1. /\ wk[w] \in Working /\ id \in 1 .. alloc /\ id \in Ids /\ i \in Slots /\ Alive(i) /\ slot[i].id = id /\ wk[w].cmd # "W"
    BY <1>1, HoldsLock DEF ArmedInv
  <2> QED
    BY <2>1 DEF Working
<1>3. HandedFor(p, id, wk[w].cmd) /\ sent[p].since <= conn[<<w, id>>]
  BY <1>1 DEF UdpInv, SentInv
<1>4. p \in DOMAIN sent /\ sent[p] \in SentRecs /\ sent[p].kind = wk[w].cmd
  BY <1>2, <1>3, UdpNumbers DEF HandedFor, Data
<1> HIDE DEF p, i, to, id
<1>5. SentStays /\ SentNew
  <2>1. CASE sent' = sent
    BY <2>1, SentSame
  <2>2. CASE sent' = [sent EXCEPT ![p].retried = TRUE]
    <3>1. \A q \in DOMAIN sent : sent[q] \in SentRecs
      BY UdpNumbers
    <3>2. DOMAIN sent' = DOMAIN sent /\ \A q \in DOMAIN sent : sent'[q] = IF q = p THEN [sent[p] EXCEPT !.retried = TRUE] ELSE sent[q]
      BY <1>4, <2>2 DEF TypeOK
    <3>3. Len(sent') \in Nat
      BY DEF TypeOK
    <3> QED
      BY <3>1, <3>2, <3>3 DEF SentStays, SentNew, SentRecs
  <2> QED
    BY <1>1, <2>1, <2>2
<1>6. SlotsKept /\ \A j \in Slots : slot'[j].dw # slot[j].dw => Retried(slot[j].dw.p)'
  <2>1. CASE slot' = slot
    BY <2>1 DEF SlotsKept
  <2>2. ASSUME NEW n \in 0 .. Size(p), slot' = [slot EXCEPT ![i].dw = Buffer(p, n, 0)], sent' = [sent EXCEPT ![p].retried = TRUE]
        PROVE  SlotsKept /\ \A j \in Slots : slot'[j].dw # slot[j].dw => Retried(slot[j].dw.p)'
    <3>0. PICK b : b = Buffer(p, n, 0)
      OBVIOUS
    <3>1. b = Buffer(p, n, 0) /\ b.p = p
      BY <3>0 DEF Buffer
    <3>2. \A j \in Slots : slot[j] \in Sockets
      BY DEF TypeOK
    <3>3. slot' = [slot EXCEPT ![i].dw = b]
      BY <2>2, <3>1
    <3>4. \A j \in Slots : /\ slot'[j].address = slot[j].address /\ slot'[j].udpconnecting = slot[j].udpconnecting
                           /\ slot'[j].dw = slot[j].dw \/ slot'[j].dw = b
      BY <3>2, <3>3 DEF TypeOK, Sockets
    <3>5. p \in DOMAIN sent' /\ sent'[p].retried
      BY <1>4, <2>2 DEF SentRecs, TypeOK
    <3> QED
      BY <3>1, <3>4, <3>5 DEF SlotsKept, Retried
  <2> QED
    BY <1>1, <2>1, <2>2
<1>7. ASSUME NEW v \in Workers PROVE Moves(v)
  <2>1. CASE wk'[v] = wk[v] \/ wk'[v].pc = "idle"
    BY <2>1 DEF Moves
  <2>2. CASE v = w /\ \E r : wk'[v] = r /\ r.pc \in {"inc", "put"} /\ r.id = id /\ r.p = p /\ r.cmd \in {wk[w].cmd, "W"}
    <3>1. PICK r : wk'[v] = r /\ r.pc \in {"inc", "put"} /\ r.id = id /\ r.p = p /\ r.cmd \in {wk[w].cmd, "W"}
      BY <2>2
    <3>2. p \in DOMAIN sent' /\ sent'[p].id = sent[p].id /\ sent'[p].kind = sent[p].kind /\ sent'[p].since = sent[p].since
      BY <1>4, <1>5 DEF SentStays
    <3>3. HandedFor(wk[v].p, wk[v].id, wk[v].cmd)'
      BY <1>3, <1>4, <3>1, <3>2 DEF HandedFor
    <3>4. sent'[wk'[v].p].since <= conn[<<v, wk'[v].id>>]
      BY <1>3, <2>2, <3>1, <3>2
    <3> QED
      BY <1>2, <3>1, <3>3, <3>4 DEF Moves
  <2>3. \/ wk'[v] = wk[v] \/ wk'[v].pc = "idle"
        \/ v = w /\ \E r : wk'[v] = r /\ r.pc \in {"inc", "put"} /\ r.id = id /\ r.p = p /\ r.cmd \in {wk[w].cmd, "W"}
    <3>1. Resting.pc = "idle"
      BY DEF Resting
    <3>2. \A r : wk' = [wk EXCEPT ![w] = r] => wk'[w] = r /\ \A u \in Workers : u # w => wk'[u] = wk[u]
      BY DEF TypeOK
    <3>3. PICK r : r = [wk[w] EXCEPT !.pc = "put"]
      OBVIOUS
    <3>4. PICK s : s = [wk[w] EXCEPT !.pc = "inc", !.cmd = "W"]
      OBVIOUS
    <3>5. r.pc = "put" /\ r.id = id /\ r.p = p /\ r.cmd = wk[w].cmd /\ s.pc = "inc" /\ s.id = id /\ s.p = p /\ s.cmd = "W"
      BY <1>2, <3>3, <3>4 DEF Working, id, p
    <3>6. wk' = [wk EXCEPT ![w] = Resting] \/ wk' = [wk EXCEPT ![w] = r] \/ wk' = [wk EXCEPT ![w] = s]
      BY <1>1, <3>3, <3>4
    <3> QED
      BY <3>1, <3>2, <3>5, <3>6
  <2> QED
    BY <2>1, <2>2, <2>3
<1>8. ASSUME NEW n \in 0 .. Size(p), n # 0, slot[i].protocol = "udp" => to # 0,
             wire' = [wire EXCEPT ![id] = Extend(@, <<Piece(Buffer(p, 0, to), n)>>)]
      PROVE  \A j \in Ids : wire'[j] = wire[j] \/ (j <= alloc /\ (net[j].udp => WireRight(wire'[j])))
  <2>1. \A j \in Ids : wire'[j] = IF j = id THEN Extend(wire[id], <<Piece(Buffer(p, 0, to), n)>>) ELSE wire[j]
    BY <1>2, <1>8 DEF TypeOK
  <2>2. id <= alloc
    BY <1>2, Scene DEF TypeOK
  <2>3. ASSUME net[id].udp PROVE WireRight(Extend(wire[id], <<Piece(Buffer(p, 0, to), n)>>))
    <3>1. slot[i].protocol = "udp" /\ to # 0
      BY <1>2, <1>8, <2>3 DEF UdpInv, KindInv
    <3>2. slot[i] \in Sockets /\ MaxCalls \in Nat /\ p \in Nat /\ n \in Int
      <4>1. slot[i] \in Sockets
        BY <1>2 DEF TypeOK
      <4>2. MaxCalls \in Nat
        BY Scene DEF TypeOK, MaxCalls
      <4>3. p \in Nat
        BY <1>2 DEF Working, p
      <4>4. n \in Int
        BY Sizes
      <4> QED
        BY <4>1, <4>2, <4>3, <4>4
    <3>3. slot[i].address \in Nat
      BY <3>2 DEF Sockets
    <3>4. to \in Nat /\ to > 0
      BY <3>1, <3>2, <3>3 DEF to
    <3>5. MayGo(p, to)
      <4>1. CASE wk[w].cmd = "A"
        BY <1>4, <3>1, <4>1 DEF MayGo, to
      <4>2. CASE wk[w].cmd # "A"
        <5>1. sent[p].since <= slot[i].address
          BY <1>1, <2>3, <4>2 DEF UdpInv, ToInv, p, i, id
        <5>2. sent[p].since \in Nat
          BY <1>4 DEF SentRecs
        <5>3. to >= sent[p].since
          BY <3>1, <3>3, <4>2, <5>1, <5>2 DEF to
        <5> QED
          BY <1>4, <4>2, <5>3 DEF MayGo
      <4> QED
        BY <4>1, <4>2
    <3>6. PICK u : u = Piece(Buffer(p, 0, to), n)
      OBVIOUS
    <3>7. u.p = p /\ u.to = to /\ u \in Pieces
      BY <3>2, <3>4, <3>6 DEF Piece, Buffer, Pieces
    <3>8. WireRight(<<u>>) /\ <<u>> \in Seq(Pieces)
      BY <3>4, <3>5, <3>7 DEF WireRight
    <3>9. wire[id] \in Seq(Pieces) /\ WireRight(wire[id])
      BY <1>2, <2>3 DEF UdpInv, ToInv, WireRight, TypeOK
    <3> QED
      BY <3>6, <3>8, <3>9, ExtendRight
  <2> QED
    BY <2>1, <2>2, <2>3
<1>9. MayPut /\ WorkStep
  BY <1>1, DirectWriteWork DEF MayPut
<1>10. \A j \in Ids : wire'[j] = wire[j] \/ (j <= alloc /\ (net[j].udp => WireRight(wire'[j])))
  BY <1>1, <1>8
<1> QED
  BY <1>1, <1>5, <1>6, <1>7, <1>9, <1>10, QuietUdp

-----------------------------------------------------------------------------
(* Connects: one is counted before it asks for the address, and the worker *)
(* puts the address when it has it.                                        *)
LEMMA UdpConnectUdp ==
  ASSUME BaseInv, TypeOK', UdpInv, NEW w \in Workers, NEW id \in 1 .. alloc, UdpConnect(w, id)
  PROVE  UdpInv'
<1> USE DEF BaseInv
<1>1. PICK r : r = [pc |-> "resolve", id |-> id, p |-> 0, cmd |-> "C"]
  OBVIOUS
<1>2. /\ UNCHANGED <<pipe, net, wire, conn, sent>> /\ wk' = [wk EXCEPT ![w] = r]
      /\ slot' = [slot EXCEPT ![H(id)].udpconnecting = @ + 1] /\ slot[H(id)].id = id
  BY <1>1 DEF UdpConnect, Goto, Invalid
<1>3. r.pc = "resolve" /\ r.id = id
  BY <1>1
<1>4. id \in Ids /\ H(id) \in Slots
  BY GivenIds, UdpNumbers
<1>5. WorkSteady /\ UNCHANGED <<scene, alloc>>
  BY UdpConnectWork DEF WorkStep
<1>6. /\ \A i \in Slots : slot'[i].address = slot[i].address /\ slot'[i].dw = slot[i].dw
      /\ \A i \in Slots : slot'[i].udpconnecting = slot[i].udpconnecting + (IF i = H(id) THEN 1 ELSE 0)
  <2> SUFFICES ASSUME NEW i \in Slots
               PROVE  /\ slot'[i].address = slot[i].address /\ slot'[i].dw = slot[i].dw
                      /\ slot'[i].udpconnecting = slot[i].udpconnecting + (IF i = H(id) THEN 1 ELSE 0)
    OBVIOUS
  <2>1. slot[i] \in Sockets
    BY DEF TypeOK
  <2>2. PICK y : y = [slot[i] EXCEPT !.udpconnecting = @ + 1]
    OBVIOUS
  <2>3. y.address = slot[i].address /\ y.dw = slot[i].dw /\ y.udpconnecting = slot[i].udpconnecting + 1 /\ slot[i].udpconnecting \in Int
    BY <2>1, <2>2 DEF Sockets
  <2>4. slot'[i] = IF i = H(id) THEN y ELSE slot[i]
    BY <1>2, <1>4, <2>2 DEF TypeOK
  <2> QED
    BY <2>3, <2>4
<1>7. AddressSame /\ UdpSame /\ MayPut /\ SentStays
  <2>1. \A n \in Ids : net[n].conns \in Nat
    BY UdpNumbers
  <2> QED
    BY <1>2, <1>6, <2>1, SentSame DEF AddressSame, UdpSame, MayPut
<1>8. \A v \in Workers : wk'[v] = wk[v] \/ (v = w /\ wk'[v] = r)
  BY <1>2 DEF TypeOK
<1>9. KindInv'
  BY <1>2, <1>5, <1>7, KindWork DEF UdpInv
<1>10. SentInv'
  <2>1. \A v \in Workers, n \in Ids : conn'[<<v, n>>] \in Nat /\ conn'[<<v, n>>] >= conn[<<v, n>>]
    <3> SUFFICES ASSUME NEW v \in Workers, NEW n \in Ids PROVE conn'[<<v, n>>] \in Nat /\ conn'[<<v, n>>] >= conn[<<v, n>>]
      OBVIOUS
    <3>1. conn[<<v, n>>] \in Nat
      BY UdpNumbers
    <3>2. conn[<<v, n>>] >= conn[<<v, n>>]
      BY <3>1
    <3> QED
      BY <1>2, <3>1, <3>2
  <2>2. \A v \in Workers : wk'[v] = wk[v] \/ wk'[v].pc = "resolve"
    BY <1>3, <1>8
  <2> QED
    BY <1>2, <1>5, <1>7, <2>1, <2>2, SentWork DEF UdpInv
<1>11. ConnInv'
  BY <1>2, <1>5, <1>7, ConnWork DEF UdpInv, ConnMoves
<1>12. ToInv'
  <2>1. \A v \in Workers : wk'[v].pc = "write" => wk'[v] = wk[v]
    BY <1>3, <1>8
  <2> QED
    BY <1>2, <1>5, <1>6, <1>7, <2>1, ToWork DEF UdpInv
<1>13. PendInv'
  <2>1. /\ Ids' = Ids /\ \A n : H(n)' = H(n)
        /\ \A n \in Ids : Serves(n)' <=> Serves(n)
    BY <1>5, <1>7, SameServed, SameScene
  <2> SUFFICES ASSUME NEW n \in Ids, Serves(n)
               PROVE  slot'[H(n)].udpconnecting >= Cardinality(Requested(n)') + Cardinality(Resolving(n)')
    BY <2>1 DEF PendInv
  <2>2. Cardinality(Requested(n)') <= Cardinality(Requested(n)) /\ Cardinality(Requested(n)') \in Nat
    <3>1. Requested(n)' \subseteq Requested(n)
      BY <1>2, <1>7, RequestedSame
    <3> QED
      BY <3>1, UnderWay, FS_Subset, FS_CardinalityType
  <2>3. slot[H(n)].udpconnecting >= Cardinality(Requested(n)) + Cardinality(Resolving(n)) /\ slot[H(n)].udpconnecting \in Int /\ H(n) \in Slots
    BY UdpNumbers DEF UdpInv, PendInv
  <2>4. CASE n # id
    <3>1. H(n) # H(id)
      BY <1>2, <2>4 DEF Serves
    <3>2. Resolving(n)' \subseteq Resolving(n)
      BY <1>3, <1>8, <2>4 DEF Resolving
    <3>3. Cardinality(Resolving(n)') <= Cardinality(Resolving(n)) /\ Cardinality(Resolving(n)') \in Nat
      BY <3>2, UnderWay, FS_Subset, FS_CardinalityType
    <3>4. slot'[H(n)].udpconnecting = slot[H(n)].udpconnecting
      BY <1>6, <2>3, <3>1
    <3> QED
      BY <2>2, <2>3, <3>3, <3>4, UnderWay
  <2>5. CASE n = id
    <3>1. Resolving(n)' \subseteq Resolving(n) \cup {w}
      BY <1>8 DEF Resolving
    <3>2. /\ IsFiniteSet(Resolving(n) \cup {w})
          /\ Cardinality(Resolving(n) \cup {w}) = IF w \in Resolving(n) THEN Cardinality(Resolving(n)) ELSE Cardinality(Resolving(n)) + 1
      BY UnderWay, FS_AddElement
    <3>3. Cardinality(Resolving(n) \cup {w}) <= Cardinality(Resolving(n)) + 1 /\ Cardinality(Resolving(n) \cup {w}) \in Nat
      BY <3>2, UnderWay
    <3>4. Cardinality(Resolving(n)') <= Cardinality(Resolving(n) \cup {w}) /\ Cardinality(Resolving(n)') \in Nat
      BY <3>1, <3>2, FS_Subset, FS_CardinalityType
    <3>5. slot'[H(n)].udpconnecting = slot[H(n)].udpconnecting + 1
      BY <1>6, <2>3, <2>5
    <3> QED
      BY <2>2, <2>3, <3>3, <3>4, <3>5, UnderWay
  <2> QED
    BY <2>4, <2>5
<1> QED
  BY <1>9, <1>10, <1>11, <1>12, <1>13 DEF UdpInv

LEMMA ResolveUdp ==
  ASSUME BaseInv, TypeOK', UdpInv, NEW w \in Workers, Resolve(w)
  PROVE  UdpInv'
<1> USE DEF BaseInv
<1>1. PICK id : id = wk[w].id
  OBVIOUS
<1>2. PICK n : n = net[id].conns + 1
  OBVIOUS
<1>3. /\ wk[w].pc = "resolve" /\ wk' = [wk EXCEPT ![w] = Resting] /\ UNCHANGED <<slot, wire, sent>>
      /\ \/ UNCHANGED <<pipe, net, conn>>
         \/ Put([cmd |-> "C", id |-> id, n |-> 0]) /\ UNCHANGED <<net, conn>>
         \/ Put([cmd |-> "C", id |-> id, n |-> n]) /\ net' = [net EXCEPT ![id].conns = n] /\ conn' = [conn EXCEPT ![<<w, id>>] = n]
  BY <1>1, <1>2 DEF Resolve, Goto
<1>4. id \in 1 .. alloc /\ id \in Ids /\ id <= alloc
  <2>1. id \in 1 .. alloc
    BY <1>1, <1>3 DEF LockInv
  <2>2. alloc \in Nat
    BY Scene DEF TypeOK
  <2>3. id \in Ids
    BY <2>1, GivenIds
  <2> QED
    BY <2>1, <2>2, <2>3
<1>5. n \in Nat /\ n > net[id].conns /\ n # 0 /\ net[id].conns \in Nat
  BY <1>2, <1>4, UdpNumbers
<1>6. WorkSteady /\ UNCHANGED <<scene, alloc>> /\ AddressSame /\ SentStays
  BY <1>3, PutRequestWork, SentSame DEF WorkStep, AddressSame
<1> DEFINE Asks == Put([cmd |-> "C", id |-> id, n |-> n]) /\ net' = [net EXCEPT ![id].conns = n] /\ conn' = [conn EXCEPT ![<<w, id>>] = n]
           Quiet == UNCHANGED <<net, conn>> /\ (pipe' = pipe \/ Put([cmd |-> "C", id |-> id, n |-> 0]))
<1>7. Asks \/ Quiet
  BY <1>3
<1>8. \A m \in Ids : net[m] \in NetRecs /\ net[m].conns \in Nat
  BY UdpNumbers DEF TypeOK
<1>9. ASSUME Asks
      PROVE  /\ \A m \in Ids : net'[m].udp = net[m].udp /\ net'[m].conns = IF m = id THEN n ELSE net[m].conns
             /\ \A v \in Workers, m \in Ids : conn'[<<v, m>>] = IF v = w /\ m = id THEN n ELSE conn[<<v, m>>]
  <2>1. \A m \in Ids : net'[m] = IF m = id THEN [net[id] EXCEPT !.conns = n] ELSE net[m]
    BY <1>4, <1>9 DEF TypeOK
  <2>2. \A m \in Ids : net'[m].udp = net[m].udp /\ net'[m].conns = IF m = id THEN n ELSE net[m].conns
    BY <1>4, <1>8, <2>1 DEF NetRecs
  <2>3. \A v \in Workers, m \in Ids : conn'[<<v, m>>] = IF v = w /\ m = id THEN n ELSE conn[<<v, m>>]
    BY <1>4, <1>9 DEF TypeOK
  <2> QED
    BY <2>2, <2>3
<1>10. ASSUME Asks PROVE \E q : NewRequest(q) /\ Brings(q, id) /\ q.n = n /\ q.id = id
  <2>1. PICK q : q = [cmd |-> "C", id |-> id, n |-> n]
    OBVIOUS
  <2>2. q.cmd = "C" /\ q.id = id /\ q.n = n /\ Put(q)
    BY <1>10, <2>1
  <2>3. \A m \in Ids : Brings(q, m) => q.n = net'[m].conns /\ net'[m].conns > net[m].conns
    BY <1>4, <1>5, <1>9, <1>10, <2>2 DEF Brings
  <2>4. NewRequest(q)
    BY <2>2, <2>3 DEF NewRequest, Opening, Data
  <2> QED
    BY <1>5, <2>2, <2>4 DEF Brings
<1>11. MayPut
  <2>1. ASSUME Put([cmd |-> "C", id |-> id, n |-> 0]) PROVE \E q : NewRequest(q)
    <3>1. PICK q : q = [cmd |-> "C", id |-> id, n |-> 0]
      OBVIOUS
    <3>2. q.cmd = "C" /\ q.n = 0 /\ Put(q)
      BY <2>1, <3>1
    <3> QED
      BY <3>2 DEF NewRequest, Brings, Opening, Data
  <2> QED
    BY <1>7, <1>10, <2>1 DEF MayPut
<1>12. \A k \in DOMAIN pipe' : (k \in DOMAIN pipe /\ pipe'[k] = pipe[k]) \/ (pipe'[k].cmd = "C" /\ pipe'[k].id = id /\ (pipe'[k].n = 0 \/ (Asks /\ pipe'[k].n = n)))
  <2>1. ASSUME NEW m, Put([cmd |-> "C", id |-> id, n |-> m])
        PROVE  \A k \in DOMAIN pipe' : (k \in DOMAIN pipe /\ pipe'[k] = pipe[k]) \/ (pipe'[k].cmd = "C" /\ pipe'[k].id = id /\ pipe'[k].n = m)
    <3>1. PICK q : q = [cmd |-> "C", id |-> id, n |-> m]
      OBVIOUS
    <3>2. q.cmd = "C" /\ q.id = id /\ q.n = m /\ Put(q)
      BY <2>1, <3>1
    <3> HIDE <3>1, <2>1
    <3>3. /\ DOMAIN pipe = 1 .. Len(pipe) /\ Len(pipe) \in Nat /\ DOMAIN pipe' = 1 .. Len(pipe) + 1 /\ pipe'[Len(pipe) + 1] = q
          /\ \A k \in 1 .. Len(pipe) : pipe'[k] = pipe[k]
      BY <3>2, PipeEntries
    <3> QED
      BY <3>2, <3>3
  <2> QED
    BY <1>3, <2>1
<1> HIDE DEF Asks
<1>13. UdpSame
  BY <1>3, <1>5, <1>7, <1>8, <1>9 DEF UdpSame
<1>14. KindInv'
  <2>1. \A m \in Ids : m > alloc => net'[m].conns = net[m].conns /\ wire'[m] = wire[m]
    <3>1. \A m \in Ids : m > alloc => m # id
      BY <1>4, IdsAreNat, Scene DEF TypeOK
    <3> QED
      BY <1>3, <1>7, <1>9, <3>1
  <2> QED
    BY <1>6, <1>11, <1>13, <2>1, KindWork DEF UdpInv
<1>15. wk'[w].pc = "idle" /\ \A v \in Workers : wk'[v] = wk[v] \/ (v = w /\ wk'[v].pc = "idle")
  BY <1>3 DEF TypeOK, Resting
<1>16. SentInv'
  <2>1. \A v \in Workers, m \in Ids : conn'[<<v, m>>] \in Nat /\ conn'[<<v, m>>] >= conn[<<v, m>>]
    <3> SUFFICES ASSUME NEW v \in Workers, NEW m \in Ids PROVE conn'[<<v, m>>] \in Nat /\ conn'[<<v, m>>] >= conn[<<v, m>>]
      OBVIOUS
    <3>1. conn[<<v, m>>] \in Nat /\ conn[<<v, m>>] <= net[m].conns
      BY UdpNumbers DEF UdpInv, ConnInv
    <3>2. conn'[<<v, m>>] = conn[<<v, m>>] \/ (m = id /\ conn'[<<v, m>>] = n)
      BY <1>7, <1>9
    <3> QED
      BY <1>5, <3>1, <3>2
  <2>2. SentNew
    BY <1>3, SentSame
  <2>3. \A v \in Workers : wk'[v] = wk[v] \/ wk'[v].pc = "idle"
    BY <1>15
  <2> QED
    BY <1>6, <1>11, <1>13, <2>1, <2>2, <2>3, SentWork DEF UdpInv, SentNew
<1>17. ConnInv'
  <2>1. ConnMoves
    BY <1>7, <1>9, <1>10 DEF ConnMoves
  <2> QED
    BY <1>6, <1>11, <1>13, <2>1, ConnWork DEF UdpInv
<1>18. ToInv'
  <2>1. \A v \in Workers : wk'[v].pc = "write" => wk'[v] = wk[v]
    BY <1>15
  <2> QED
    BY <1>3, <1>6, <1>13, <2>1, ToWork DEF UdpInv
<1>19. PendInv'
  <2>1. /\ Ids' = Ids /\ \A m : H(m)' = H(m)
        /\ \A m \in Ids : Serves(m)' <=> Serves(m)
    BY <1>6, <1>13, SameServed, SameScene
  <2> SUFFICES ASSUME NEW m \in Ids, Serves(m)
               PROVE  slot'[H(m)].udpconnecting >= Cardinality(Requested(m)') + Cardinality(Resolving(m)')
    BY <2>1 DEF PendInv
  <2>2. slot[H(m)].udpconnecting >= Cardinality(Requested(m)) + Cardinality(Resolving(m)) /\ slot[H(m)].udpconnecting \in Int
    BY UdpNumbers DEF UdpInv, PendInv
  <2>3. Requested(m)' \subseteq Requested(m) \cup (IF m = id THEN {n} ELSE {})
    <3> SUFFICES ASSUME NEW j \in 1 .. net'[m].conns, NEW k \in DOMAIN pipe', Brings(pipe'[k], m), pipe'[k].n = j, ~(m = id /\ j = n)
                 PROVE  j \in 1 .. net[m].conns /\ k \in DOMAIN pipe /\ pipe'[k] = pipe[k]
      BY DEF Requested, Brings
    <3>1. k \in DOMAIN pipe /\ pipe'[k] = pipe[k]
      BY <1>12 DEF Brings
    <3>2. pipe[k].n <= net[m].conns
      BY <3>1 DEF UdpInv, ConnInv
    <3>3. net'[m].conns \in Nat
      BY <2>1 DEF TypeOK, NetRecs
    <3> QED
      BY <1>8, <3>1, <3>2, <3>3
  <2>4. Resolving(m)' \subseteq Resolving(m) \ (IF m = id THEN {w} ELSE {})
    BY <1>15 DEF Resolving
  <2>5. CASE m # id
    <3>1. Requested(m)' \subseteq Requested(m) /\ Resolving(m)' \subseteq Resolving(m)
      BY <2>3, <2>4, <2>5
    <3>2. Cardinality(Requested(m)') <= Cardinality(Requested(m)) /\ Cardinality(Requested(m)') \in Nat
      BY <3>1, UnderWay, FS_Subset, FS_CardinalityType
    <3>3. Cardinality(Resolving(m)') <= Cardinality(Resolving(m)) /\ Cardinality(Resolving(m)') \in Nat
      BY <3>1, UnderWay, FS_Subset, FS_CardinalityType
    <3> QED
      BY <1>3, <2>2, <3>2, <3>3, UnderWay
  <2>6. CASE m = id
    <3>1. Requested(m)' \subseteq Requested(m) \cup {n} /\ Resolving(m)' \subseteq Resolving(m) \ {w} /\ w \in Resolving(m)
      BY <1>1, <1>3, <2>3, <2>4, <2>6 DEF Resolving
    <3>2. /\ IsFiniteSet(Requested(m) \cup {n})
          /\ Cardinality(Requested(m) \cup {n}) = IF n \in Requested(m) THEN Cardinality(Requested(m)) ELSE Cardinality(Requested(m)) + 1
      BY UnderWay, FS_AddElement
    <3>3. IsFiniteSet(Resolving(m) \ {w}) /\ Cardinality(Resolving(m) \ {w}) = Cardinality(Resolving(m)) - 1
      BY <3>1, UnderWay, FS_RemoveElement
    <3>4. Cardinality(Requested(m)') <= Cardinality(Requested(m) \cup {n}) /\ Cardinality(Requested(m)') \in Nat
      BY <3>1, <3>2, FS_Subset, FS_CardinalityType
    <3>5. Cardinality(Resolving(m)') <= Cardinality(Resolving(m) \ {w}) /\ Cardinality(Resolving(m)') \in Nat
      BY <3>1, <3>3, FS_Subset, FS_CardinalityType
    <3>6. Cardinality(Requested(m)) \in Nat /\ Cardinality(Resolving(m)) \in Nat
      BY UnderWay
    <3>7. Cardinality(Requested(m)') <= Cardinality(Requested(m)) + 1
      BY <3>2, <3>4, <3>6
    <3>8. Cardinality(Resolving(m)') <= Cardinality(Resolving(m)) - 1
      BY <3>3, <3>5, <3>6
    <3> QED
      BY <1>3, <2>2, <3>4, <3>5, <3>6, <3>7, <3>8
  <2> QED
    BY <2>5, <2>6
<1> QED
  BY <1>14, <1>16, <1>17, <1>18, <1>19 DEF UdpInv

(* A new id is not known to anyone, and its slot was free.                 *)
LEMMA ReserveUdp ==
  ASSUME BaseInv, TypeOK', UdpInv, NEW w \in Workers, NEW kind \in Opening, OpenRequest(w, kind)
  PROVE  UdpInv'
<1> USE DEF BaseInv
<1>1. PICK new \in FreeIds : /\ new <= scene.ids /\ alloc' = new /\ slot' = Reserve(new) /\ Put([cmd |-> kind, id |-> new])
                             /\ net' = [net EXCEPT ![new].udp = (kind = "U"), ![new].est = IF kind = "L" THEN "listen" ELSE @]
  BY DEF OpenRequest
<1>2. UNCHANGED <<scene, wk, sent, conn, wire>>
  BY DEF OpenRequest
<1>3. new \in Ids /\ new > alloc /\ H(new) \in Slots /\ slot[H(new)].type = "INVALID" /\ new \in Nat /\ alloc \in Nat
  <2>1. alloc \in Nat
    BY Scene DEF TypeOK
  <2> QED
    BY <1>1, <2>1, FreeIdType
<1>4. PICK y : y = [slot[H(new)] EXCEPT !.type = "RESERVE", !.id = new, !.protocol = "unknown", !.udpconnecting = 0]
  OBVIOUS
<1>5. slot[H(new)] \in Sockets
  BY <1>3 DEF TypeOK
<1>6. y.type = "RESERVE" /\ y.id = new /\ y.udpconnecting = 0
  BY <1>4, <1>5 DEF Sockets
<1>7. slot'[H(new)] = y /\ \A i \in Slots : i # H(new) => slot'[i] = slot[i]
  BY <1>1, <1>3, <1>4 DEF Reserve, TypeOK
<1>8. PICK q : q = [cmd |-> kind, id |-> new]
  OBVIOUS
<1>9. q.cmd = kind /\ q.id = new /\ Put(q) /\ q.cmd \notin Data /\ q.cmd \notin {"C", "D", "P"}
  BY <1>1, <1>8 DEF Opening, Data
<1> HIDE <1>8, <1>4
<1>10. /\ DOMAIN pipe = 1 .. Len(pipe) /\ Len(pipe) \in Nat /\ DOMAIN pipe' = 1 .. Len(pipe) + 1 /\ pipe'[Len(pipe) + 1] = q
       /\ \A k \in 1 .. Len(pipe) : pipe'[k] = pipe[k]
  BY <1>9, PipeEntries
<1>11. Len(pipe') = Len(pipe) + 1
  BY <1>9 DEF Put, TypeOK
<1>12. /\ \A k \in DOMAIN pipe' : (k \in DOMAIN pipe /\ pipe'[k] = pipe[k]) \/ pipe'[k] = q
       /\ \A k \in DOMAIN pipe : k \in DOMAIN pipe' /\ pipe'[k] = pipe[k] /\ k \in Nat
       /\ \A k \in DOMAIN pipe : \A j \in DOMAIN pipe' : j < k => j \in DOMAIN pipe
  BY <1>10
<1>13. ~net[new].udp /\ net[new].conns = 0 /\ wire[new] = <<>>
  BY <1>3 DEF UdpInv, KindInv
<1>14. /\ \A id \in Ids : net'[id].conns = net[id].conns /\ (id # new => net'[id].udp = net[id].udp)
       /\ net'[new].udp <=> kind = "U"
  <2>1. \A id \in Ids : net[id] \in NetRecs
    BY DEF TypeOK
  <2>2. PICK e : e = IF kind = "L" THEN "listen" ELSE net[new].est
    OBVIOUS
  <2>3. PICK u \in BOOLEAN : u = (kind = "U")
    OBVIOUS
  <2>4. net' = [net EXCEPT ![new] = [net[new] EXCEPT !.udp = u, !.est = e]]
    BY <1>1, <1>3, <2>2, <2>3 DEF TypeOK
  <2>5. PICK m : m = [net[new] EXCEPT !.udp = u, !.est = e]
    OBVIOUS
  <2>6. m.udp = u /\ m.conns = net[new].conns
    BY <1>3, <2>1, <2>5 DEF NetRecs
  <2>7. \A id \in Ids : net'[id] = IF id = new THEN m ELSE net[id]
    BY <1>3, <2>4, <2>5 DEF TypeOK
  <2> QED
    BY <1>3, <2>3, <2>6, <2>7
<1>15. /\ \A k \in DOMAIN pipe : pipe[k].cmd # "exit" => pipe[k].id # new
       /\ \A v \in Workers : wk[v].pc # "idle" => wk[v].id # new
       /\ \A p \in DOMAIN sent : sent[p].id # new /\ sent[p].id \in Ids
       /\ \A i \in Slots : slot[i].type # "INVALID" => slot[i].id # new /\ slot[i].id \in Ids
  <2>1. \A n \in 1 .. alloc : n # new /\ n \in Ids
    BY <1>3, GivenIds
  <2> QED
    BY <2>1 DEF PipeInv, LockInv, UdpInv, SentInv, SlotInv
<1>16. Ids' = Ids /\ Slots' = Slots /\ \A id : H(id)' = H(id)
  BY <1>2, SameScene, SameTags
<1>17. \A id \in Ids : Serves(id)' => id = new \/ (id # new /\ Serves(id) /\ slot'[H(id)] = slot[H(id)])
  <2> SUFFICES ASSUME NEW id \in Ids, Serves(id)', id # new PROVE Serves(id) /\ slot'[H(id)] = slot[H(id)]
    OBVIOUS
  <2>1. H(id) \in Slots /\ H(id) # H(new)
    BY <1>6, <1>7, <1>16, UdpNumbers DEF Serves
  <2> QED
    BY <1>7, <1>14, <1>16, <2>1 DEF Serves
<1>18. \A i \in Slots : Alive(i)' => i # H(new) /\ slot'[i] = slot[i] /\ Alive(i)
  BY <1>6, <1>7 DEF Alive
<1>19. KindInv'
  <2>1. ASSUME NEW id \in Ids, id > new PROVE ~net'[id].udp /\ net'[id].conns = 0 /\ wire'[id] = <<>>
    <3>1. id > alloc /\ id # new
      BY <1>3, <2>1, IdsAreNat DEF TypeOK
    <3> QED
      BY <1>2, <1>14, <3>1 DEF UdpInv, KindInv
  <2>2. ASSUME NEW k \in DOMAIN pipe', pipe'[k].cmd \in Opening PROVE net'[pipe'[k].id].udp <=> pipe'[k].cmd = "U"
    <3>1. CASE k \in DOMAIN pipe /\ pipe'[k] = pipe[k]
      <4>1. pipe[k].id \in Ids /\ pipe[k].id # new /\ (net[pipe[k].id].udp <=> pipe[k].cmd = "U")
        BY <1>15, <2>2, <3>1, PipeEntries DEF UdpInv, KindInv, Opening
      <4> QED
        BY <1>14, <3>1, <4>1
    <3>2. CASE pipe'[k] = q
      BY <1>9, <1>14, <3>2
    <3> QED
      BY <1>12, <3>1, <3>2
  <2>3. ASSUME NEW i \in Slots, Alive(i)' PROVE net'[slot'[i].id].udp <=> slot'[i].protocol = "udp"
    <3>1. slot'[i] = slot[i] /\ slot[i].id # new /\ slot[i].id \in Ids /\ Alive(i)
      BY <1>15, <1>18, <2>3 DEF Alive
    <3> QED
      BY <1>14, <3>1 DEF UdpInv, KindInv
  <2> QED
    BY <1>1, <1>16, <2>1, <2>2, <2>3 DEF KindInv
<1>20. SentInv'
  <2>1. ASSUME NEW p \in DOMAIN sent PROVE sent[p].id \in 1 .. new /\ (sent[p].udp <=> net'[sent[p].id].udp)
    <3>1. sent[p].id \in 1 .. alloc /\ (sent[p].udp <=> net[sent[p].id].udp)
      BY DEF UdpInv, SentInv
    <3>2. sent[p].id \in 1 .. new
      BY <1>3, <3>1
    <3> QED
      BY <1>14, <1>15, <3>1, <3>2
  <2>2. ASSUME NEW k \in DOMAIN pipe', pipe'[k].cmd \in Data PROVE HandedFor(pipe'[k].p, pipe'[k].id, pipe'[k].cmd)
    BY <1>9, <1>12, <2>2 DEF UdpInv, SentInv
  <2> QED
    BY <1>1, <1>2, <2>1, <2>2 DEF UdpInv, SentInv, HandedFor
<1>21. ConnInv'
  <2>1. ASSUME NEW k \in DOMAIN pipe', NEW id \in Ids, Brings(pipe'[k], id)
        PROVE  k \in DOMAIN pipe /\ pipe'[k] = pipe[k] /\ id # new
    BY <1>9, <1>12, <1>15, <2>1 DEF Brings
  <2>2. ASSUME NEW k \in DOMAIN pipe', NEW id \in Ids, Brings(pipe'[k], id)
        PROVE  /\ pipe'[k].n <= net'[id].conns
               /\ \A j \in DOMAIN pipe' : j < k /\ Brings(pipe'[j], id) => pipe'[j].n < pipe'[k].n
    <3>1. k \in DOMAIN pipe /\ pipe'[k] = pipe[k]
      BY <2>1, <2>2
    <3>2. pipe[k].n <= net[id].conns /\ \A j \in DOMAIN pipe : j < k /\ Brings(pipe[j], id) => pipe[j].n < pipe[k].n
      BY <2>2, <3>1 DEF UdpInv, ConnInv
    <3> QED
      BY <1>12, <1>14, <3>1, <3>2
  <2>3. ASSUME NEW id \in Ids, NEW k \in Nat, NEW m \in Nat, m >= k, NEW c, slot'[H(id)] = slot[H(id)], Known(k, id, c)
        PROVE  Known(m, id, c)'
    <3>1. CASE c <= Stored(slot[H(id)])
      BY <1>16, <2>3, <3>1 DEF Known
    <3>2. ASSUME NEW j \in DOMAIN pipe, j < k, Brings(pipe[j], id), pipe[j].n >= c PROVE Known(m, id, c)'
      <4>1. j \in DOMAIN pipe' /\ pipe'[j] = pipe[j] /\ j \in Nat
        BY <1>12
      <4>2. j < m
        BY <2>3, <3>2, <4>1
      <4> QED
        BY <3>2, <4>1, <4>2 DEF Known, AskedBefore, Brings
    <3> QED
      BY <2>3, <3>1, <3>2 DEF Known, AskedBefore
  <2>4. ASSUME NEW id \in Ids, Serves(id)', id # new
        PROVE  /\ Stored(slot'[H(id)]) <= net'[id].conns
               /\ \A k \in DOMAIN pipe' : Brings(pipe'[k], id) => Stored(slot'[H(id)]) < pipe'[k].n
               /\ \A v \in Workers : Known(Len(pipe) + 1, id, conn[<<v, id>>])'
               /\ \A k \in DOMAIN pipe' : pipe'[k].cmd \in {"D", "P"} /\ pipe'[k].id = id => Known(k, id, sent[pipe[k].p].since)'
    <3>1. Serves(id) /\ slot'[H(id)] = slot[H(id)]
      BY <1>17, <2>4
    <3>2. Stored(slot'[H(id)]) <= net'[id].conns /\ \A k \in DOMAIN pipe' : Brings(pipe'[k], id) => Stored(slot'[H(id)]) < pipe'[k].n
      BY <1>14, <2>1, <3>1 DEF UdpInv, ConnInv
    <3>3. ASSUME NEW v \in Workers PROVE Known(Len(pipe) + 1, id, conn[<<v, id>>])'
      <4>1. PICK c : c = conn[<<v, id>>]
        OBVIOUS
      <4>2. Known(Len(pipe) + 1, id, c)
        BY <3>1, <4>1 DEF UdpInv, ConnInv
      <4>3. PICK k \in Nat : k = Len(pipe) + 1
        BY <1>10
      <4>4. PICK m \in Nat : m = Len(pipe') + 1 /\ m >= k
        BY <1>10, <1>11, <4>3
      <4>5. Known(m, id, c)'
        BY <2>3, <3>1, <4>2, <4>3, <4>4
      <4> QED
        BY <1>2, <4>1, <4>4, <4>5 DEF Known, AskedBefore
    <3>4. ASSUME NEW k \in DOMAIN pipe', pipe'[k].cmd \in {"D", "P"}, pipe'[k].id = id PROVE Known(k, id, sent[pipe[k].p].since)'
      <4>1. k \in DOMAIN pipe /\ pipe'[k] = pipe[k] /\ k \in Nat /\ k >= k
        BY <1>9, <1>12, <3>4
      <4>2. PICK c : c = sent[pipe[k].p].since
        OBVIOUS
      <4>3. Known(k, id, c)
        BY <3>1, <3>4, <4>1, <4>2 DEF UdpInv, ConnInv
      <4>4. Known(k, id, c)'
        BY <2>3, <3>1, <4>1, <4>3
      <4> QED
        BY <1>2, <4>1, <4>2, <4>4 DEF Known, AskedBefore
    <3> QED
      BY <3>2, <3>3, <3>4
  <2>5. /\ Stored(slot'[H(new)]) <= net'[new].conns
        /\ \A k \in DOMAIN pipe' : ~Brings(pipe'[k], new)
        /\ \A v \in Workers : Known(Len(pipe) + 1, new, conn[<<v, new>>])'
        /\ \A k \in DOMAIN pipe' : ~(pipe'[k].cmd \in {"D", "P"} /\ pipe'[k].id = new)
    <3>1. Stored(slot'[H(new)]) = 0 /\ net'[new].conns = 0
      BY <1>3, <1>6, <1>7, <1>13, <1>14 DEF Stored
    <3>2. \A k \in DOMAIN pipe' : ~Brings(pipe'[k], new) /\ ~(pipe'[k].cmd \in {"D", "P"} /\ pipe'[k].id = new)
      BY <1>3, <1>9, <1>12, <1>15, <2>1
    <3>3. \A v \in Workers : conn'[<<v, new>>] <= 0
      BY <1>2, <1>3, <1>13 DEF UdpInv, ConnInv
    <3>4. \A v \in Workers : Known(Len(pipe) + 1, new, conn[<<v, new>>])'
      BY <1>16, <3>1, <3>3 DEF Known
    <3> QED
      BY <3>1, <3>2, <3>4
  <2>6. \A v \in Workers, id \in Ids : conn'[<<v, id>>] <= net'[id].conns
    BY <1>2, <1>14 DEF UdpInv, ConnInv
  <2> QED
    BY <1>16, <2>2, <2>4, <2>5, <2>6 DEF ConnInv
<1>22. PendInv'
  <2> SUFFICES ASSUME NEW id \in Ids, Serves(id)'
               PROVE  slot'[H(id)].udpconnecting >= Cardinality(Requested(id)') + Cardinality(Resolving(id)')
    BY <1>16 DEF PendInv
  <2>1. \A k \in DOMAIN pipe' : Brings(pipe'[k], id) => k \in DOMAIN pipe /\ pipe'[k] = pipe[k] /\ id # new
    BY <1>9, <1>12, <1>15 DEF Brings
  <2>2. Requested(id)' \subseteq Requested(id) /\ Resolving(id)' = Resolving(id)
    BY <1>2, <1>14, <2>1 DEF Requested, Resolving, Brings
  <2>3. CASE id = new
    <3>1. Requested(id)' = {}
      BY <2>1, <2>3 DEF Requested, Brings
    <3>2. Resolving(id)' = {}
      BY <1>2, <1>15, <2>3 DEF Resolving
    <3>3. Cardinality(Requested(id)') = 0 /\ Cardinality(Resolving(id)') = 0
      BY <3>1, <3>2, FS_EmptySet
    <3> QED
      BY <1>6, <1>7, <2>3, <3>3
  <2>4. CASE id # new
    <3>1. Serves(id) /\ slot'[H(id)] = slot[H(id)]
      BY <1>17, <2>4
    <3>2. Cardinality(Requested(id)') <= Cardinality(Requested(id)) /\ Cardinality(Requested(id)') \in Nat
      BY <2>2, UnderWay, FS_Subset, FS_CardinalityType
    <3>3. slot[H(id)].udpconnecting >= Cardinality(Requested(id)) + Cardinality(Resolving(id)) /\ slot[H(id)].udpconnecting \in Int
      BY <3>1, UdpNumbers DEF UdpInv, PendInv
    <3> QED
      BY <2>2, <3>1, <3>2, <3>3, UnderWay
  <2> QED
    BY <2>3, <2>4
<1>23. ToInv'
  <2>1. \A p, to : MayGo(p, to)' <=> MayGo(p, to)
    BY <1>2 DEF MayGo, MaxCalls
  <2>2. ASSUME NEW i \in Slots, Alive(i)', slot'[i].protocol = "udp"
        PROVE  (MayWait(slot[i].high) /\ MayWait(slot[i].low) /\ (slot[i].dw # None => Retried(slot[i].dw.p)))'
    <3>1. slot'[i] = slot[i] /\ Alive(i)
      BY <1>18, <2>2
    <3> QED
      BY <1>2, <2>1, <2>2, <3>1 DEF UdpInv, ToInv, MayWait, Retried
  <2>3. ASSUME NEW id \in Ids, net'[id].udp
        PROVE  (\A k \in DOMAIN wire[id] : LET u == wire[id][k] IN MayGo(u.p, u.to) /\ (~sent[u.p].retried => u.to > 0))'
    <3>1. CASE id = new
      BY <1>2, <1>13, <3>1
    <3>2. CASE id # new
      <4>1. net[id].udp
        BY <1>14, <2>3, <3>2
      <4> QED
        BY <1>2, <2>1, <4>1 DEF UdpInv, ToInv
    <3> QED
      BY <3>1, <3>2
  <2>4. ASSUME NEW v \in Workers, wk'[v].pc = "write", net'[wk'[v].id].udp, wk'[v].cmd # "A"
        PROVE  sent'[wk'[v].p].since <= slot'[H(wk'[v].id)].address
    <3>1. wk'[v] = wk[v] /\ wk[v].id \in Ids /\ wk[v].id # new /\ H(wk[v].id) \in Slots /\ Alive(H(wk[v].id))
      BY <1>2, <1>15, <2>4, HoldsLock
    <3>2. H(wk[v].id) # H(new)
      BY <1>3, <3>1 DEF Alive
    <3>3. net[wk[v].id].udp /\ slot'[H(wk[v].id)] = slot[H(wk[v].id)]
      BY <1>7, <1>14, <2>4, <3>1, <3>2
    <3> QED
      BY <1>2, <2>4, <3>1, <3>3 DEF UdpInv, ToInv
  <2> QED
    BY <1>16, <2>2, <2>3, <2>4 DEF ToInv
<1> QED
  BY <1>19, <1>20, <1>21, <1>22, <1>23 DEF UdpInv

LEMMA WorkerUdp ==
  ASSUME BaseInv, TypeOK', ArmedInv, UdpInv, NEW w \in Workers, Worker(w)
  PROVE  UdpInv'
<1>1. CASE Connect(w) \/ Listen(w) \/ BindFd(w) \/ Udp(w)
  BY <1>1, ReserveUdp DEF Connect, Listen, BindFd, Udp, Opening
<1>2. ASSUME NEW id \in 1 .. alloc, StartPause(w, id) \/ Close(w, id) \/ Shutdown(w, id)
      PROVE  UdpInv'
  BY <1>2, RequestUdp
<1>3. CASE Exit(w) \/ PutRequest(w)
  BY <1>3, RequestUdp
<1>4. ASSUME NEW id \in 1 .. alloc, Send(w, id) \/ SendLow(w, id) \/ UdpSend(w, id) \/ UdpConnect(w, id)
      PROVE  UdpInv'
  BY <1>4, SendUdp, UdpConnectUdp
<1> QED
  BY <1>1, <1>2, <1>3, <1>4, DoubleCheckUdp, DirectWriteUdp, IncSendingUdp, ResolveUdp DEF Worker

LEMMA UdpNext ==
  ASSUME BaseInv, TypeOK', ArmedInv, UdpInv, [Next]_vars
  PROVE  UdpInv'
<1>1. CASE (\E id \in Ids : Network(id)) \/ UNCHANGED vars
  BY <1>1, NetworkUdp
<1>2. CASE \E w \in Workers : Worker(w)
  BY <1>2, WorkerUdp
<1>3. CASE SocketThread
  <2>1. CASE MildSteps
    BY <2>1, MildUdp
  <2>2. CASE OpenSocket \/ ListenSocket \/ BindSocket \/ AddUdpSocket \/ ReportAccept
    BY <2>2, OpeningUdp, AcceptUdp
  <2>3. CASE SetUdpAddress \/ SendSocket \/ SendBuffer
    BY <2>3, SetUdpAddressUdp, SendSocketUdp, SendBufferUdp
  <2> QED
    BY <1>3, <2>1, <2>2, <2>3 DEF SocketThread, MildSteps
<1> QED
  BY <1>1, <1>2, <1>3 DEF Next

LEMMA UdpInit == Init => UdpInv
<1> SUFFICES ASSUME Init PROVE UdpInv
  OBVIOUS
<1>1. /\ slot = [i \in Slots |-> FreshSlot] /\ net = [id \in Ids |-> FreshNet] /\ wire = [id \in Ids |-> <<>>]
      /\ pipe = <<>> /\ sent = <<>> /\ wk = [w \in Workers |-> Resting] /\ conn = [k \in Workers \X Ids |-> 0] /\ alloc = 0
  BY DEF Init
<1>2. FreshSlot.type = "INVALID" /\ ~FreshNet.udp /\ FreshNet.conns = 0 /\ Resting.pc = "idle"
  BY DEF FreshSlot, FreshNet, Resting
<1>3. /\ \A i \in Slots : slot[i].type = "INVALID"
      /\ \A id \in Ids : ~net[id].udp /\ net[id].conns = 0 /\ wire[id] = <<>>
      /\ \A w \in Workers : wk[w].pc = "idle"
      /\ \A w \in Workers, id \in Ids : conn[<<w, id>>] = 0
  BY <1>1, <1>2
<1>4. DOMAIN pipe = {} /\ DOMAIN sent = {}
  BY <1>1
<1>5. KindInv
  BY <1>3, <1>4 DEF KindInv, Alive
<1>6. SentInv
  BY <1>3, <1>4 DEF SentInv
<1>7. ConnInv
  BY <1>3, <1>4 DEF ConnInv, Serves
<1>8. PendInv
  BY <1>3 DEF PendInv, Serves
<1>9. ToInv
  BY <1>3 DEF ToInv, Alive
<1> QED
  BY <1>5, <1>6, <1>7, <1>8, <1>9 DEF UdpInv

(* A datagram goes to the address its sender gave with it, or to one that  *)
(* was connected no earlier than the sender's own last connect: the pipe   *)
(* keeps the connects of an id in the order their addresses were found, a  *)
(* datagram that is queued stands behind its sender's connect, and the     *)
(* count of connects under way, which starts before the name is resolved,  *)
(* keeps any worker from writing past one of them (set_udp_address,        *)
(* can_direct_write).                                                      *)
THEOREM SocketUdpAddress == Spec => []UdpAddress
<1>1. Init => ArmedInv /\ UdpInv
  BY ArmedInit, UdpInit
<1> DEFINE IInv == ArmedInv /\ UdpInv
<1>2. BaseInv /\ BaseInv' /\ IInv /\ [Next]_vars => IInv'
  <2> SUFFICES ASSUME BaseInv, BaseInv', IInv, [Next]_vars PROVE IInv'
    OBVIOUS
  <2>1. TypeOK' /\ ArmedInv'
    BY ArmedNext DEF BaseInv
  <2> QED
    BY <2>1, UdpNext
<1>3. BaseInv /\ IInv => UdpAddress
  <2> SUFFICES ASSUME IInv, NEW id \in Ids, net[id].udp, NEW k \in DOMAIN wire[id], ~sent[wire[id][k].p].retried
               PROVE  IF sent[wire[id][k].p].kind = "A" THEN wire[id][k].to = MaxCalls + 1
                      ELSE wire[id][k].to >= sent[wire[id][k].p].since /\ wire[id][k].to > 0
    BY DEF UdpAddress
  <2> QED
    BY DEF UdpInv, ToInv, MayGo
<1> QED
  <2>1. Init => IInv
    BY <1>1
  <2> HIDE DEF IInv
  <2> QED
    BY <1>2, <1>3, <2>1, SocketBase, PTL DEF Spec
=============================================================================
