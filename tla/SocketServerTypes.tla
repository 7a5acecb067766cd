-------------------------- MODULE SocketServerTypes --------------------------
(***************************************************************************)
(* What every variable of the socket server can hold, that each of its     *)
(* actions keeps to it, and that its slots, requests, events and locks     *)
(* stay in order, with the lemmas about write lists and requests the       *)
(* proofs in SocketServerProofs rest on; and what follows for the state of *)
(* a slot: what its owner is told and when its write event is enabled.     *)
(***************************************************************************)
EXTENDS SocketServer, SequenceTheorems, FiniteSetTheorems, TLAPS

-----------------------------------------------------------------------------
(* Types.                                                                  *)
Opening == {"O", "L", "B", "U"}
Data == {"D", "P", "A"}
Types == {"INVALID", "RESERVE", "CONNECTING", "CONNECTED", "PLISTEN", "LISTEN", "BIND", "PACCEPT",
          "HALFCLOSE_READ", "HALFCLOSE_WRITE"}
Sockets ==
  [type : Types, id : Nat, protocol : {"unknown", "tcp", "udp"}, reading : BOOLEAN,
   writing : BOOLEAN, closing : BOOLEAN, tag : Nat, sending : Nat, high : Seq(Buffers),
   low : Seq(Buffers), dw : Buffers \cup {None}, wb : Int, udpconnecting : Int, address : Nat]
Requests ==
  [cmd : Opening \cup {"R", "S", "K", "X"}, id : Ids] \cup [cmd : Data \cup {"W"}, id : Ids, p : Nat]
    \cup [cmd : {"C"}, id : Ids, n : Nat] \cup [cmd : {"exit"}]
EventRecs == [slot : Slots \cup {None}, read : BOOLEAN, write : BOOLEAN, error : BOOLEAN, eof : BOOLEAN]
Positions == [pc : {"poll", "fresh", "force", "clear", "dec", "exit"}, slot : Slots \cup {None},
              id : Nat, msg : {"none", "close", "err"}, ctrl : BOOLEAN]
NetRecs == [udp : BOOLEAN, est : {"wait", "ok", "fail", "listen"}, inb : Nat, fin : BOOLEAN,
            rst : {"no", "err", "done"}, shut : BOOLEAN, conns : Nat]
Pieces == [p : Nat, off : Nat, n : Int, to : Nat]
ToldRecs == [start : BOOLEAN, open : BOOLEAN, close : Nat]
Working == [pc : {"check", "write", "inc", "put"}, id : Ids, p : Nat, cmd : Data \cup {"W"}]
WorkerRecs == {Resting} \cup Working \cup [pc : {"resolve"}, id : Ids, p : {0}, cmd : {"C"}]
SentRecs == [id : Ids, w : Workers, kind : Data, ok : BOOLEAN, retried : BOOLEAN,
             udp : BOOLEAN, since : Nat]

TypeOK ==
  /\ scene \in Scenes
  /\ slot \in [Slots -> Sockets]
  /\ lock \in [Slots -> Workers \cup {None}]
  /\ alloc \in 0 .. scene.ids
  /\ pipe \in Seq(Requests)
  /\ ev \in Seq(EventRecs)
  /\ ctrl \in BOOLEAN
  /\ th \in Positions /\ (th.pc \in {"force", "clear", "dec"} => th.slot \in Slots)
  /\ net \in [Ids -> NetRecs]
  /\ wire \in [Ids -> Seq(Pieces)]
  /\ told \in [Ids -> ToldRecs]
  /\ wk \in [Workers -> WorkerRecs]
  /\ sent \in Seq(SentRecs)
  /\ freed \in Seq(Nat) /\ Len(freed) = Len(sent)
  /\ conn \in [Workers \X Ids -> Nat]
  /\ calls \in Nat /\ moves \in Nat

-----------------------------------------------------------------------------
(* Facts about the instance.                                               *)

(* What a scene is.                                                        *)
LEMMA Scene ==
  ASSUME scene \in Scenes
  PROVE  /\ scene \in SceneRecords /\ NSlot \in Nat \ {0}
         /\ scene.ids \in Nat /\ scene.ncall \in Nat /\ scene.nevent \in Nat /\ scene.nmove \in Nat
<1>1. scene \in SceneRecords
  BY SocketAssumption
<1> QED
  BY <1>1 DEF NSlot, SceneRecords

(* Every id has a slot, and ids of one slot differ by their tags.          *)
LEMMA Hash ==
  ASSUME scene \in Scenes
  PROVE  /\ \A id \in Nat : H(id) \in Slots /\ Tag(id) \in Nat
         /\ \A a, b \in Nat : H(a) = H(b) /\ Tag(a) = Tag(b) => a = b
<1>1. NSlot \in Nat \ {0}
  BY Scene
<1>2. ASSUME NEW id \in Nat
      PROVE  H(id) \in Slots /\ Tag(id) \in Nat /\ id = NSlot * Tag(id) + H(id)
  BY <1>1 DEF H, Tag, Slots
<1> QED
  BY <1>2

(* The scene never changes, nor do the sets made from it.                  *)
LEMMA SameScene ==
  ASSUME scene' = scene
  PROVE  /\ Slots' = Slots /\ Ids' = Ids /\ NSlot' = NSlot
         /\ Requests' = Requests /\ EventRecs' = EventRecs /\ Positions' = Positions /\ SentRecs' = SentRecs /\ WorkerRecs' = WorkerRecs
  BY DEF Working, WorkerRecs, Slots, Ids, NSlot, Requests, EventRecs, Positions, SentRecs

LEMMA IdsAreNat == ASSUME scene \in Scenes PROVE Ids \subseteq Nat /\ \A id \in Ids : H(id) \in Slots
<1>1. Ids \subseteq Nat
  BY Scene DEF Ids
<1> QED
  BY <1>1, Hash

-----------------------------------------------------------------------------
(* The types.                                                              *)
LEMMA InitTypes == Init => TypeOK
<1> SUFFICES ASSUME Init PROVE TypeOK
  OBVIOUS
<1> USE DEF Init
<1>1. slot \in [Slots -> Sockets]
  <2>1. <<>> \in Seq(Buffers) /\ 0 \in Int /\ 0 \in Nat
    OBVIOUS
  <2>2. FreshSlot \in Sockets
    BY <2>1 DEF FreshSlot, Sockets, Types
  <2> QED
    BY <2>2
<1>2. net \in [Ids -> NetRecs] /\ told \in [Ids -> ToldRecs]
  BY DEF FreshNet, NetRecs, ToldRecs
<1>3. th \in Positions /\ th.pc = "poll" /\ wk \in [Workers -> WorkerRecs]
  BY DEF Polling, Positions, WorkerRecs
<1>4. /\ pipe \in Seq(Requests) /\ ev \in Seq(EventRecs) /\ sent \in Seq(SentRecs)
      /\ freed \in Seq(Nat) /\ Len(freed) = Len(sent)
      /\ wire \in [Ids -> Seq(Pieces)]
  OBVIOUS
<1>5. alloc \in 0 .. scene.ids
  BY Scene
<1> QED
  BY <1>1, <1>2, <1>3, <1>4, <1>5 DEF TypeOK

(* Storing a value of the right type in a field of a socket.               *)
LEMMA Fields ==
  \A x \in Sockets :
    /\ \A v \in Types : [x EXCEPT !.type = v] \in Sockets
    /\ \A v \in Nat : [x EXCEPT !.id = v] \in Sockets
    /\ \A v \in {"unknown", "tcp", "udp"} : [x EXCEPT !.protocol = v] \in Sockets
    /\ \A v \in BOOLEAN : [x EXCEPT !.reading = v] \in Sockets
    /\ \A v \in BOOLEAN : [x EXCEPT !.writing = v] \in Sockets
    /\ \A v \in BOOLEAN : [x EXCEPT !.closing = v] \in Sockets
    /\ \A v \in Nat : [x EXCEPT !.tag = v] \in Sockets
    /\ \A v \in Nat : [x EXCEPT !.sending = v] \in Sockets
    /\ \A v \in Seq(Buffers) : [x EXCEPT !.high = v] \in Sockets
    /\ \A v \in Seq(Buffers) : [x EXCEPT !.low = v] \in Sockets
    /\ \A v \in Buffers \cup {None} : [x EXCEPT !.dw = v] \in Sockets
    /\ \A v \in Int : [x EXCEPT !.wb = v] \in Sockets
    /\ \A v \in Int : [x EXCEPT !.udpconnecting = v] \in Sockets
    /\ \A v \in Nat : [x EXCEPT !.address = v] \in Sockets
<1> TAKE x \in Sockets
<1>1. ASSUME NEW v \in Types PROVE [x EXCEPT !.type = v] \in Sockets
  BY DEF Sockets
<1>2. ASSUME NEW v \in Nat PROVE [x EXCEPT !.id = v] \in Sockets
  BY DEF Sockets
<1>3. ASSUME NEW v \in {"unknown", "tcp", "udp"} PROVE [x EXCEPT !.protocol = v] \in Sockets
  BY DEF Sockets
<1>4. ASSUME NEW v \in BOOLEAN PROVE [x EXCEPT !.reading = v] \in Sockets
  BY DEF Sockets
<1>5. ASSUME NEW v \in BOOLEAN PROVE [x EXCEPT !.writing = v] \in Sockets
  BY DEF Sockets
<1>6. ASSUME NEW v \in BOOLEAN PROVE [x EXCEPT !.closing = v] \in Sockets
  BY DEF Sockets
<1>7. ASSUME NEW v \in Nat PROVE [x EXCEPT !.tag = v] \in Sockets
  BY DEF Sockets
<1>8. ASSUME NEW v \in Nat PROVE [x EXCEPT !.sending = v] \in Sockets
  BY DEF Sockets
<1>9. ASSUME NEW v \in Seq(Buffers) PROVE [x EXCEPT !.high = v] \in Sockets
  BY DEF Sockets
<1>10. ASSUME NEW v \in Seq(Buffers) PROVE [x EXCEPT !.low = v] \in Sockets
  BY DEF Sockets
<1>11. ASSUME NEW v \in Buffers \cup {None} PROVE [x EXCEPT !.dw = v] \in Sockets
  BY DEF Sockets
<1>12. ASSUME NEW v \in Int PROVE [x EXCEPT !.wb = v] \in Sockets
  BY DEF Sockets
<1>13. ASSUME NEW v \in Int PROVE [x EXCEPT !.udpconnecting = v] \in Sockets
  BY DEF Sockets
<1>14. ASSUME NEW v \in Nat PROVE [x EXCEPT !.address = v] \in Sockets
  BY DEF Sockets
<1> QED
  BY <1>1, <1>2, <1>3, <1>4, <1>5, <1>6, <1>7, <1>8, <1>9, <1>10, <1>11, <1>12, <1>13, <1>14

LEMMA ReserveType ==
  ASSUME NEW x \in Sockets, NEW id \in Nat
  PROVE  [x EXCEPT !.type = "RESERVE", !.id = id, !.protocol = "unknown", !.udpconnecting = 0] \in Sockets
<1>1. "RESERVE" \in Types /\ "unknown" \in {"unknown", "tcp", "udp"} /\ 0 \in Int
  BY DEF Types
<1> QED
  BY <1>1, Fields, Zenon

LEMMA SetSlotType ==
  ASSUME slot \in [Slots -> Sockets], NEW i \in Slots, NEW x \in Sockets, slot' = [slot EXCEPT ![i] = x]
  PROVE  slot' \in [Slots -> Sockets]
OBVIOUS

LEMMA GotoType ==
  ASSUME wk \in [Workers -> WorkerRecs], NEW w \in Workers, NEW r \in WorkerRecs, wk' = [wk EXCEPT ![w] = r]
  PROVE  wk' \in [Workers -> WorkerRecs]
OBVIOUS

LEMMA TellType ==
  ASSUME told \in [Ids -> ToldRecs], NEW id, NEW msg, Tell(id, msg)
  PROVE  told' \in [Ids -> ToldRecs]
<1>1. CASE id \notin Ids
  BY <1>1 DEF Tell
<1>2. CASE id \in Ids
  <2> DEFINE a == told[id].open \/ msg = "open"
             b == told[id].close + (IF msg = "close" THEN 1 ELSE 0)
  <2>1. a \in BOOLEAN /\ b \in Nat /\ told[id] \in ToldRecs
    BY <1>2 DEF ToldRecs
  <2>2. told' = [told EXCEPT ![id] = [told[id] EXCEPT !.open = a, !.close = b]]
    BY <1>2 DEF Tell
  <2> HIDE DEF a, b
  <2>3. [told[id] EXCEPT !.open = a, !.close = b] \in ToldRecs
    BY <2>1 DEF ToldRecs
  <2> QED
    BY <1>2, <2>2, <2>3
<1> QED
  BY <1>1, <1>2

LEMMA FreeType ==
  ASSUME freed \in Seq(Nat), NEW ps, Free(ps)
  PROVE  freed' \in Seq(Nat) /\ Len(freed') = Len(freed)
<1>1. freed' = [p \in 1 .. Len(freed) |-> freed[p] + (IF p \in ps THEN 1 ELSE 0)]
  BY DEF Free
<1>2. \A p \in 1 .. Len(freed) : freed[p] + (IF p \in ps THEN 1 ELSE 0) \in Nat
  OBVIOUS
<1> QED
  BY <1>1, <1>2

-----------------------------------------------------------------------------
(* Write lists.                                                            *)

LEMMA Sizes == \A p : Size(p) \in {1, 2}
  BY DEF Size

LEMMA LoadIsNat ==
  ASSUME NEW list \in Seq(Buffers)
  PROVE  IsFiniteSet(Units(list)) /\ Load(list) \in Nat
<1>1. IsFiniteSet(1 .. Len(list)) /\ IsFiniteSet(1 .. 2)
  <2>1. Len(list) \in Int /\ 1 \in Int /\ 2 \in Int
    OBVIOUS
  <2> QED
    BY <2>1, FS_Interval
<1>2. IsFiniteSet((1 .. Len(list)) \X (1 .. 2))
  BY <1>1, FS_Product
<1>3. IsFiniteSet(Units(list))
  BY <1>2, FS_Subset DEF Units
<1> QED
  BY <1>3, FS_CardinalityType DEF Load

(* An outcome that a write to this list can have.                          *)
Fits(r, list) ==
  r.m \in Nat /\ r.n \in {0, 1} /\ r.drop \in {0, 1} /\ r.m + r.drop <= Len(list) /\ r.m + r.n <= Len(list)

LEMMA OutcomeFits ==
  ASSUME NEW list \in Seq(Buffers)
  PROVE  /\ Fits(Nothing, list)
         /\ \A udp, reset : \A r \in Outcomes(list, udp, reset) : Fits(r, list)
<1>1. Fits(Nothing, list)
  <2>1. Nothing.m = 0 /\ Nothing.n = 0 /\ Nothing.drop = 0 /\ Len(list) \in Nat
    BY DEF Nothing
  <2> QED
    BY <2>1 DEF Fits
<1>2. ASSUME NEW udp, NEW reset, NEW r \in Outcomes(list, udp, reset) PROVE Fits(r, list)
  BY DEF Outcomes, Fits
<1> QED
  BY <1>1, <1>2

LEMMA RestType ==
  ASSUME NEW list \in Seq(Buffers), NEW r, Fits(r, list)
  PROVE  Rest(list, r) \in Seq(Buffers) /\ Len(Rest(list, r)) = Len(list) - r.m - r.drop
<1> USE DEF Fits
<1> DEFINE N == Len(list) - r.m - r.drop
           B(j) == LET b == list[r.m + r.drop + j] IN IF j = 1 THEN [b EXCEPT !.off = @ + r.n] ELSE b
<1>1. N \in Nat
  OBVIOUS
<1>2. ASSUME NEW j \in 1 .. N PROVE B(j) \in Buffers
  <2>1. ASSUME NEW b \in Buffers PROVE [b EXCEPT !.off = @ + r.n] \in Buffers
    <3>1. ASSUME NEW n \in Nat PROVE [b EXCEPT !.off = n] \in Buffers
      BY DEF Buffers
    <3>2. b.off \in Nat
      BY DEF Buffers
    <3>4. r.n \in Nat
      OBVIOUS
    <3>3. b.off + r.n \in Nat
      BY <3>2, <3>4
    <3> QED
      BY <3>1, <3>3
  <2>2. list[r.m + r.drop + j] \in Buffers
    OBVIOUS
  <2> QED
    BY <2>1, <2>2
<1>3. Rest(list, r) = [j \in 1 .. N |-> B(j)]
  BY DEF Rest
<1> HIDE DEF N, B
<1>4. Rest(list, r) \in Seq(Buffers) /\ Len(Rest(list, r)) = N
  BY <1>1, <1>2, <1>3
<1> QED
  BY <1>4 DEF N

LEMMA WrittenType ==
  ASSUME NEW list \in Seq(Buffers), NEW r, Fits(r, list)
  PROVE  Written(list, r) \in Seq(Pieces) /\ Len(Written(list, r)) = r.m + r.n
<1> USE DEF Fits
<1> DEFINE N == r.m + r.n
           B(j) == Piece(list[j], IF j <= r.m THEN Left(list[j]) ELSE r.n)
<1>1. N \in Nat
  OBVIOUS
<1>2. ASSUME NEW j \in 1 .. N PROVE B(j) \in Pieces
  <2>1. ASSUME NEW b \in Buffers, NEW n \in Int PROVE Left(b) \in Int /\ Piece(b, n) \in Pieces
    <3>1. Size(b.p) \in Int
      BY Sizes
    <3> QED
      BY <3>1 DEF Buffers, Pieces, Piece, Left
  <2>2. list[j] \in Buffers
    OBVIOUS
  <2>3. (IF j <= r.m THEN Left(list[j]) ELSE r.n) \in Int
    BY <2>1, <2>2
  <2> QED
    BY <2>1, <2>2, <2>3
<1>3. Written(list, r) = [j \in 1 .. N |-> B(j)]
  BY DEF Written
<1> HIDE DEF N, B
<1>4. Written(list, r) \in Seq(Pieces) /\ Len(Written(list, r)) = N
  BY <1>1, <1>2, <1>3
<1> QED
  BY <1>4 DEF N

LEMMA ExtendType ==
  ASSUME NEW s \in Seq(Pieces), NEW out \in Seq(Pieces)
  PROVE  Extend(s, out) \in Seq(Pieces)
<1> DEFINE join == s # <<>> /\ out # <<>> /\ s[Len(s)].p = out[1].p /\ End(s[Len(s)]) = out[1].off
<1>1. CASE join
  <2>1. s # <<>> /\ out # <<>> /\ Len(s) \in DOMAIN s /\ s[Len(s)] \in Pieces /\ out[1] \in Pieces
    BY <1>1
  <2> DEFINE u == [s[Len(s)] EXCEPT !.n = @ + out[1].n]
             t == [s EXCEPT ![Len(s)] = u]
  <2>2. u \in Pieces
    <3>1. ASSUME NEW a \in Pieces, NEW b \in Pieces PROVE [a EXCEPT !.n = @ + b.n] \in Pieces
      <4>1. ASSUME NEW n \in Int PROVE [a EXCEPT !.n = n] \in Pieces
        BY DEF Pieces
      <4>2. a.n + b.n \in Int
        BY DEF Pieces
      <4> QED
        BY <4>1, <4>2
    <3> QED
      BY <2>1, <3>1
  <2>3. Extend(s, out) = t \o Tail(out)
    BY <1>1 DEF Extend
  <2> HIDE DEF u, join
  <2>4. t \in Seq(Pieces)
    BY <2>1, <2>2
  <2>5. Tail(out) \in Seq(Pieces)
    BY <2>1
  <2> HIDE DEF t
  <2> QED
    BY <2>3, <2>4, <2>5
<1>2. CASE ~join
  <2>1. Extend(s, out) = s \o out
    BY <1>2 DEF Extend
  <2> QED
    BY <2>1
<1> QED
  BY <1>1, <1>2

-----------------------------------------------------------------------------
(* Every action keeps the types.                                           *)

LEMMA PutType ==
  ASSUME pipe \in Seq(Requests), NEW r \in Requests, Put(r)
  PROVE  pipe' \in Seq(Requests)
BY DEF Put

(* A free id, its slot, and the id it is stored in.                        *)
LEMMA FreeIdType ==
  ASSUME TypeOK, NEW id \in FreeIds, id <= scene.ids
  PROVE  /\ id \in Ids /\ id \in Nat /\ id \in 0 .. scene.ids /\ id > alloc /\ H(id) \in Slots
         /\ slot[H(id)].type = "INVALID"
<1>1. alloc \in Nat /\ NSlot \in Nat /\ scene.ids \in Nat
  BY Scene DEF TypeOK
<1>2. /\ id \in alloc + 1 .. alloc + NSlot
      /\ slot[H(id)].type = "INVALID"
  BY DEF FreeIds
<1>3. id \in Nat /\ id > 0 /\ id > alloc
  BY <1>1, <1>2
<1> QED
  BY <1>1, <1>2, <1>3, Hash DEF Ids, TypeOK

LEMMA OpenRequestType ==
  ASSUME TypeOK, NEW w, NEW kind \in Opening, OpenRequest(w, kind)
  PROVE  TypeOK'
<1> USE DEF TypeOK
<1>1. /\ scene' = scene
      /\ UNCHANGED <<lock, ev, ctrl, th, wire, wk, sent, freed, conn, due, moves>>
      /\ calls' = calls + 1
  BY DEF OpenRequest
<1>2. PICK id \in FreeIds :
        /\ id <= scene.ids /\ alloc' = id /\ slot' = Reserve(id) /\ Put([cmd |-> kind, id |-> id])
        /\ net' = [net EXCEPT ![id].udp = (kind = "U"), ![id].est = IF kind = "L" THEN "listen" ELSE @]
        /\ told' = [told EXCEPT ![id].open = (kind = "U"), ![id].start = (kind = "L")]
  BY DEF OpenRequest
<1>3. id \in Ids /\ alloc' \in 0 .. scene.ids /\ H(id) \in Slots
  BY <1>2, FreeIdType
<1>4. slot' \in [Slots -> Sockets]
  BY <1>2, <1>3, IdsAreNat, ReserveType DEF Reserve
<1>5. pipe' \in Seq(Requests)
  <2>1. [cmd |-> kind, id |-> id] \in Requests
    BY <1>3 DEF Requests
  <2> QED
    BY <1>2, <2>1 DEF Put
<1>6. net' \in [Ids -> NetRecs]
  <2>1. ASSUME NEW n \in NetRecs, NEW u \in BOOLEAN, NEW e \in {"wait", "ok", "fail", "listen"}
        PROVE  [n EXCEPT !.udp = u, !.est = e] \in NetRecs
    BY DEF NetRecs
  <2>2. (kind = "U") \in BOOLEAN /\ (IF kind = "L" THEN "listen" ELSE net[id].est) \in {"wait", "ok", "fail", "listen"}
    BY <1>3 DEF NetRecs
  <2>3. net' = [net EXCEPT ![id] = [net[id] EXCEPT !.udp = (kind = "U"), !.est = IF kind = "L" THEN "listen" ELSE net[id].est]]
    BY <1>2, <1>3
  <2> QED
    BY <1>3, <2>1, <2>2, <2>3
<1>7. told' \in [Ids -> ToldRecs]
  <2>1. ASSUME NEW t \in ToldRecs, NEW u \in BOOLEAN, NEW e \in BOOLEAN
        PROVE  [t EXCEPT !.open = u, !.start = e] \in ToldRecs
    BY DEF ToldRecs
  <2>2. (kind = "U") \in BOOLEAN /\ (kind = "L") \in BOOLEAN
    OBVIOUS
  <2>3. told' = [told EXCEPT ![id] = [told[id] EXCEPT !.open = (kind = "U"), !.start = (kind = "L")]]
    BY <1>2, <1>3
  <2> QED
    BY <1>3, <2>1, <2>2, <2>3
<1> QED
  BY <1>1, <1>3, <1>4, <1>5, <1>6, <1>7, SameScene

LEMMA RequestType ==
  ASSUME TypeOK, NEW w, NEW id, NEW cmd \in {"R", "S", "K", "X"}, id \in Ids, Request(w, id, cmd)
  PROVE  TypeOK'
<1> USE DEF TypeOK
<1>1. UNCHANGED <<sockVars, wk, sent, freed, conn, moves>> /\ calls' = calls + 1 /\ Put([cmd |-> cmd, id |-> id])
  BY DEF Request, Call
<1>2. [cmd |-> cmd, id |-> id] \in Requests
  BY DEF Requests
<1>3. pipe' \in Seq(Requests)
  BY <1>1, <1>2 DEF Put
<1> QED
  BY <1>1, <1>3, SameScene DEF sockVars

LEMMA ExitType ==
  ASSUME TypeOK, NEW w, Exit(w)
  PROVE  TypeOK'
<1> USE DEF TypeOK
<1>1. UNCHANGED <<sockVars, wk, sent, freed, conn, calls, moves>> /\ Put([cmd |-> "exit"])
  BY DEF Exit
<1>2. [cmd |-> "exit"] \in Requests
  BY DEF Requests
<1>3. pipe' \in Seq(Requests)
  BY <1>1, <1>2 DEF Put
<1> QED
  BY <1>1, <1>3, SameScene DEF sockVars

LEMMA SendingType ==
  ASSUME TypeOK, NEW w \in Workers, NEW id \in Ids, NEW kind \in Data, NEW bad \in BOOLEAN, NEW direct \in BOOLEAN,
         Sending(w, id, kind, bad, direct)
  PROVE  TypeOK'
<1> USE DEF TypeOK
<1>1. /\ UNCHANGED <<scene, slot, alloc, pipe, ev, ctrl, th, net, wire, told, conn, moves>>
      /\ calls' = calls + 1 /\ Handed(w, id, kind, ~bad)
      /\ lock' = IF ~bad /\ direct THEN [lock EXCEPT ![H(id)] = w] ELSE lock
      /\ IF bad THEN UNCHANGED wk
         ELSE Goto(w, [pc |-> IF direct THEN "check" ELSE Queueing(kind), id |-> id, p |-> Len(sent) + 1, cmd |-> kind])
  BY DEF Sending, Call
<1>2. sent' \in Seq(SentRecs)
  <2>1. net[id].udp \in BOOLEAN /\ conn[<<w, id>>] \in Nat
    BY DEF NetRecs
  <2>2. [id |-> id, w |-> w, kind |-> kind, ok |-> ~bad, retried |-> FALSE, udp |-> net[id].udp,
         since |-> conn[<<w, id>>]] \in SentRecs
    BY <2>1 DEF SentRecs
  <2> QED
    BY <1>1, <2>2 DEF Handed
<1>3. freed' \in Seq(Nat) /\ Len(freed') = Len(sent')
  BY <1>1 DEF Handed
<1>4. lock' \in [Slots -> Workers \cup {None}]
  BY <1>1
<1>5. wk' \in [Workers -> WorkerRecs]
  <2>1. id \in Nat /\ Len(sent) + 1 \in Nat
    BY IdsAreNat
  <2>2. ASSUME NEW n \in Nat, NEW pc \in {"check", "inc", "put"}
        PROVE  [pc |-> pc, id |-> id, p |-> n, cmd |-> kind] \in WorkerRecs
    BY DEF WorkerRecs, Working, Data
  <2>3. (IF direct THEN "check" ELSE Queueing(kind)) \in {"check", "inc", "put"}
    BY DEF Queueing
  <2> QED
    BY <1>1, <2>1, <2>2, <2>3 DEF Goto
<1> QED
  BY <1>1, <1>2, <1>3, <1>4, <1>5, SameScene

LEMMA RestingType == Resting \in WorkerRecs
  BY DEF WorkerRecs

(* A worker in the middle of a call.                                       *)
LEMMA AtWork ==
  ASSUME NEW r \in WorkerRecs, r.pc # "idle"
  PROVE  /\ r.id \in Ids /\ r.p \in Nat
         /\ r.pc # "resolve" => r \in Working /\ r.cmd \in Data \cup {"W"}
         /\ r.pc = "resolve" => r.cmd = "C"
BY DEF WorkerRecs, Working, Resting

LEMMA StepType ==
  ASSUME NEW r \in WorkerRecs, r.pc \in {"check", "write", "inc", "put"}
  PROVE  /\ \A pc \in {"check", "write", "inc", "put"} : [r EXCEPT !.pc = pc] \in WorkerRecs
         /\ [r EXCEPT !.pc = "inc", !.cmd = "W"] \in WorkerRecs
<1>1. r \in Working
  BY AtWork
<1>2. ASSUME NEW pc \in {"check", "write", "inc", "put"} PROVE [r EXCEPT !.pc = pc] \in Working
  BY <1>1 DEF Working
<1>3. [r EXCEPT !.pc = "inc", !.cmd = "W"] \in Working
  BY <1>1 DEF Working
<1> QED
  BY <1>2, <1>3 DEF WorkerRecs

LEMMA DoubleCheckType ==
  ASSUME TypeOK, NEW w \in Workers, DoubleCheck(w)
  PROVE  TypeOK'
<1> USE DEF TypeOK
<1>1. PICK again \in BOOLEAN :
        /\ Goto(w, [wk[w] EXCEPT !.pc = IF again THEN "write" ELSE Queueing(wk[w].cmd)])
        /\ lock' = IF again THEN lock ELSE [lock EXCEPT ![H(wk[w].id)] = None]
  BY DEF DoubleCheck, CanDirectWrite
<1>2. UNCHANGED <<scene, slot, alloc, pipe, ev, ctrl, th, net, wire, told, sent, freed, conn, calls, moves>>
  BY DEF DoubleCheck
<1>3. lock' \in [Slots -> Workers \cup {None}]
  BY <1>1
<1>4. wk' \in [Workers -> WorkerRecs]
  <2>1. wk[w].pc = "check"
    BY DEF DoubleCheck
  <2>2. (IF again THEN "write" ELSE Queueing(wk[w].cmd)) \in {"check", "write", "inc", "put"}
    BY DEF Queueing
  <2> QED
    BY <1>1, <2>1, <2>2, StepType DEF Goto
<1> QED
  BY <1>1, <1>2, <1>3, <1>4, SameScene

LEMMA IncSendingType ==
  ASSUME TypeOK, NEW w \in Workers, IncSending(w)
  PROVE  TypeOK'
<1> USE DEF TypeOK
<1> DEFINE i == H(wk[w].id)
<1>1. /\ \/ slot' = slot
         \/ slot' = [slot EXCEPT ![i].sending = @ + 1]
      /\ Goto(w, [wk[w] EXCEPT !.pc = "put"])
      /\ UNCHANGED <<scene, lock, alloc, pipe, ev, ctrl, th, net, wire, told, sent, freed, conn, calls, moves>>
  BY DEF IncSending
<1>2. i \in Slots
  <2>1. wk[w].pc = "inc"
    BY DEF IncSending
  <2> QED
    BY <2>1, AtWork, IdsAreNat
<1> HIDE DEF i
<1>3. slot' \in [Slots -> Sockets]
  <2>1. slot[i].sending + 1 \in Nat
    BY <1>2 DEF Sockets
  <2>2. [slot[i] EXCEPT !.sending = slot[i].sending + 1] \in Sockets
    BY <1>2, <2>1, Fields
  <2> QED
    BY <1>1, <1>2, <2>2
<1>4. wk' \in [Workers -> WorkerRecs]
  <2>1. wk[w].pc = "inc"
    BY DEF IncSending
  <2> QED
    BY <1>1, <2>1, StepType DEF Goto
<1> QED
  BY <1>1, <1>3, <1>4, SameScene

LEMMA UdpConnectType ==
  ASSUME TypeOK, NEW w \in Workers, NEW id \in Ids, UdpConnect(w, id)
  PROVE  TypeOK'
<1> USE DEF TypeOK
<1>1. /\ slot' = [slot EXCEPT ![H(id)].udpconnecting = @ + 1]
      /\ Goto(w, [pc |-> "resolve", id |-> id, p |-> 0, cmd |-> "C"])
      /\ UNCHANGED <<scene, lock, alloc, pipe, ev, ctrl, th, net, wire, told, conn, sent, freed, moves>>
      /\ calls' = calls + 1
  BY DEF UdpConnect, Call
<1>2. H(id) \in Slots /\ id \in Nat
  BY IdsAreNat
<1>3. slot' \in [Slots -> Sockets]
  <2>1. slot[H(id)].udpconnecting + 1 \in Int
    BY <1>2 DEF Sockets
  <2>2. [slot[H(id)] EXCEPT !.udpconnecting = slot[H(id)].udpconnecting + 1] \in Sockets
    BY <1>2, <2>1, Fields
  <2> QED
    BY <1>1, <1>2, <2>2
<1>4. wk' \in [Workers -> WorkerRecs]
  <2>1. [pc |-> "resolve", id |-> id, p |-> 0, cmd |-> "C"] \in WorkerRecs
    BY <1>2 DEF WorkerRecs
  <2> QED
    BY <1>1, <2>1 DEF Goto
<1> QED
  BY <1>1, <1>3, <1>4, SameScene

LEMMA PutRequestType ==
  ASSUME TypeOK, NEW w \in Workers, PutRequest(w)
  PROVE  TypeOK'
<1> USE DEF TypeOK
<1>1. /\ wk[w].pc = "put"
      /\ Put([cmd |-> wk[w].cmd, id |-> wk[w].id, p |-> wk[w].p])
      /\ Goto(w, Resting)
      /\ UNCHANGED <<sockVars, sent, freed, conn, calls, moves>>
  BY DEF PutRequest
<1>2. [cmd |-> wk[w].cmd, id |-> wk[w].id, p |-> wk[w].p] \in Requests
  <2>1. wk[w].id \in Ids /\ wk[w].p \in Nat /\ wk[w].cmd \in Data \cup {"W"}
    BY <1>1, AtWork
  <2> QED
    BY <2>1 DEF Requests
<1>3. pipe' \in Seq(Requests)
  BY <1>1, <1>2 DEF Put
<1>4. wk' \in [Workers -> WorkerRecs]
  BY <1>1, RestingType DEF Goto
<1> QED
  BY <1>1, <1>3, <1>4, SameScene DEF sockVars

LEMMA ResolveType ==
  ASSUME TypeOK, NEW w \in Workers, Resolve(w)
  PROVE  TypeOK'
<1> USE DEF TypeOK
<1> DEFINE id == wk[w].id
           n == net[id].conns + 1
<1>1. /\ wk[w].pc = "resolve"
      /\ Goto(w, Resting)
      /\ \/ UNCHANGED <<pipe, net, conn>>
         \/ Put([cmd |-> "C", id |-> id, n |-> 0]) /\ UNCHANGED <<net, conn>>
         \/ /\ Put([cmd |-> "C", id |-> id, n |-> n])
            /\ net' = [net EXCEPT ![id].conns = n]
            /\ conn' = [conn EXCEPT ![<<w, id>>] = n]
      /\ UNCHANGED <<scene, slot, lock, alloc, ev, ctrl, th, wire, told, sent, freed, calls, moves>>
  BY DEF Resolve
<1>2. id \in Ids /\ n \in Nat
  <2>1. id \in Ids
    BY <1>1, AtWork
  <2> QED
    BY <2>1 DEF NetRecs
<1> HIDE DEF id, n
<1>3. pipe' \in Seq(Requests)
  <2>1. [cmd |-> "C", id |-> id, n |-> n] \in Requests /\ [cmd |-> "C", id |-> id, n |-> 0] \in Requests
    BY <1>2 DEF Requests
  <2>2. pipe' = pipe \/ Put([cmd |-> "C", id |-> id, n |-> n]) \/ Put([cmd |-> "C", id |-> id, n |-> 0])
    BY <1>1
  <2> QED
    BY <2>1, <2>2, PutType
<1>4. net' \in [Ids -> NetRecs]
  <2>1. ASSUME NEW r \in NetRecs PROVE [r EXCEPT !.conns = n] \in NetRecs
    BY <1>2 DEF NetRecs
  <2>2. net[id] \in NetRecs
    BY <1>2
  <2> QED
    BY <1>1, <1>2, <2>1, <2>2
<1>5. conn' \in [Workers \X Ids -> Nat]
  BY <1>1, <1>2
<1>6. wk' \in [Workers -> WorkerRecs]
  BY <1>1, RestingType DEF Goto
<1> QED
  BY <1>1, <1>3, <1>4, <1>5, <1>6, SameScene

LEMMA DirectWriteType ==
  ASSUME TypeOK, NEW w \in Workers, DirectWrite(w)
  PROVE  TypeOK'
<1> USE DEF TypeOK
<1> DEFINE r == wk[w]
           i == H(r.id)
           to == IF slot[i].protocol # "udp" THEN 0 ELSE IF r.cmd = "A" THEN MaxCalls + 1 ELSE slot[i].address
<1>1. /\ r.pc = "write"
      /\ lock' = [lock EXCEPT ![i] = None]
      /\ UNCHANGED <<scene, alloc, pipe, ev, ctrl, th, net, told, conn, calls, moves>>
  BY DEF DirectWrite
<1>2. r \in WorkerRecs /\ r.id \in Ids /\ r.p \in Nat /\ i \in Slots
  BY <1>1, AtWork, IdsAreNat
<1>3. to \in Nat
  <2>1. slot[i].address \in Nat
    BY <1>2 DEF Sockets
  <2>2. MaxCalls + 1 \in Nat
    BY Scene DEF MaxCalls
  <2> QED
    BY <2>1, <2>2
<1>10. PICK n \in Nat :
        \/ Free({r.p}) /\ Goto(w, Resting) /\ UNCHANGED <<slot, wire, sent>>
        \/ /\ wire' = IF n = 0 THEN wire ELSE [wire EXCEPT ![r.id] = Extend(@, <<Piece(Buffer(r.p, 0, to), n)>>)]
           /\ \/ Free({r.p}) /\ Goto(w, Resting) /\ UNCHANGED <<slot, sent>>
              \/ Goto(w, [r EXCEPT !.pc = "put"]) /\ UNCHANGED <<slot, sent, freed>>
              \/ /\ slot' = [slot EXCEPT ![i].dw = Buffer(r.p, n, 0)]
                 /\ sent' = [sent EXCEPT ![r.p].retried = TRUE]
                 /\ Goto(w, [r EXCEPT !.pc = "inc", !.cmd = "W"]) /\ UNCHANGED freed
  <2> HIDE DEF TypeOK
  <2>1. 0 \in Nat /\ \A k \in 0 .. Size(r.p) : k \in Nat
    BY Sizes
  <2>2. \/ Free({r.p}) /\ Goto(w, Resting) /\ UNCHANGED <<slot, wire, sent>>
        \/ \E n \in 0 .. Size(r.p) :
           /\ wire' = IF n = 0 THEN wire ELSE [wire EXCEPT ![r.id] = Extend(@, <<Piece(Buffer(r.p, 0, to), n)>>)]
           /\ IF n = Size(r.p) THEN Free({r.p}) /\ Goto(w, Resting) /\ UNCHANGED <<slot, sent>>
              ELSE /\ UNCHANGED freed
                   /\ IF r.cmd = "A" THEN Goto(w, [r EXCEPT !.pc = "put"]) /\ UNCHANGED <<slot, sent>>
                      ELSE /\ slot' = [slot EXCEPT ![i].dw = Buffer(r.p, n, 0)]
                           /\ sent' = [sent EXCEPT ![r.p].retried = TRUE]
                           /\ Goto(w, [r EXCEPT !.pc = "inc", !.cmd = "W"])
    BY Zenon DEF DirectWrite
  <2> HIDE DEF to, r, i
  <2> QED
    BY <2>1, <2>2, Zenon
<1> HIDE DEF to
<1> HIDE DEF r, i
<1>4. lock' \in [Slots -> Workers \cup {None}]
  BY <1>1
<1>5. wk' \in [Workers -> WorkerRecs]
  <2>1. [r EXCEPT !.pc = "put"] \in WorkerRecs /\ [r EXCEPT !.pc = "inc", !.cmd = "W"] \in WorkerRecs
    BY <1>1, <1>2, StepType
  <2> QED
    BY <1>10, <2>1, RestingType DEF Goto
<1>6. wire' \in [Ids -> Seq(Pieces)]
  <2>1. Piece(Buffer(r.p, 0, to), n) \in Pieces
    BY <1>2, <1>3 DEF Piece, Buffer, Pieces
  <2>2. <<Piece(Buffer(r.p, 0, to), n)>> \in Seq(Pieces)
    BY <2>1
  <2>3. Extend(wire[r.id], <<Piece(Buffer(r.p, 0, to), n)>>) \in Seq(Pieces)
    BY <1>2, <2>2, ExtendType
  <2> QED
    BY <1>10, <1>2, <2>3
<1>7. freed' \in Seq(Nat) /\ Len(freed') = Len(freed)
  BY <1>10, FreeType
<1>8. sent' \in Seq(SentRecs) /\ Len(sent') = Len(sent)
  <2>1. ASSUME NEW s \in SentRecs PROVE [s EXCEPT !.retried = TRUE] \in SentRecs
    BY DEF SentRecs
  <2>2. CASE sent' = [sent EXCEPT ![r.p].retried = TRUE]
    <3>1. CASE r.p \in DOMAIN sent
      <4>1. sent[r.p] \in SentRecs
        BY <3>1
      <4>2. sent' = [sent EXCEPT ![r.p] = [sent[r.p] EXCEPT !.retried = TRUE]]
        BY <2>2, <3>1
      <4> QED
        BY <2>1, <3>1, <4>1, <4>2
    <3>2. CASE r.p \notin DOMAIN sent
      <4>1. sent' = sent
        BY <2>2, <3>2
      <4> QED
        BY <4>1
    <3> QED
      BY <3>1, <3>2
  <2> QED
    BY <1>10, <2>2
<1>9. slot' \in [Slots -> Sockets]
  <2>1. Buffer(r.p, n, 0) \in Buffers
    BY <1>2 DEF Buffer, Buffers
  <2>2. slot[i] \in Sockets /\ Buffer(r.p, n, 0) \in Buffers \cup {None}
    BY <1>2, <2>1
  <2>3. [slot[i] EXCEPT !.dw = Buffer(r.p, n, 0)] \in Sockets
    BY <2>2, Fields
  <2> QED
    BY <1>10, <1>2, <2>3
<1> QED
  BY <1>1, <1>4, <1>5, <1>6, <1>7, <1>8, <1>9, SameScene

(* The socket thread: what its steps leave alone, and the request it reads.  *)
LEMMA ThreadStepType ==
  ASSUME TypeOK, UNCHANGED <<workVars, sent>>,
         slot' \in [Slots -> Sockets], alloc' \in 0 .. scene.ids, pipe' \in Seq(Requests), ev' \in Seq(EventRecs),
         ctrl' \in BOOLEAN, th' \in Positions, th'.pc \in {"force", "clear", "dec"} => th'.slot \in Slots,
         net' \in [Ids -> NetRecs], wire' \in [Ids -> Seq(Pieces)], told' \in [Ids -> ToldRecs],
         freed' \in Seq(Nat), Len(freed') = Len(freed)
  PROVE  TypeOK'
BY SameScene DEF TypeOK, workVars

LEMMA PollingType == Polling \in Positions /\ Polling.pc = "poll"
  BY DEF Polling, Positions

LEMMA ReqType ==
  ASSUME TypeOK, pipe # <<>>
  PROVE  /\ Req \in Requests /\ Tail(pipe) \in Seq(Requests)
         /\ Req.cmd \in Opening \cup Data \cup {"R", "S", "K", "X", "C", "W", "exit"}
         /\ Req.cmd # "exit" => Req.id \in Ids /\ H(Req.id) \in Slots /\ X \in Sockets
         /\ Req.cmd \in Data \cup {"W"} => Req.p \in Nat
         /\ Req.cmd = "C" => Req.n \in Nat
<1>1. Req \in Requests /\ Tail(pipe) \in Seq(Requests)
  BY DEF Req, TypeOK
<1>2. /\ Req.cmd \in Opening \cup Data \cup {"R", "S", "K", "X", "C", "W", "exit"}
      /\ Req.cmd # "exit" => Req.id \in Ids
      /\ Req.cmd \in Data \cup {"W"} => Req.p \in Nat
      /\ Req.cmd = "C" => Req.n \in Nat
  BY <1>1 DEF Requests, Opening, Data
<1>3. ASSUME Req.id \in Ids PROVE H(Req.id) \in Slots /\ X \in Sockets
  BY <1>3, IdsAreNat DEF TypeOK, X
<1> QED
  BY <1>1, <1>2, <1>3

LEMMA NewFdType ==
  ASSUME NEW x \in Sockets, NEW id \in Nat, Tag(id) \in Nat, NEW protocol \in {"tcp", "udp"}, NEW reading \in BOOLEAN
  PROVE  NewFd(x, id, protocol, reading) \in Sockets
<1>1. FALSE \in BOOLEAN /\ 0 \in Nat /\ 0 \in Int /\ None \in Buffers \cup {None} /\ protocol \in {"unknown", "tcp", "udp"}
  OBVIOUS
<1>2. PICK y : y = [x EXCEPT !.id = id, !.reading = reading, !.writing = FALSE, !.closing = FALSE]
  OBVIOUS
<1>3. y \in Sockets
  BY <1>1, <1>2, Fields, Zenon
<1>4. PICK z : z = [y EXCEPT !.tag = Tag(id), !.sending = 0, !.protocol = protocol, !.wb = 0, !.dw = None]
  OBVIOUS
<1>5. z \in Sockets
  BY <1>1, <1>3, <1>4, Fields, Zenon
<1>6. NewFd(x, id, protocol, reading) = z
  BY <1>2, <1>4 DEF NewFd
<1> QED
  BY <1>5, <1>6

LEMMA ClearClosedType ==
  ASSUME TypeOK, NEW msg, NEW i, NEW gone, ClearClosed(msg, i, gone)
  PROVE  ev' \in Seq(EventRecs)
<1> DEFINE e(k) == IF ev[k].slot = i THEN [ev[k] EXCEPT !.slot = None] ELSE ev[k]
<1>1. ev' = ev \/ ev' = [k \in DOMAIN ev |-> e(k)]
  BY DEF ClearClosed
<1>2. ASSUME NEW k \in DOMAIN ev PROVE e(k) \in EventRecs
  <2>1. ASSUME NEW r \in EventRecs PROVE [r EXCEPT !.slot = None] \in EventRecs
    BY DEF EventRecs
  <2>2. ev[k] \in EventRecs
    BY DEF TypeOK
  <2> QED
    BY <2>1, <2>2
<1> HIDE DEF e
<1>3. DOMAIN ev = 1 .. Len(ev) /\ Len(ev) \in Nat /\ ev \in Seq(EventRecs)
  BY DEF TypeOK
<1> QED
  BY <1>1, <1>2, <1>3

LEMMA SetUpType ==
  ASSUME TypeOK, NEW cmd \in Opening, NEW protocol \in {"tcp", "udp"}, NEW reading \in BOOLEAN, NEW type \in Types,
         NEW msg, SetUp(cmd, protocol, reading, type, msg)
  PROVE  TypeOK'
<1>1. /\ pipe # <<>> /\ Req.cmd = cmd /\ pipe' = Tail(pipe)
      /\ slot' = [slot EXCEPT ![H(Req.id)] = [NewFd(X, Req.id, protocol, reading) EXCEPT !.type = type, !.address = 0,
                                                                            !.writing = (type = "CONNECTING")]]
      /\ Tell(Req.id, msg)
      /\ ClearClosed(msg, H(Req.id), type = "INVALID")
      /\ UNCHANGED <<workVars, alloc, ctrl, th, net, wire, sent, freed>>
  BY DEF SetUp, Ctrl, SetSlot
<1>2. /\ Tail(pipe) \in Seq(Requests) /\ Req.id \in Ids /\ H(Req.id) \in Slots /\ X \in Sockets
      /\ Req.id \in Nat /\ Tag(Req.id) \in Nat
  BY <1>1, ReqType, IdsAreNat, Hash DEF Opening, TypeOK
<1>3. [NewFd(X, Req.id, protocol, reading) EXCEPT !.type = type, !.address = 0, !.writing = (type = "CONNECTING")] \in Sockets
  <2>1. NewFd(X, Req.id, protocol, reading) \in Sockets /\ 0 \in Nat /\ (type = "CONNECTING") \in BOOLEAN
    BY <1>2, NewFdType
  <2> QED
    BY <2>1, Fields, Zenon
<1>4. slot' \in [Slots -> Sockets]
  BY <1>1, <1>2, <1>3 DEF TypeOK
<1>5. told' \in [Ids -> ToldRecs]
  BY <1>1, TellType DEF TypeOK
<1>6. ev' \in Seq(EventRecs)
  BY <1>1, ClearClosedType
<1> QED
  BY <1>1, <1>2, <1>4, <1>5, <1>6, ThreadStepType DEF TypeOK

LEMMA NoSocketType ==
  ASSUME TypeOK, NEW cmd \in Opening, NoSocket(cmd)
  PROVE  TypeOK'
<1>1. /\ pipe # <<>> /\ Req.cmd = cmd /\ pipe' = Tail(pipe)
      /\ slot' = [slot EXCEPT ![H(Req.id)] = [X EXCEPT !.type = "INVALID"]]
      /\ \E msg : Tell(Req.id, msg) /\ ClearClosed(msg, H(Req.id), TRUE)
      /\ UNCHANGED <<workVars, alloc, ctrl, th, net, wire, sent, freed>>
  BY DEF NoSocket, Ctrl, SetSlot
<1>2. Tail(pipe) \in Seq(Requests) /\ H(Req.id) \in Slots /\ X \in Sockets /\ "INVALID" \in Types
  BY <1>1, ReqType DEF Types, Opening
<1>3. [X EXCEPT !.type = "INVALID"] \in Sockets
  BY <1>2, Fields
<1>4. slot' \in [Slots -> Sockets]
  BY <1>1, <1>2, <1>3 DEF TypeOK
<1>5. told' \in [Ids -> ToldRecs]
  BY <1>1, TellType DEF TypeOK
<1>6. ev' \in Seq(EventRecs)
  BY <1>1, ClearClosedType
<1> QED
  BY <1>1, <1>2, <1>4, <1>5, <1>6, ThreadStepType DEF TypeOK

LEMMA OpenTypes ==
  ASSUME TypeOK, OpenSocket \/ ListenSocket \/ BindSocket \/ AddUdpSocket
  PROVE  TypeOK'
<1>1. \E cmd \in Opening :
        \/ NoSocket(cmd)
        \/ \E protocol \in {"tcp", "udp"}, reading \in BOOLEAN, type \in Types, msg \in {"none", "open", "err"} :
             SetUp(cmd, protocol, reading, type, msg)
  <2>1. CASE OpenSocket
    BY <2>1 DEF OpenSocket, Opening, Types
  <2>2. CASE ListenSocket
    BY <2>2 DEF ListenSocket, Opening, Types
  <2>3. CASE BindSocket
    BY <2>3 DEF BindSocket, Opening, Types
  <2>4. CASE AddUdpSocket
    BY <2>4 DEF AddUdpSocket, Opening, Types
  <2> QED
    BY <2>1, <2>2, <2>3, <2>4
<1> QED
  BY <1>1, NoSocketType, SetUpType

LEMMA BeginForceCloseType ==
  ASSUME TypeOK, NEW i \in Slots, NEW msg \in {"none", "close", "err"}, NEW ctl \in BOOLEAN, BeginForceClose(i, msg, ctl)
  PROVE  /\ slot' \in [Slots -> Sockets] /\ th' \in Positions /\ th'.slot \in Slots
         /\ freed' \in Seq(Nat) /\ Len(freed') = Len(freed)
<1>1. /\ Free(Packets(slot[i].high) \cup Packets(slot[i].low))
      /\ slot' = [slot EXCEPT ![i] = [slot[i] EXCEPT !.high = <<>>, !.low = <<>>]]
      /\ th' = [pc |-> "force", slot |-> i, id |-> 0, msg |-> msg, ctrl |-> ctl]
  BY DEF BeginForceClose, SetSlot
<1>2. [slot[i] EXCEPT !.high = <<>>, !.low = <<>>] \in Sockets
  <2>1. <<>> \in Seq(Buffers) /\ slot[i] \in Sockets
    BY DEF TypeOK
  <2> QED
    BY <2>1, Fields, Zenon
<1>3. slot' \in [Slots -> Sockets]
  BY <1>1, <1>2 DEF TypeOK
<1>4. freed' \in Seq(Nat) /\ Len(freed') = Len(freed)
  BY <1>1, FreeType DEF TypeOK
<1>5. th' \in Positions /\ th'.slot \in Slots
  BY <1>1 DEF Positions
<1> QED
  BY <1>3, <1>4, <1>5

LEMMA ForceCloseType ==
  ASSUME TypeOK, ForceClose
  PROVE  TypeOK'
<1> DEFINE i == th.slot
<1>1. /\ th.pc = "force"
      /\ slot' = [slot EXCEPT ![i] = [slot[i] EXCEPT !.type = "INVALID", !.dw = None]]
      /\ Free(IF slot[i].dw = None THEN {} ELSE {slot[i].dw.p})
      /\ Tell(slot[i].id, th.msg)
      /\ th' = IF th.ctrl THEN [th EXCEPT !.pc = "clear", !.id = slot[i].id] ELSE Polling
      /\ UNCHANGED <<workVars, alloc, pipe, ev, ctrl, net, wire, sent>>
  BY DEF ForceClose, SetSlot
<1>2. i \in Slots /\ slot[i] \in Sockets
  BY <1>1 DEF TypeOK
<1>3. slot' \in [Slots -> Sockets]
  <2>1. None \in Buffers \cup {None} /\ "INVALID" \in Types
    BY DEF Types
  <2>2. [slot[i] EXCEPT !.type = "INVALID", !.dw = None] \in Sockets
    BY <1>2, <2>1, Fields, Zenon
  <2> QED
    BY <1>1, <1>2, <2>2 DEF TypeOK
<1>4. freed' \in Seq(Nat) /\ Len(freed') = Len(freed)
  BY <1>1, FreeType DEF TypeOK
<1>6. told' \in [Ids -> ToldRecs]
  BY <1>1, TellType DEF TypeOK
<1>7. th' \in Positions /\ (th'.pc \in {"force", "clear", "dec"} => th'.slot \in Slots)
  <2>1. CASE th.ctrl
    <3>1. th \in Positions /\ th.slot \in Slots /\ slot[i].id \in Nat
      BY <1>1, <1>2 DEF TypeOK, Sockets
    <3>2. ASSUME NEW n \in Nat, th' = [th EXCEPT !.pc = "clear", !.id = n] PROVE th' \in Positions /\ th'.slot \in Slots
      BY <3>1, <3>2 DEF Positions
    <3> QED
      BY <1>1, <2>1, <3>1, <3>2
  <2>2. CASE ~th.ctrl
    BY <1>1, <2>2, PollingType
  <2> QED
    BY <2>1, <2>2
<1> QED
  BY <1>1, <1>3, <1>4, <1>6, <1>7, ThreadStepType DEF TypeOK

LEMMA ClearEventType ==
  ASSUME TypeOK, ClearEvent
  PROVE  TypeOK'
<1>1. /\ \E gone : ClearClosed(th.msg, th.slot, gone)
      /\ th' = Polling
      /\ UNCHANGED <<workVars, slot, alloc, pipe, ctrl, net, wire, told, sent, freed>>
  BY DEF ClearEvent
<1>2. ev' \in Seq(EventRecs)
  BY <1>1, ClearClosedType
<1> QED
  BY <1>1, <1>2, PollingType, ThreadStepType DEF TypeOK

LEMMA CloseSocketType ==
  ASSUME TypeOK, CloseSocket
  PROVE  TypeOK'
<1>1. /\ pipe # <<>> /\ Req.cmd \in {"K", "X"} /\ pipe' = Tail(pipe)
      /\ UNCHANGED <<workVars, alloc, ev, ctrl, net, wire, sent>>
  BY DEF CloseSocket, Ctrl
<1>2. Tail(pipe) \in Seq(Requests) /\ H(Req.id) \in Slots /\ X \in Sockets
  BY <1>1, ReqType
<1>3. CASE UNCHANGED <<slot, th, told, freed>>
  BY <1>1, <1>2, <1>3, ThreadStepType DEF TypeOK
<1>4. CASE (\E msg \in {"none", "close"} : BeginForceClose(H(Req.id), msg, TRUE)) /\ UNCHANGED told
  <2>1. PICK msg \in {"none", "close"} : BeginForceClose(H(Req.id), msg, TRUE)
    BY <1>4
  <2>2. /\ slot' \in [Slots -> Sockets] /\ th' \in Positions /\ th'.slot \in Slots
        /\ freed' \in Seq(Nat) /\ Len(freed') = Len(freed)
    BY <1>2, <2>1, BeginForceCloseType
  <2> QED
    BY <1>1, <1>2, <1>4, <2>2, ThreadStepType DEF TypeOK
<1>5. CASE /\ \E x \in {X, CloseRead(X)} : SetSlot(H(Req.id), [x EXCEPT !.closing = TRUE])
           /\ \E msg : Tell(Req.id, msg)
           /\ UNCHANGED <<th, freed>>
  <2>1. CloseRead(X) \in Sockets
    BY <1>2, Fields, Zenon DEF CloseRead, Types
  <2>2. \A x \in {X, CloseRead(X)} : [x EXCEPT !.closing = TRUE] \in Sockets
    BY <1>2, <2>1, Fields, Zenon
  <2>3. slot' \in [Slots -> Sockets]
    BY <1>2, <1>5, <2>2 DEF SetSlot, TypeOK
  <2>4. told' \in [Ids -> ToldRecs]
    BY <1>5, TellType DEF TypeOK
  <2> QED
    BY <1>1, <1>2, <1>5, <2>3, <2>4, ThreadStepType DEF TypeOK
<1> QED
  BY <1>3, <1>4, <1>5, Zenon DEF CloseSocket

LEMMA ResumeType ==
  ASSUME TypeOK, Resume
  PROVE  TypeOK'
<1>1. /\ pipe # <<>> /\ Req.cmd = "R" /\ pipe' = Tail(pipe)
      /\ \/ UNCHANGED slot
         \/ slot' = [slot EXCEPT ![H(Req.id)] = [X EXCEPT !.reading = TRUE]]
         \/ slot' = [slot EXCEPT ![H(Req.id)] =
                       [X EXCEPT !.reading = TRUE, !.type = CASE X.type = "PACCEPT" -> "CONNECTED"
                                                              [] X.type = "PLISTEN" -> "LISTEN"
                                                              [] OTHER -> X.type]]
      /\ told' = told \/ \E msg : Tell(Req.id, msg)
      /\ \E msg, gone : ClearClosed(msg, H(Req.id), gone)
      /\ UNCHANGED <<workVars, alloc, ctrl, th, net, wire, sent, freed>>
  BY DEF Resume, Ctrl, SetSlot
<1>2. Tail(pipe) \in Seq(Requests) /\ H(Req.id) \in Slots /\ X \in Sockets
  BY <1>1, ReqType
<1>3. slot' \in [Slots -> Sockets]
  <2> DEFINE t == CASE X.type = "PACCEPT" -> "CONNECTED" [] X.type = "PLISTEN" -> "LISTEN" [] OTHER -> X.type
  <2>1. t \in Types
    <3>1. X.type \in Types
      BY <1>2 DEF Sockets
    <3> QED
      BY <3>1 DEF Types
  <2>2. [X EXCEPT !.reading = TRUE, !.type = t] \in Sockets
    <3> HIDE DEF t
    <3> QED
      BY <1>2, <2>1, Fields, Zenon
  <2>3. [X EXCEPT !.reading = TRUE] \in Sockets
    BY <1>2, Fields
  <2> QED
    BY <1>1, <1>2, <2>2, <2>3 DEF TypeOK
<1>4. told' \in [Ids -> ToldRecs]
  BY <1>1, TellType DEF TypeOK
<1>5. ev' \in Seq(EventRecs)
  BY <1>1, ClearClosedType
<1> QED
  BY <1>1, <1>2, <1>3, <1>4, <1>5, ThreadStepType DEF TypeOK

LEMMA AdjustType ==
  ASSUME TypeOK, Pause \/ TriggerWrite \/ SetUdpAddress
  PROVE  TypeOK'
<1>1. /\ pipe # <<>> /\ Req.cmd \in {"S", "W", "C"} /\ pipe' = Tail(pipe)
      /\ \/ UNCHANGED slot
         \/ slot' = [slot EXCEPT ![H(Req.id)] = [X EXCEPT !.reading = FALSE]]
         \/ slot' = [slot EXCEPT ![H(Req.id)] = [X EXCEPT !.writing = TRUE]]
         \/ slot' = [slot EXCEPT ![H(Req.id)] = X]
         \/ Req.cmd = "C" /\ slot' = [slot EXCEPT ![H(Req.id)] = [X EXCEPT !.address = Req.n, !.udpconnecting = @ - 1]]
      /\ UNCHANGED <<workVars, alloc, ev, ctrl, th, net, wire, told, sent, freed>>
  BY DEF Pause, TriggerWrite, SetUdpAddress, Adjust, Ctrl, SetSlot
<1>2. Tail(pipe) \in Seq(Requests) /\ H(Req.id) \in Slots /\ X \in Sockets /\ (Req.cmd = "C" => Req.n \in Nat)
  BY <1>1, ReqType
<1>3. slot' \in [Slots -> Sockets]
  <2>1. [X EXCEPT !.reading = FALSE] \in Sockets /\ [X EXCEPT !.writing = TRUE] \in Sockets
    BY <1>2, Fields
  <2>2. ASSUME Req.cmd = "C" PROVE [X EXCEPT !.address = Req.n, !.udpconnecting = @ - 1] \in Sockets
    <3>1. X.udpconnecting \in Int
      BY <1>2 DEF Sockets
    <3>2. X.udpconnecting - 1 \in Int
      BY <3>1
    <3> QED
      BY <1>2, <2>2, <3>2, Fields, Zenon
  <2> QED
    BY <1>1, <1>2, <2>1, <2>2 DEF TypeOK
<1> QED
  BY <1>1, <1>2, <1>3, ThreadStepType DEF TypeOK

LEMMA AppendedType ==
  ASSUME NEW x \in Sockets, NEW b \in Buffers, NEW toLow \in BOOLEAN
  PROVE  Appended(x, b, toLow) \in Sockets
<1>1. /\ (IF toLow THEN x.high ELSE Append(x.high, b)) \in Seq(Buffers)
      /\ (IF toLow THEN Append(x.low, b) ELSE x.low) \in Seq(Buffers)
      /\ x.writing \in BOOLEAN /\ x.wb \in Int
  BY DEF Sockets
<1>2. x.wb + Left(b) \in Int
  <2>1. Size(b.p) \in Int
    BY Sizes
  <2>2. b.off \in Nat
    BY DEF Buffers
  <2> QED
    BY <1>1, <2>1, <2>2 DEF Left
<1>3. (x.writing \/ BufferEmpty(x)) \in BOOLEAN
  OBVIOUS
<1> QED
  BY <1>1, <1>2, <1>3, Fields, Zenon DEF Appended

LEMMA SendSocketType ==
  ASSUME TypeOK, SendSocket
  PROVE  TypeOK'
<1> DEFINE to == IF ~sent[Req.p].udp THEN 0 ELSE IF Req.cmd = "A" THEN MaxCalls + 1 ELSE X.address
           b == Buffer(Req.p, 0, to)
<1>1. /\ pipe # <<>> /\ Req.cmd \in Data /\ pipe' = Tail(pipe)
      /\ \/ Free({Req.p}) /\ UNCHANGED <<slot, wire>>
         \/ /\ \E toLow \in BOOLEAN : SetSlot(H(Req.id), Appended(X, b, toLow))
            /\ UNCHANGED <<freed, wire>>
         \/ Free({Req.p}) /\ wire' = [wire EXCEPT ![Req.id] = Extend(@, <<Piece(b, 1)>>)] /\ UNCHANGED slot
      /\ th' = IF Req.cmd = "A" THEN th ELSE [th EXCEPT !.pc = "dec", !.slot = H(Req.id), !.id = Req.id]
      /\ UNCHANGED <<workVars, alloc, ev, ctrl, net, told, sent>>
  BY Zenon DEF SendSocket, Ctrl, Data
<1>2. /\ Tail(pipe) \in Seq(Requests) /\ Req.id \in Ids /\ H(Req.id) \in Slots /\ X \in Sockets
      /\ Req.p \in Nat
  BY <1>1, ReqType DEF Data
<1>3. b \in Buffers
  <2>1. X.address \in Nat
    BY <1>2 DEF Sockets
  <2>2. MaxCalls + 1 \in Nat
    BY Scene DEF MaxCalls, TypeOK
  <2>3. to \in Nat
    BY <2>1, <2>2
  <2> HIDE DEF to
  <2> QED
    BY <1>2, <2>3 DEF Buffer, Buffers
<1> HIDE DEF to, b
<1>4. slot' \in [Slots -> Sockets]
  <2>1. \A toLow \in BOOLEAN : Appended(X, b, toLow) \in Sockets
    BY <1>2, <1>3, AppendedType
  <2>2. slot' = slot \/ \E y \in Sockets : slot' = [slot EXCEPT ![H(Req.id)] = y]
    BY <1>1, <2>1 DEF SetSlot
  <2> QED
    BY <1>2, <2>2 DEF TypeOK
<1>5. freed' \in Seq(Nat) /\ Len(freed') = Len(freed)
  BY <1>1, FreeType DEF TypeOK
<1>6. wire' \in [Ids -> Seq(Pieces)]
  <2>1. Piece(b, 1) \in Pieces
    BY <1>3 DEF Piece, Buffers, Pieces
  <2>2. <<Piece(b, 1)>> \in Seq(Pieces)
    BY <2>1
  <2>3. wire[Req.id] \in Seq(Pieces)
    BY <1>2 DEF TypeOK
  <2>4. Extend(wire[Req.id], <<Piece(b, 1)>>) \in Seq(Pieces)
    BY <2>2, <2>3, ExtendType
  <2> QED
    BY <1>1, <1>2, <2>4 DEF TypeOK
<1>7. th' \in Positions /\ (th'.pc \in {"force", "clear", "dec"} => th'.slot \in Slots)
  <2>1. ASSUME NEW t \in Positions, NEW s \in Slots, NEW id \in Nat
        PROVE  [t EXCEPT !.pc = "dec", !.slot = s, !.id = id] \in Positions
    BY DEF Positions
  <2>2. Req.id \in Nat
    BY <1>2, IdsAreNat DEF TypeOK
  <2>3. th \in Positions /\ (th.pc \in {"force", "clear", "dec"} => th.slot \in Slots)
    BY DEF TypeOK
  <2>4. CASE Req.cmd = "A"
    BY <1>1, <2>3, <2>4
  <2>5. CASE Req.cmd # "A"
    <3>1. th' = [th EXCEPT !.pc = "dec", !.slot = H(Req.id), !.id = Req.id]
      BY <1>1, <2>5
    <3>2. th' \in Positions
      BY <1>2, <2>1, <2>2, <2>3, <3>1
    <3>3. th'.slot = H(Req.id)
      BY <2>3, <3>1 DEF Positions
    <3> QED
      BY <1>2, <3>2, <3>3
  <2> QED
    BY <2>4, <2>5
<1> QED
  BY <1>1, <1>2, <1>4, <1>5, <1>6, <1>7, ThreadStepType DEF TypeOK

LEMMA DecSendingType ==
  ASSUME TypeOK, DecSending
  PROVE  TypeOK'
<1> DEFINE i == th.slot
<1>1. /\ th.pc = "dec"
      /\ \/ slot' = slot
         \/ slot[i].sending # 0 /\ slot' = [slot EXCEPT ![i].sending = @ - 1]
      /\ th' = Polling
      /\ UNCHANGED <<workVars, alloc, pipe, ev, ctrl, net, wire, told, sent, freed>>
  BY DEF DecSending
<1>2. i \in Slots /\ slot[i] \in Sockets
  BY <1>1 DEF TypeOK
<1>3. slot' \in [Slots -> Sockets]
  <2>1. CASE slot' = slot
    BY <2>1 DEF TypeOK
  <2>2. CASE slot[i].sending # 0 /\ slot' = [slot EXCEPT ![i].sending = @ - 1]
    <3>1. slot[i].sending - 1 \in Nat
      BY <1>2, <2>2 DEF Sockets
    <3>2. [slot[i] EXCEPT !.sending = slot[i].sending - 1] \in Sockets
      BY <1>2, <3>1, Fields
    <3>3. slot' = [slot EXCEPT ![i] = [slot[i] EXCEPT !.sending = slot[i].sending - 1]]
      BY <2>2
    <3> QED
      BY <1>2, <3>2, <3>3 DEF TypeOK
  <2> QED
    BY <1>1, <2>1, <2>2
<1>4. th' \in Positions /\ th'.pc = "poll"
  BY <1>1, PollingType
<1> QED
  BY <1>1, <1>3, <1>4, ThreadStepType DEF TypeOK

LEMMA ExitCmdType ==
  ASSUME TypeOK, ExitCmd
  PROVE  TypeOK'
<1>1. /\ pipe # <<>> /\ pipe' = Tail(pipe) /\ th' = [Polling EXCEPT !.pc = "exit"]
      /\ UNCHANGED <<workVars, slot, alloc, ev, ctrl, net, wire, told, sent, freed>>
  BY DEF ExitCmd, Ctrl
<1>2. th' \in Positions /\ th'.pc = "exit"
  BY <1>1 DEF Polling, Positions
<1> QED
  BY <1>1, <1>2, ReqType, ThreadStepType DEF TypeOK

(* The event that is dispatched.                                           *)
LEMMA EventType ==
  ASSUME TypeOK, NEW types, Event(types)
  PROVE  /\ E0 \in EventRecs /\ E0.slot \in Slots /\ Y \in Sockets /\ Y.type \in types
         /\ Tail(ev) \in Seq(EventRecs) /\ ctrl' \in BOOLEAN
         /\ UNCHANGED <<workVars, pipe, sent>>
<1>1. E0 \in EventRecs /\ Tail(ev) \in Seq(EventRecs)
  BY DEF Event, E0, TypeOK
<1>2. E0.slot \in Slots
  BY <1>1 DEF Event, EventRecs
<1>3. ctrl' \in BOOLEAN /\ UNCHANGED <<workVars, pipe, sent>> /\ Y.type \in types
  BY DEF Event
<1> QED
  BY <1>1, <1>2, <1>3 DEF Y, TypeOK

LEMMA AfterReadType ==
  ASSUME TypeOK, NEW types, Event(types), NEW go, AfterRead(go)
  PROVE  ev' \in Seq(EventRecs)
<1>1. E0 \in EventRecs /\ Tail(ev) \in Seq(EventRecs)
  BY EventType
<1>2. [E0 EXCEPT !.read = FALSE] \in EventRecs
  BY <1>1 DEF EventRecs
<1>3. <<[E0 EXCEPT !.read = FALSE]>> \o Tail(ev) \in Seq(EventRecs)
  BY <1>1, <1>2
<1> QED
  BY <1>1, <1>3 DEF AfterRead

LEMMA LessInput ==
  ASSUME TypeOK, NEW id, net' = net \/ (net[id].inb > 0 /\ net' = [net EXCEPT ![id].inb = @ - 1])
  PROVE  net' \in [Ids -> NetRecs]
<1>1. CASE id \in Ids /\ net[id].inb > 0 /\ net' = [net EXCEPT ![id].inb = @ - 1]
  <2>1. net[id] \in NetRecs /\ net[id].inb \in Nat
    BY <1>1 DEF TypeOK, NetRecs
  <2>2. net[id].inb - 1 \in Nat
    BY <1>1, <2>1
  <2>3. \A k \in Nat : [net[id] EXCEPT !.inb = k] \in NetRecs
    BY <2>1 DEF NetRecs
  <2>4. net' = [net EXCEPT ![id] = [net[id] EXCEPT !.inb = net[id].inb - 1]]
    BY <1>1
  <2> QED
    BY <2>2, <2>3, <2>4 DEF TypeOK
<1>2. CASE net' = net
  BY <1>2 DEF TypeOK
<1>3. CASE id \notin Ids
  <2>1. net' = net
    BY <1>3 DEF TypeOK
  <2> QED
    BY <2>1 DEF TypeOK
<1> QED
  BY <1>1, <1>2, <1>3

LEMMA NoCommandType ==
  ASSUME TypeOK, NoCommand
  PROVE  TypeOK'
<1>1. ctrl' = FALSE /\ UNCHANGED <<workVars, slot, alloc, pipe, ev, th, net, wire, told, sent, freed>>
  BY DEF NoCommand
<1> QED
  BY <1>1, ThreadStepType DEF TypeOK

LEMMA SpWaitType ==
  ASSUME TypeOK, SpWait
  PROVE  TypeOK'
<1>1. /\ th.pc = "poll" /\ ctrl' = TRUE
      /\ UNCHANGED <<workVars, slot, alloc, pipe, net, wire, told, sent, freed>>
      /\ th' = th \/ th' = [th EXCEPT !.pc = "fresh"]
  BY DEF SpWait
<1>2. \A i \in Slots : Events(i) \subseteq EventRecs
  <2> TAKE i \in Slots
  <2> DEFINE n == net[slot[i].id]
             Made(write) == [slot |-> i, read |-> slot[i].reading /\ (n.inb > 0 \/ n.fin \/ n.rst # "no"),
                             write |-> write, error |-> n.rst = "err", eof |-> n.rst # "no" \/ (n.fin /\ n.shut)]
  <2>1. slot[i].reading \in BOOLEAN /\ slot[i].writing \in BOOLEAN
    BY DEF TypeOK, Sockets
  <2>2. \A write \in BOOLEAN : Made(write) \in EventRecs
    BY <2>1 DEF EventRecs
  <2>3. \A e \in Events(i) : e \in {Made(FALSE), Made(slot[i].writing /\ (slot[i].type = "CONNECTING" => n.est # "wait"))}
    BY Zenon DEF Events
  <2>4. (slot[i].writing /\ (slot[i].type = "CONNECTING" => n.est # "wait")) \in BOOLEAN
    BY <2>1
  <2> HIDE DEF Made, n
  <2> QED
    BY <2>2, <2>3, <2>4
<1>3. ev' \in Seq(EventRecs)
  <2> DEFINE one == UNION {Events(i) : i \in Slots}
  <2>1. one \subseteq EventRecs
    BY <1>2
  <2>2. \/ ev' = <<>>
        \/ \E e \in one : ev' = <<e>>
        \/ \E e, f \in one : ev' = <<e, f>>
    BY Zenon DEF SpWait
  <2> HIDE DEF one
  <2>3. CASE ev' = <<>>
    BY <2>3
  <2>4. CASE \E e \in one : ev' = <<e>>
    BY <2>1, <2>4
  <2>5. CASE \E e, f \in one : ev' = <<e, f>>
    BY <2>1, <2>5
  <2> QED
    BY <2>2, <2>3, <2>4, <2>5
<1>4. th' \in Positions /\ th'.pc \notin {"force", "clear", "dec"}
  <2>1. ASSUME NEW t \in Positions PROVE [t EXCEPT !.pc = "fresh"] \in Positions /\ [t EXCEPT !.pc = "fresh"].pc = "fresh"
    BY DEF Positions
  <2>2. th \in Positions
    BY DEF TypeOK
  <2> QED
    BY <1>1, <2>1, <2>2
<1> QED
  BY <1>1, <1>3, <1>4, ThreadStepType DEF TypeOK

LEMMA ReportConnectType ==
  ASSUME TypeOK, ReportConnect
  PROVE  TypeOK'
<1>1. /\ Event({"CONNECTING"}) /\ ev' = Tail(ev) /\ UNCHANGED <<alloc, net, wire>>
  BY DEF ReportConnect
<1>2. E0.slot \in Slots /\ Y \in Sockets /\ ev' \in Seq(EventRecs) /\ ctrl' \in BOOLEAN /\ UNCHANGED <<workVars, pipe, sent>>
  BY <1>1, EventType
<1>3. CASE BeginForceClose(E0.slot, "err", FALSE) /\ UNCHANGED told
  <2>1. /\ slot' \in [Slots -> Sockets] /\ th' \in Positions /\ th'.slot \in Slots
        /\ freed' \in Seq(Nat) /\ Len(freed') = Len(freed)
    BY <1>2, <1>3, BeginForceCloseType
  <2> QED
    BY <1>1, <1>2, <1>3, <2>1, ThreadStepType DEF TypeOK
<1>4. CASE /\ SetSlot(E0.slot, [Y EXCEPT !.type = "CONNECTED", !.writing = @ /\ ~NoMoreSendingData(Y)])
           /\ Tell(Y.id, "open") /\ th' = Polling /\ UNCHANGED freed
  <2>1. "CONNECTED" \in Types /\ (Y.writing /\ ~NoMoreSendingData(Y)) \in BOOLEAN
    BY <1>2 DEF Types, Sockets
  <2>2. [Y EXCEPT !.type = "CONNECTED", !.writing = @ /\ ~NoMoreSendingData(Y)] \in Sockets
    BY <1>2, <2>1, Fields, Zenon
  <2>3. slot' \in [Slots -> Sockets]
    BY <1>2, <1>4, <2>2 DEF SetSlot, TypeOK
  <2>4. told' \in [Ids -> ToldRecs]
    BY <1>4, TellType DEF TypeOK
  <2> QED
    BY <1>1, <1>2, <1>4, <2>3, <2>4, PollingType, ThreadStepType DEF TypeOK
<1> QED
  BY <1>3, <1>4 DEF ReportConnect

LEMMA SkippedType ==
  ASSUME TypeOK, InvalidSocket \/ VoidEvent
  PROVE  TypeOK'
<1>1. ev # <<>> /\ ev' = Tail(ev) /\ UNCHANGED <<workVars, slot, alloc, pipe, net, wire, told, sent, freed>>
  BY DEF InvalidSocket, VoidEvent, Event
<1>2. ctrl' \in BOOLEAN
  BY DEF InvalidSocket, VoidEvent, Event, TypeOK
<1>3. th' = th \/ th' = Polling
  BY DEF InvalidSocket, VoidEvent
<1>4. Tail(ev) \in Seq(EventRecs)
  BY <1>1 DEF TypeOK
<1> QED
  BY <1>1, <1>2, <1>3, <1>4, PollingType, ThreadStepType DEF TypeOK

LEMMA ReadUdpType ==
  ASSUME TypeOK, ReadUdp
  PROVE  TypeOK'
<1>1. Event(Plain) /\ UNCHANGED <<alloc, wire, told>>
  BY DEF ReadUdp
<1>2. E0.slot \in Slots /\ Y \in Sockets /\ ctrl' \in BOOLEAN /\ UNCHANGED <<workVars, pipe, sent>>
  BY <1>1, EventType
<1>3. ev' \in Seq(EventRecs)
  <2>1. ev' = ev \/ \E go : AfterRead(go)
    BY DEF ReadUdp
  <2> QED
    BY <1>1, <2>1, AfterReadType DEF TypeOK
<1>4. net' \in [Ids -> NetRecs]
  <2>1. net' = net \/ (net[Y.id].inb > 0 /\ net' = [net EXCEPT ![Y.id].inb = @ - 1])
    BY DEF ReadUdp
  <2> QED
    BY <2>1, LessInput
<1>5. CASE UNCHANGED <<slot, freed>> /\ th' = Polling
  BY <1>1, <1>2, <1>3, <1>4, <1>5, PollingType, ThreadStepType DEF TypeOK
<1>6. CASE BeginForceClose(E0.slot, "err", FALSE)
  <2>1. /\ slot' \in [Slots -> Sockets] /\ th' \in Positions /\ th'.slot \in Slots
        /\ freed' \in Seq(Nat) /\ Len(freed') = Len(freed)
    BY <1>2, <1>6, BeginForceCloseType
  <2> QED
    BY <1>1, <1>2, <1>3, <1>4, <2>1, ThreadStepType DEF TypeOK
<1> QED
  BY <1>5, <1>6 DEF ReadUdp

(* What sending leaves alone in a socket.                                  *)
Kept(x, y) ==
  /\ y.id = x.id /\ y.protocol = x.protocol /\ y.reading = x.reading /\ y.closing = x.closing /\ y.tag = x.tag
  /\ y.sending = x.sending /\ y.udpconnecting = x.udpconnecting /\ y.address = x.address

LEMMA WithDirectType ==
  ASSUME NEW x \in Sockets, NEW a \in Nat
  PROVE  /\ WithDirect(x, a) \in Sockets /\ Kept(x, WithDirect(x, a))
         /\ WithDirect(x, a).type = x.type /\ WithDirect(x, a).writing = x.writing /\ WithDirect(x, a).dw = None
         /\ WithDirect(x, a).low = x.low
         /\ WithDirect(x, a).high = IF x.dw = None THEN x.high ELSE <<[x.dw EXCEPT !.to = a]>> \o x.high
         /\ WithDirect(x, a).wb = IF x.dw = None THEN x.wb ELSE x.wb + Left(x.dw)
<1>1. CASE x.dw = None
  BY <1>1 DEF WithDirect, Kept
<1>2. CASE x.dw # None
  <2> DEFINE b == [x.dw EXCEPT !.to = a]
             high == <<b>> \o x.high
             wb == x.wb + Left(x.dw)
  <2>1. x.dw \in Buffers /\ x.high \in Seq(Buffers) /\ x.wb \in Int
    BY <1>2 DEF Sockets
  <2>2. b \in Buffers
    BY <2>1 DEF Buffers
  <2> HIDE DEF b
  <2>3. high \in Seq(Buffers)
    BY <2>1, <2>2
  <2>4. wb \in Int
    <3>1. Size(x.dw.p) \in Int
      BY Sizes
    <3>2. x.dw.off \in Nat
      BY <2>1 DEF Buffers
    <3> QED
      BY <2>1, <3>1, <3>2 DEF Left
  <2>5. WithDirect(x, a) = [x EXCEPT !.high = high, !.dw = None, !.wb = wb]
    BY <1>2, SMT DEF WithDirect, b
  <2> HIDE DEF high, wb
  <2>6. WithDirect(x, a) \in Sockets
    <3>1. None \in Buffers \cup {None}
      OBVIOUS
    <3>2. [x EXCEPT !.high = high, !.dw = None, !.wb = wb] \in Sockets
      BY <2>3, <2>4, <3>1, Fields, Zenon
    <3> QED
      BY <2>5, <3>2
  <2>7. /\ Kept(x, WithDirect(x, a)) /\ WithDirect(x, a).type = x.type /\ WithDirect(x, a).writing = x.writing
        /\ WithDirect(x, a).dw = None /\ WithDirect(x, a).low = x.low
        /\ WithDirect(x, a).high = high /\ WithDirect(x, a).wb = wb
    BY <2>5 DEF Kept, Sockets
  <2> QED
    BY <1>2, <2>6, <2>7 DEF high, wb, b
<1> QED
  BY <1>1, <1>2

(* y is x after a write with outcomes h and l.                             *)
Sends(x, h, l, y) ==
  LET high == Rest(x.high, h)
      low == Rest(x.low, l)
      raise == high = <<>> /\ Uncomplete(low)
  IN  /\ Kept(x, y) /\ y.type = x.type /\ y.writing = x.writing /\ y.dw = x.dw
      /\ high \in Seq(Buffers) /\ low \in Seq(Buffers)
      /\ y.high = IF raise THEN <<Head(low)>> ELSE high
      /\ y.low = IF raise THEN Tail(low) ELSE low
      /\ y.wb = x.wb - ((Load(x.high) + Load(x.low)) - (Load(high) + Load(low)))

LEMMA SentByType ==
  ASSUME NEW x \in Sockets, NEW h, NEW l, Fits(h, x.high), Fits(l, x.low)
  PROVE  /\ SentBy(x, h, l).x \in Sockets /\ Sends(x, h, l, SentBy(x, h, l).x)
         /\ SentBy(x, h, l).out \in Seq(Pieces)
<1> DEFINE high == Rest(x.high, h)
           low == Rest(x.low, l)
           raise == high = <<>> /\ Uncomplete(low)
           wb == x.wb - ((Load(x.high) + Load(x.low)) - (Load(high) + Load(low)))
           y == [x EXCEPT !.high = high, !.low = low, !.wb = wb]
<1>1. x.high \in Seq(Buffers) /\ x.low \in Seq(Buffers) /\ x.wb \in Int
  BY DEF Sockets
<1>3. high \in Seq(Buffers) /\ low \in Seq(Buffers)
  BY <1>1, RestType
<1>4. SentBy(x, h, l).out \in Seq(Pieces)
  <2>1. Written(x.high, h) \in Seq(Pieces) /\ Written(x.low, l) \in Seq(Pieces)
    BY <1>1, WrittenType
  <2>2. SentBy(x, h, l).out = Written(x.high, h) \o Written(x.low, l)
    BY DEF SentBy
  <2> QED
    BY <2>1, <2>2
<1>5. wb \in Int
  BY <1>1, <1>3, LoadIsNat
<1>6. SentBy(x, h, l).x = IF raise THEN RaiseUncomplete(y) ELSE y
  BY DEF SentBy
<1> HIDE DEF high, low, wb
<1>7. y \in Sockets
  BY <1>3, <1>5, Fields, Zenon
<1>8. Kept(x, y) /\ y.type = x.type /\ y.writing = x.writing /\ y.dw = x.dw /\ y.high = high /\ y.low = low /\ y.wb = wb
  BY DEF Kept, Sockets
<1>9. CASE ~raise
  BY <1>3, <1>4, <1>6, <1>7, <1>8, <1>9 DEF high, low, wb, Sends
<1>10. CASE raise
  <2> HIDE DEF y
  <2>1. low # <<>>
    BY <1>10 DEF Uncomplete
  <2>2. <<Head(low)>> \in Seq(Buffers) /\ Tail(low) \in Seq(Buffers)
    BY <1>3, <2>1
  <2>3. RaiseUncomplete(y) = [y EXCEPT !.high = <<Head(low)>>, !.low = Tail(low)]
    BY <1>8 DEF RaiseUncomplete
  <2>4. RaiseUncomplete(y) \in Sockets
    <3>1. [y EXCEPT !.high = <<Head(low)>>, !.low = Tail(low)] \in Sockets
      BY <1>7, <2>2, Fields, Zenon
    <3> QED
      BY <2>3, <3>1
  <2> DEFINE z == RaiseUncomplete(y)
  <2>5. /\ z.id = y.id /\ z.protocol = y.protocol /\ z.reading = y.reading /\ z.closing = y.closing /\ z.tag = y.tag
        /\ z.sending = y.sending /\ z.udpconnecting = y.udpconnecting /\ z.address = y.address
        /\ z.type = y.type /\ z.writing = y.writing /\ z.dw = y.dw /\ z.wb = y.wb
        /\ z.high = <<Head(low)>> /\ z.low = Tail(low)
    BY <1>7, <2>3 DEF Sockets
  <2>6. Kept(x, z)
    BY <1>8, <2>5 DEF Kept
  <2> QED
    BY <1>3, <1>4, <1>6, <1>8, <1>10, <2>4, <2>5, <2>6 DEF high, low, wb, Sends
<1> QED
  BY <1>9, <1>10

(* The ways of send_buffer.                                                *)
LEMMA SendBufferCases ==
  ASSUME TypeOK, SendBuffer
  PROVE  /\ Event(Plain) /\ ~E0.read /\ E0.write /\ ev' = Tail(ev) /\ th' = Polling /\ UNCHANGED alloc
         /\ \/ lock[E0.slot] # None /\ UNCHANGED <<slot, net, wire, told, freed, failed>>
            \/ /\ lock[E0.slot] = None
               /\ \E a \in Nat :
                    LET x == WithDirect(Y, a) IN
                    \/ net[x.id].rst # "no" /\ Y.protocol # "udp" /\ ~BufferEmpty(x) /\ WriteError(x)
                    \/ \E reset \in BOOLEAN :
                       \E h \in Outcomes(x.high, Y.protocol = "udp", reset) :
                         \/ h.m + h.drop < Len(x.high) /\ WriteSome(x, h, Nothing)
                         \/ /\ h.m + h.drop >= Len(x.high)
                            /\ \E l \in Outcomes(x.low, Y.protocol = "udp", reset) : WriteSome(x, h, l)
<1>1. Event(Plain) /\ ~E0.read /\ E0.write /\ ev' = Tail(ev) /\ th' = Polling /\ UNCHANGED alloc
  BY DEF SendBuffer
<1>2. CASE lock[E0.slot] # None
  BY <1>1, <1>2 DEF SendBuffer
<1>3. CASE lock[E0.slot] = None
  <2>1. PICK a \in IF Y.protocol = "udp" /\ Y.dw # None THEN 0 .. MaxCalls + 1 ELSE {0} :
               LET x == WithDirect(Y, a)
                   udp == Y.protocol = "udp"
                   reset == net[x.id].rst # "no"
               IN  \/ reset /\ ~udp /\ ~BufferEmpty(x) /\ WriteError(x)
                   \/ /\ udp \/ ~reset \/ BufferEmpty(x)
                      /\ \E h \in Outcomes(x.high, udp, reset) :
                           IF h.m + h.drop < Len(x.high) THEN WriteSome(x, h, Nothing)
                           ELSE \E l \in Outcomes(x.low, udp, reset) : WriteSome(x, h, l)
    BY <1>3, Zenon DEF SendBuffer
  <2>2. a \in Nat
    BY Scene DEF MaxCalls
  <2> DEFINE x == WithDirect(Y, a)
             reset == net[x.id].rst # "no"
  <2>3. CASE reset /\ Y.protocol # "udp" /\ ~BufferEmpty(x) /\ WriteError(x)
    BY <1>1, <1>3, <2>2, <2>3
  <2>4. CASE \E h \in Outcomes(x.high, Y.protocol = "udp", reset) :
                IF h.m + h.drop < Len(x.high) THEN WriteSome(x, h, Nothing)
                ELSE \E l \in Outcomes(x.low, Y.protocol = "udp", reset) : WriteSome(x, h, l)
    <3>1. PICK h \in Outcomes(x.high, Y.protocol = "udp", reset) :
                IF h.m + h.drop < Len(x.high) THEN WriteSome(x, h, Nothing)
                ELSE \E l \in Outcomes(x.low, Y.protocol = "udp", reset) : WriteSome(x, h, l)
      BY <2>4
    <3>2. Y \in Sockets
      BY <1>1, EventType
    <3>3. x.high \in Seq(Buffers)
      <4>1. x \in Sockets
        BY <2>2, <3>2, WithDirectType
      <4> HIDE DEF x
      <4> QED
        BY <4>1 DEF Sockets
    <3>4. h.m \in Nat /\ h.drop \in Nat /\ Len(x.high) \in Nat
      <4>1. h.m \in Nat /\ h.drop \in {0, 1}
        BY <3>1, <3>3, OutcomeFits DEF Fits
      <4> QED
        BY <3>3, <4>1
    <3>5. h.m + h.drop < Len(x.high) \/ h.m + h.drop >= Len(x.high)
      BY <3>4
    <3> HIDE DEF x
    <3>6. /\ reset \in BOOLEAN
          /\ \/ h.m + h.drop < Len(x.high) /\ WriteSome(x, h, Nothing)
             \/ /\ h.m + h.drop >= Len(x.high)
                /\ \E l \in Outcomes(x.low, Y.protocol = "udp", reset) : WriteSome(x, h, l)
      BY <3>1, <3>4, <3>5
    <3> HIDE DEF reset
    <3>7. \E r \in BOOLEAN :
                       \E k \in Outcomes(x.high, Y.protocol = "udp", r) :
                         \/ k.m + k.drop < Len(x.high) /\ WriteSome(x, k, Nothing)
                         \/ /\ k.m + k.drop >= Len(x.high)
                            /\ \E l \in Outcomes(x.low, Y.protocol = "udp", r) : WriteSome(x, k, l)
      BY <3>1, <3>6, Zenon
    <3> QED
      BY <1>1, <1>3, <2>2, <3>7, Zenon DEF x
  <2> QED
    BY <2>1, <2>3, <2>4, Zenon
<1> QED
  BY <1>2, <1>3

(* What an error of write leaves in the slot: y, where x was.              *)
AfterError(x, y) ==
  /\ slot' = [slot EXCEPT ![E0.slot] = y]
  /\ Kept(x, y) /\ y.dw = x.dw /\ y.wb = x.wb
  /\ \/ /\ x.closing \/ x.type = "HALFCLOSE_READ"
        /\ y.type = "INVALID" /\ y.high = <<>> /\ y.low = <<>> /\ y.writing = x.writing
        /\ Free(Packets(x.high) \cup Packets(x.low))
     \/ y = x /\ x.type = "HALFCLOSE_WRITE" /\ ~x.closing /\ Free({})
     \/ /\ y.type = "HALFCLOSE_WRITE" /\ y.high = x.high /\ y.low = x.low /\ ~y.writing /\ Free({})
        /\ ~x.closing /\ x.type # "HALFCLOSE_READ"
  /\ UNCHANGED <<wire, told, failed>>

LEMMA WriteErrorType ==
  ASSUME NEW x \in Sockets, WriteError(x)
  PROVE  \E y \in Sockets : AfterError(x, y)
<1> DEFINE close == x.closing \/ x.type = "HALFCLOSE_READ"
           already == x.type = "HALFCLOSE_WRITE"
<1>1. /\ SetSlot(E0.slot, IF close THEN [x EXCEPT !.high = <<>>, !.low = <<>>, !.type = "INVALID"]
                          ELSE IF already THEN x
                          ELSE [x EXCEPT !.type = "HALFCLOSE_WRITE", !.writing = FALSE])
      /\ Free(IF close THEN Packets(x.high) \cup Packets(x.low) ELSE {})
      /\ UNCHANGED <<wire, told, failed>>
  BY DEF WriteError
<1>2. <<>> \in Seq(Buffers) /\ "INVALID" \in Types /\ "HALFCLOSE_WRITE" \in Types /\ FALSE \in BOOLEAN
  BY DEF Types
<1>3. CASE close
  <2>1. PICK y : y = [x EXCEPT !.high = <<>>, !.low = <<>>, !.type = "INVALID"]
    OBVIOUS
  <2>2. y \in Sockets
    BY <1>2, <2>1, Fields, Zenon
  <2>3. Kept(x, y) /\ y.dw = x.dw /\ y.wb = x.wb /\ y.type = "INVALID" /\ y.high = <<>> /\ y.low = <<>> /\ y.writing = x.writing
    BY <2>1 DEF Kept, Sockets
  <2> QED
    BY <1>1, <1>3, <2>1, <2>2, <2>3 DEF SetSlot, AfterError
<1>4. CASE ~close /\ already
  BY <1>1, <1>4 DEF Kept, SetSlot, AfterError
<1>5. CASE ~close /\ ~already
  <2>1. PICK y : y = [x EXCEPT !.type = "HALFCLOSE_WRITE", !.writing = FALSE]
    OBVIOUS
  <2>2. y \in Sockets
    BY <1>2, <2>1, Fields, Zenon
  <2>3. Kept(x, y) /\ y.dw = x.dw /\ y.wb = x.wb /\ y.type = "HALFCLOSE_WRITE" /\ y.high = x.high /\ y.low = x.low /\ ~y.writing
    BY <2>1 DEF Kept, Sockets
  <2> QED
    BY <1>1, <1>5, <2>1, <2>2, <2>3 DEF SetSlot, AfterError
<1> QED
  BY <1>3, <1>4, <1>5

(* What a write leaves in the slot: y, where x was; r is x without what was *)
(* written.                                                                *)
AfterWrite(x, h, l, r, y) ==
  /\ slot' = [slot EXCEPT ![E0.slot] = y]
  /\ Kept(x, y) /\ y.dw = x.dw /\ y.high = r.high /\ y.low = r.low /\ y.wb = r.wb
  /\ \/ ~BufferEmpty(r) /\ y.type = x.type /\ y.writing = x.writing
     \/ BufferEmpty(r) /\ x.closing /\ y.type = "INVALID" /\ y.writing = x.writing
     \/ BufferEmpty(r) /\ ~x.closing /\ y.type = x.type /\ ~y.writing
  /\ r = SentBy(x, h, l).x /\ r \in Sockets /\ Sends(x, h, l, r)
  /\ Free((Packets(x.high) \cup Packets(x.low)) \ (Packets(r.high) \cup Packets(r.low)))
  /\ wire' = [wire EXCEPT ![x.id] = Extend(@, SentBy(x, h, l).out)] /\ SentBy(x, h, l).out \in Seq(Pieces)
  /\ UNCHANGED <<net, told>>

LEMMA WriteSomeType ==
  ASSUME TypeOK, NEW x \in Sockets, NEW h, NEW l, Fits(h, x.high), Fits(l, x.low), WriteSome(x, h, l)
  PROVE  /\ \E r, y \in Sockets : AfterWrite(x, h, l, r, y)
         /\ wire' \in [Ids -> Seq(Pieces)]
         /\ freed' \in Seq(Nat) /\ Len(freed') = Len(freed)
<1> DEFINE r == SentBy(x, h, l).x
           out == SentBy(x, h, l).out
<1>1. /\ wire' = [wire EXCEPT ![x.id] = Extend(@, out)]
      /\ Free((Packets(x.high) \cup Packets(x.low)) \ (Packets(r.high) \cup Packets(r.low)))
      /\ SetSlot(E0.slot, IF ~BufferEmpty(r) THEN r
                          ELSE IF r.closing THEN [r EXCEPT !.type = "INVALID"]
                          ELSE [r EXCEPT !.writing = FALSE])
      /\ UNCHANGED <<net, told>>
  BY DEF WriteSome
<1>2. r \in Sockets /\ Sends(x, h, l, r) /\ out \in Seq(Pieces)
  BY SentByType
<1> HIDE DEF r, out
<1>7. Kept(x, r) /\ r.type = x.type /\ r.writing = x.writing /\ r.dw = x.dw
  BY <1>2 DEF Sends
<1>3. wire' \in [Ids -> Seq(Pieces)]
  <2>1. \A id \in Ids : wire[id] \in Seq(Pieces)
    BY DEF TypeOK
  <2>2. \A id \in Ids : Extend(wire[id], out) \in Seq(Pieces)
    BY <1>2, <2>1, ExtendType
  <2> QED
    BY <1>1, <2>2 DEF TypeOK
<1>4. freed' \in Seq(Nat) /\ Len(freed') = Len(freed)
  BY <1>1, FreeType DEF TypeOK
<1>5. "INVALID" \in Types /\ FALSE \in BOOLEAN
  BY DEF Types
<1>6. \E y \in Sockets :
        /\ slot' = [slot EXCEPT ![E0.slot] = y]
        /\ Kept(x, y) /\ y.dw = x.dw /\ y.high = r.high /\ y.low = r.low /\ y.wb = r.wb
        /\ \/ ~BufferEmpty(r) /\ y.type = x.type /\ y.writing = x.writing
           \/ BufferEmpty(r) /\ x.closing /\ y.type = "INVALID" /\ y.writing = x.writing
           \/ BufferEmpty(r) /\ ~x.closing /\ y.type = x.type /\ ~y.writing
  <2>1. CASE ~BufferEmpty(r)
    BY <1>1, <1>2, <1>7, <2>1 DEF SetSlot
  <2>2. CASE BufferEmpty(r) /\ r.closing
    <3>1. PICK y : y = [r EXCEPT !.type = "INVALID"]
      OBVIOUS
    <3>2. y \in Sockets
      BY <1>2, <1>7, <1>5, <3>1, Fields
    <3>3. /\ y.type = "INVALID" /\ y.writing = r.writing /\ y.dw = r.dw /\ y.high = r.high /\ y.low = r.low /\ y.wb = r.wb
          /\ Kept(x, y)
      BY <1>2, <1>7, <3>1 DEF Kept, Sockets
    <3> QED
      BY <1>1, <1>2, <1>7, <2>2, <3>1, <3>2, <3>3 DEF SetSlot, Kept
  <2>3. CASE BufferEmpty(r) /\ ~r.closing
    <3>1. PICK y : y = [r EXCEPT !.writing = FALSE]
      OBVIOUS
    <3>2. y \in Sockets
      BY <1>2, <1>7, <1>5, <3>1, Fields
    <3>3. /\ y.type = r.type /\ ~y.writing /\ y.dw = r.dw /\ y.high = r.high /\ y.low = r.low /\ y.wb = r.wb
          /\ Kept(x, y)
      BY <1>2, <1>7, <3>1 DEF Kept, Sockets
    <3> QED
      BY <1>1, <1>2, <1>7, <2>3, <3>1, <3>2, <3>3 DEF SetSlot, Kept
  <2> QED
    BY <2>1, <2>2, <2>3
<1>8. r = SentBy(x, h, l).x /\ out = SentBy(x, h, l).out
  BY DEF r, out
<1>9. PICK y \in Sockets :
        /\ slot' = [slot EXCEPT ![E0.slot] = y]
        /\ Kept(x, y) /\ y.dw = x.dw /\ y.high = r.high /\ y.low = r.low /\ y.wb = r.wb
        /\ \/ ~BufferEmpty(r) /\ y.type = x.type /\ y.writing = x.writing
           \/ BufferEmpty(r) /\ x.closing /\ y.type = "INVALID" /\ y.writing = x.writing
           \/ BufferEmpty(r) /\ ~x.closing /\ y.type = x.type /\ ~y.writing
  BY <1>6
<1>10. AfterWrite(x, h, l, r, y)
  BY <1>1, <1>2, <1>8, <1>9, Zenon DEF AfterWrite
<1> QED
  BY <1>2, <1>3, <1>4, <1>10

LEMMA NetType ==
  ASSUME TypeOK, NEW id
  PROVE  /\ \A r \in {"no", "err", "done"}, c \in BOOLEAN :
              [net EXCEPT ![id].rst = r, ![id].shut = c] \in [Ids -> NetRecs]
         /\ \A r \in {"no", "err", "done"} : [net EXCEPT ![id].rst = r] \in [Ids -> NetRecs]
<1>1. net \in [Ids -> NetRecs]
  BY DEF TypeOK
<1>2. CASE id \notin Ids
  BY <1>1, <1>2
<1>3. CASE id \in Ids
  <2>1. net[id] \in NetRecs
    BY <1>1, <1>3
  <2>2. \A r \in {"no", "err", "done"}, c \in BOOLEAN :
           [net[id] EXCEPT !.rst = r, !.shut = c] \in NetRecs /\ [net[id] EXCEPT !.rst = r] \in NetRecs
    BY <2>1 DEF NetRecs
  <2> QED
    BY <1>1, <1>3, <2>2
<1> QED
  BY <1>2, <1>3

LEMMA SendBufferType ==
  ASSUME TypeOK, SendBuffer
  PROVE  TypeOK'
<1>1. Event(Plain) /\ ev' = Tail(ev) /\ th' = Polling /\ UNCHANGED alloc
  BY SendBufferCases
<1>2. E0.slot \in Slots /\ Y \in Sockets /\ ev' \in Seq(EventRecs) /\ ctrl' \in BOOLEAN /\ UNCHANGED <<workVars, pipe, sent>>
  BY <1>1, EventType
<1>3. CASE UNCHANGED <<slot, net, wire, told, freed>>
  BY <1>1, <1>2, <1>3, PollingType, ThreadStepType DEF TypeOK
<1>4. ASSUME NEW x \in Sockets, WriteError(x)
      PROVE  TypeOK'
  <2>1. /\ \E y \in Sockets : slot' = [slot EXCEPT ![E0.slot] = y]
        /\ \E ps : Free(ps)
        /\ UNCHANGED <<wire, told>>
    BY <1>4, WriteErrorType, Zenon DEF AfterError
  <2>2. slot' \in [Slots -> Sockets]
    BY <1>2, <2>1 DEF TypeOK
  <2>3. freed' \in Seq(Nat) /\ Len(freed') = Len(freed)
    BY <2>1, FreeType DEF TypeOK
  <2>4. net' \in [Ids -> NetRecs]
    <3> DEFINE keep == (x.closing \/ x.type = "HALFCLOSE_READ") \/ x.type = "HALFCLOSE_WRITE"
    <3>1. net' = [net EXCEPT ![x.id].rst = "done", ![x.id].shut = @ \/ ~keep]
      BY <1>4 DEF WriteError
    <3>2. CASE x.id \in Ids
      <4>1. net' = [net EXCEPT ![x.id].rst = "done", ![x.id].shut = net[x.id].shut \/ ~keep]
        BY <3>1, <3>2 DEF TypeOK
      <4>2. (net[x.id].shut \/ ~keep) \in BOOLEAN
        OBVIOUS
      <4> HIDE DEF keep
      <4> QED
        BY <4>1, <4>2, NetType
    <3>3. CASE x.id \notin Ids
      BY <3>1, <3>3 DEF TypeOK
    <3> QED
      BY <3>2, <3>3
  <2> QED
    BY <1>1, <1>2, <2>1, <2>2, <2>3, <2>4, PollingType, ThreadStepType DEF TypeOK
<1>5. ASSUME NEW x \in Sockets, NEW h, NEW l, Fits(h, x.high), Fits(l, x.low), WriteSome(x, h, l)
      PROVE  TypeOK'
  <2>1. /\ \E y \in Sockets : slot' = [slot EXCEPT ![E0.slot] = y]
        /\ wire' \in [Ids -> Seq(Pieces)] /\ freed' \in Seq(Nat) /\ Len(freed') = Len(freed)
        /\ UNCHANGED <<net, told>>
    BY <1>5, WriteSomeType, Zenon DEF AfterWrite
  <2>2. slot' \in [Slots -> Sockets]
    BY <1>2, <2>1 DEF TypeOK
  <2> QED
    BY <1>1, <1>2, <2>1, <2>2, PollingType, ThreadStepType DEF TypeOK
<1>6. \A a \in Nat : WithDirect(Y, a) \in Sockets
  BY <1>2, WithDirectType
<1>7. \A x \in Sockets : x.high \in Seq(Buffers) /\ x.low \in Seq(Buffers)
  BY DEF Sockets
<1>8. \/ UNCHANGED <<slot, net, wire, told, freed, failed>>
      \/ \E x \in Sockets :
           \/ WriteError(x)
           \/ \E h, l : Fits(h, x.high) /\ Fits(l, x.low) /\ WriteSome(x, h, l)
  BY <1>6, <1>7, OutcomeFits, SendBufferCases, Zenon
<1> QED
  BY <1>3, <1>4, <1>5, <1>8, Zenon

LEMMA ReadTcpType ==
  ASSUME TypeOK, ReadTcp
  PROVE  TypeOK'
<1>1. Event(Plain) /\ UNCHANGED <<alloc, wire>>
  BY DEF ReadTcp
<1>2. E0.slot \in Slots /\ Y \in Sockets /\ ctrl' \in BOOLEAN /\ UNCHANGED <<workVars, pipe, sent>>
  BY <1>1, EventType
<1>3. ev' \in Seq(EventRecs)
  <2>1. ev' = ev \/ \E go : AfterRead(go)
    BY DEF ReadTcp
  <2> QED
    BY <1>1, <2>1, AfterReadType DEF TypeOK
<1>4. net' \in [Ids -> NetRecs]
  <2> DEFINE id == Y.id
  <2>1. \/ net' = net
        \/ net[id].inb > 0 /\ net' = [net EXCEPT ![id].inb = @ - 1]
        \/ net' = [net EXCEPT ![id].rst = IF @ = "err" THEN "done" ELSE @]
    BY DEF ReadTcp
  <2>2. CASE net' = [net EXCEPT ![id].rst = IF @ = "err" THEN "done" ELSE @]
    <3>1. CASE id \in Ids
      <4>1. net[id].rst \in {"no", "err", "done"}
        BY <3>1 DEF TypeOK, NetRecs
      <4>2. net' = [net EXCEPT ![id].rst = IF net[id].rst = "err" THEN "done" ELSE net[id].rst]
        BY <2>2
      <4> HIDE DEF id
      <4>3. (IF net[id].rst = "err" THEN "done" ELSE net[id].rst) \in {"no", "err", "done"}
        BY <4>1
      <4> QED
        BY <4>2, <4>3, NetType
    <3>2. CASE id \notin Ids
      BY <2>2, <3>2 DEF TypeOK
    <3> QED
      BY <3>1, <3>2
  <2>3. CASE net' = net
    BY <2>3 DEF TypeOK
  <2>4. CASE net[id].inb > 0 /\ net' = [net EXCEPT ![id].inb = @ - 1]
    BY <2>4, LessInput
  <2> QED
    BY <2>1, <2>2, <2>3, <2>4, Zenon
<1>5. CASE UNCHANGED <<slot, told, freed>> /\ th' = Polling
  BY <1>1, <1>2, <1>3, <1>4, <1>5, PollingType, ThreadStepType DEF TypeOK
<1>6. CASE (\E msg \in {"none", "close"} : BeginForceClose(E0.slot, msg, FALSE)) /\ UNCHANGED told
  <2>1. /\ slot' \in [Slots -> Sockets] /\ th' \in Positions /\ th'.slot \in Slots
        /\ freed' \in Seq(Nat) /\ Len(freed') = Len(freed)
    BY <1>2, <1>6, BeginForceCloseType
  <2> QED
    BY <1>1, <1>2, <1>3, <1>4, <1>6, <2>1, ThreadStepType DEF TypeOK
<1>7. CASE th' = Polling /\ SetSlot(E0.slot, CloseRead(Y)) /\ Tell(Y.id, "close") /\ UNCHANGED freed
  <2>1. CloseRead(Y) \in Sockets
    BY <1>2, Fields, Zenon DEF CloseRead, Types
  <2>2. slot' \in [Slots -> Sockets]
    BY <1>2, <1>7, <2>1 DEF SetSlot, TypeOK
  <2>3. told' \in [Ids -> ToldRecs]
    BY <1>7, TellType DEF TypeOK
  <2> QED
    BY <1>1, <1>2, <1>3, <1>4, <1>7, <2>2, <2>3, PollingType, ThreadStepType DEF TypeOK
<1> QED
  BY <1>5, <1>6, <1>7, Zenon DEF ReadTcp

LEMMA ErrorEventType ==
  ASSUME TypeOK, ErrorEvent
  PROVE  TypeOK'
<1>1. Event(Plain) /\ ev' = Tail(ev) /\ UNCHANGED <<alloc, wire, told>>
  BY DEF ErrorEvent
<1>2. E0.slot \in Slots /\ Y \in Sockets /\ ev' \in Seq(EventRecs) /\ ctrl' \in BOOLEAN /\ UNCHANGED <<workVars, pipe, sent>>
  BY <1>1, EventType
<1>3. CASE UNCHANGED <<slot, freed>> /\ th' = Polling /\ (net' = net \/ net' = [net EXCEPT ![Y.id].rst = IF @ = "err" THEN "done" ELSE @])
  <2>1. net' \in [Ids -> NetRecs]
    <3>1. \A r \in {"no", "err", "done"} : [net EXCEPT ![Y.id].rst = r] \in [Ids -> NetRecs]
      BY NetType
    <3>2. net \in [Ids -> NetRecs]
      BY DEF TypeOK
    <3>3. Y.id \in Ids => (IF net[Y.id].rst = "err" THEN "done" ELSE net[Y.id].rst) \in {"no", "err", "done"}
      BY <3>2 DEF NetRecs
    <3>4. CASE Y.id \in Ids
      BY <1>3, <3>1, <3>2, <3>3, <3>4
    <3>5. CASE Y.id \notin Ids
      BY <1>3, <3>2, <3>5
    <3> QED
      BY <3>4, <3>5
  <2> QED
    BY <1>1, <1>2, <1>3, <2>1, PollingType, ThreadStepType DEF TypeOK
<1>4. CASE (\E msg \in {"none", "close"} : BeginForceClose(E0.slot, msg, FALSE)) /\ UNCHANGED net
  <2>1. /\ slot' \in [Slots -> Sockets] /\ th' \in Positions /\ th'.slot \in Slots
        /\ freed' \in Seq(Nat) /\ Len(freed') = Len(freed)
    BY <1>2, <1>4, BeginForceCloseType
  <2> QED
    BY <1>1, <1>2, <1>4, <2>1, ThreadStepType DEF TypeOK
<1> QED
  BY <1>3, <1>4, Zenon DEF ErrorEvent

LEMMA ReservedEventType ==
  ASSUME TypeOK, ReservedEvent
  PROVE  TypeOK'
<1>1. /\ Event({"RESERVE"}) /\ ev' = Tail(ev) /\ th' = Polling
      /\ slot' = [slot EXCEPT ![E0.slot] = [Y EXCEPT !.writing = @ /\ ~(~E0.read /\ E0.write)]]
      /\ UNCHANGED <<alloc, net, wire, told, freed>>
  BY DEF ReservedEvent, SetSlot
<1>2. E0.slot \in Slots /\ Y \in Sockets /\ ev' \in Seq(EventRecs) /\ ctrl' \in BOOLEAN /\ UNCHANGED <<workVars, pipe, sent>>
  BY <1>1, EventType
<1>3. [Y EXCEPT !.writing = @ /\ ~(~E0.read /\ E0.write)] \in Sockets
  BY <1>2 DEF Sockets
<1>4. slot' \in [Slots -> Sockets]
  BY <1>1, <1>2, <1>3 DEF TypeOK
<1> QED
  BY <1>1, <1>2, <1>4, PollingType, ThreadStepType DEF TypeOK

LEMMA AcceptType ==
  ASSUME TypeOK, NEW id \in FreeIds, Accept(id)
  PROVE  slot' \in [Slots -> Sockets] /\ told' \in [Ids -> ToldRecs] /\ alloc' \in 0 .. scene.ids
<1> DEFINE x == Reserve(id)[H(id)]
           y == NewFd(x, id, "tcp", FALSE)
<1>1. /\ id <= scene.ids /\ alloc' = id
      /\ \/ (\E z \in {x, y} : SetSlot(H(id), [z EXCEPT !.type = "INVALID"])) /\ UNCHANGED told
         \/ /\ SetSlot(H(id), [y EXCEPT !.type = "PACCEPT"])
            /\ told' = [told EXCEPT ![id].start = TRUE]
  BY DEF Accept
<1>2. id \in Ids /\ id \in Nat /\ alloc' \in 0 .. scene.ids /\ H(id) \in Slots /\ Tag(id) \in Nat
  BY <1>1, FreeIdType, Hash DEF TypeOK
<1>3. x \in Sockets
  <2>1. x = [slot[H(id)] EXCEPT !.type = "RESERVE", !.id = id, !.protocol = "unknown", !.udpconnecting = 0]
    BY <1>2 DEF Reserve, TypeOK
  <2>2. slot[H(id)] \in Sockets
    BY <1>2 DEF TypeOK
  <2> QED
    BY <1>2, <2>1, <2>2, ReserveType
<1>4. y \in Sockets /\ {"INVALID", "PACCEPT"} \subseteq Types
  BY <1>2, <1>3, NewFdType DEF Types
<1> HIDE DEF x, y
<1>5. /\ [x EXCEPT !.type = "INVALID"] \in Sockets /\ [y EXCEPT !.type = "INVALID"] \in Sockets
      /\ [y EXCEPT !.type = "PACCEPT"] \in Sockets
  BY <1>3, <1>4, Fields
<1>6. slot' \in [Slots -> Sockets]
  BY <1>1, <1>2, <1>5 DEF SetSlot, TypeOK
<1>7. told' \in [Ids -> ToldRecs]
  <2>1. told[id] \in ToldRecs
    BY <1>2 DEF TypeOK
  <2>2. [told[id] EXCEPT !.start = TRUE] \in ToldRecs
    BY <2>1 DEF ToldRecs
  <2> QED
    BY <1>1, <1>2, <2>2 DEF TypeOK
<1> QED
  BY <1>2, <1>6, <1>7

LEMMA ReportAcceptType ==
  ASSUME TypeOK, ReportAccept
  PROVE  TypeOK'
<1>1. /\ Event({"LISTEN"}) /\ ev' = Tail(ev) /\ th' = Polling /\ UNCHANGED <<wire, freed>>
      /\ net' = net \/ (net[Y.id].inb > 0 /\ net' = [net EXCEPT ![Y.id].inb = @ - 1])
      /\ UNCHANGED <<slot, alloc, told>> \/ \E id \in FreeIds : Accept(id)
  BY DEF ReportAccept
<1>2. E0.slot \in Slots /\ Y \in Sockets /\ ev' \in Seq(EventRecs) /\ ctrl' \in BOOLEAN /\ UNCHANGED <<workVars, pipe, sent>>
  BY <1>1, EventType
<1>3. net' \in [Ids -> NetRecs]
  BY <1>1, LessInput DEF TypeOK
<1>4. CASE UNCHANGED <<slot, alloc, told>>
  BY <1>1, <1>2, <1>3, <1>4, PollingType, ThreadStepType DEF TypeOK
<1>5. CASE \E id \in FreeIds : Accept(id)
  BY <1>1, <1>2, <1>3, <1>5, AcceptType, PollingType, ThreadStepType DEF TypeOK
<1> QED
  BY <1>1, <1>4, <1>5

LEMMA NetworkType ==
  ASSUME TypeOK, NEW id \in Ids, Network(id)
  PROVE  TypeOK'
<1>1. /\ UNCHANGED <<scene, slot, lock, alloc, pipe, ev, ctrl, th, wire, told, wk, sent, freed, conn, due, calls, failed>>
      /\ moves' = moves + 1
      /\ \E m : net' = [net EXCEPT ![id] = m] /\ m \in {[net[id] EXCEPT !.est = "ok"], [net[id] EXCEPT !.est = "fail"],
                 [net[id] EXCEPT !.inb = 1], [net[id] EXCEPT !.fin = TRUE], [net[id] EXCEPT !.rst = "err"]}
  BY DEF Network
<1>2. net' \in [Ids -> NetRecs]
  <2>1. ASSUME NEW n \in NetRecs
        PROVE  /\ [n EXCEPT !.est = "ok"] \in NetRecs /\ [n EXCEPT !.est = "fail"] \in NetRecs
               /\ [n EXCEPT !.inb = 1] \in NetRecs /\ [n EXCEPT !.fin = TRUE] \in NetRecs
               /\ [n EXCEPT !.rst = "err"] \in NetRecs
    BY DEF NetRecs
  <2>2. net[id] \in NetRecs
    BY DEF TypeOK
  <2>3. \E m \in NetRecs : net' = [net EXCEPT ![id] = m]
    BY <1>1, <2>1, <2>2, Zenon
  <2> QED
    BY <2>3 DEF TypeOK
<1> QED
  BY <1>1, <1>2, SameScene DEF TypeOK

(* What a worker does, with the id and kind of its call.                   *)
LEMMA WorkerType ==
  ASSUME TypeOK, NEW w \in Workers, Worker(w)
  PROVE  TypeOK'
<1>1. CASE Connect(w) \/ Listen(w) \/ BindFd(w) \/ Udp(w)
  BY <1>1, OpenRequestType DEF Connect, Listen, BindFd, Udp, Opening
<1>2. ASSUME NEW id \in 1 .. alloc,
             \/ StartPause(w, id) \/ Close(w, id) \/ Shutdown(w, id)
             \/ Send(w, id) \/ SendLow(w, id) \/ UdpSend(w, id) \/ UdpConnect(w, id)
      PROVE  TypeOK'
  <2>1. id \in Ids
    <3>1. alloc \in 0 .. scene.ids /\ scene.ids \in Nat
      BY Scene DEF TypeOK
    <3> QED
      BY <3>1 DEF Ids
  <2>2. CASE StartPause(w, id) \/ Close(w, id) \/ Shutdown(w, id)
    BY <2>1, <2>2, RequestType DEF StartPause, Close, Shutdown
  <2>3. CASE Send(w, id)
    <3> DEFINE bad == Invalid(slot[H(id)], id) \/ slot[H(id)].closing
    <3>1. PICK direct \in TryDirect(slot[H(id)], id) : Sending(w, id, "D", bad, direct)
      BY <2>3 DEF Send
    <3>2. bad \in BOOLEAN /\ direct \in BOOLEAN /\ "D" \in Data
      BY <3>1 DEF Invalid, TryDirect, Data
    <3> HIDE DEF bad
    <3> QED
      BY <2>1, <3>1, <3>2, SendingType
  <2>4. CASE SendLow(w, id)
    <3> DEFINE bad == Invalid(slot[H(id)], id)
               direct == FALSE
    <3>1. Sending(w, id, "P", bad, direct)
      BY <2>4 DEF SendLow
    <3>2. bad \in BOOLEAN /\ direct \in BOOLEAN /\ "P" \in Data
      BY DEF Invalid, TryDirect, CanDirectWrite, Data
    <3> HIDE DEF bad, direct
    <3> QED
      BY <2>1, <3>1, <3>2, SendingType
  <2>5. CASE UdpSend(w, id)
    <3> DEFINE bad == Invalid(slot[H(id)], id)
    <3>1. PICK direct \in TryDirect(slot[H(id)], id) : Sending(w, id, "A", bad, direct)
      BY <2>5 DEF UdpSend
    <3>2. bad \in BOOLEAN /\ direct \in BOOLEAN /\ "A" \in Data
      BY <3>1 DEF Invalid, TryDirect, Data
    <3> HIDE DEF bad
    <3> QED
      BY <2>1, <3>1, <3>2, SendingType
  <2> QED
    BY <1>2, <2>1, <2>2, <2>3, <2>4, <2>5, UdpConnectType
<1> QED
  BY <1>1, <1>2, DoubleCheckType, DirectWriteType, IncSendingType, PutRequestType, ResolveType, ExitType DEF Worker

LEMMA SocketThreadType ==
  ASSUME TypeOK, SocketThread
  PROVE  TypeOK'
BY OpenTypes, CloseSocketType, ResumeType, AdjustType, SendSocketType, DecSendingType, ExitCmdType,
   ForceCloseType, SpWaitType, ReportConnectType, ReportAcceptType, SkippedType, ReadTcpType, ReadUdpType,
   SendBufferType, ErrorEventType, ClearEventType, NoCommandType, ReservedEventType DEF SocketThread

LEMMA NextType == ASSUME TypeOK, [Next]_vars PROVE TypeOK'
<1>1. CASE UNCHANGED vars
  BY <1>1, SameScene DEF vars, TypeOK
<1> QED
  BY <1>1, WorkerType, SocketThreadType, NetworkType DEF Next

(* Every variable keeps to the values the code can store in it.            *)
THEOREM SocketTypes == Spec => []TypeOK
<1>1. Init => TypeOK
  BY InitTypes
<1>2. TypeOK /\ [Next]_vars => TypeOK'
  BY NextType
<1> QED
  BY <1>1, <1>2, PTL DEF Spec

-----------------------------------------------------------------------------
(* Slots and ids.                                                          *)
Alive(i) == slot[i].type \notin {"INVALID", "RESERVE"}
Forced(i) == th.pc = "force" /\ th.slot = i

SlotInv ==
  \A i \in Slots :
    /\ slot[i].id \in 0 .. alloc
    /\ slot[i].type # "INVALID" => slot[i].id \in 1 .. alloc /\ H(slot[i].id) = i
    /\ ~Alive(i) => BufferEmpty(slot[i]) /\ slot[i].dw = None
    /\ slot[i].type = "RESERVE" => \E k \in DOMAIN pipe : pipe[k].cmd \in Opening /\ pipe[k].id = slot[i].id

PipeInv ==
  \A k \in DOMAIN pipe :
    /\ pipe[k].cmd # "exit" => pipe[k].id \in 1 .. alloc
    /\ pipe[k].cmd \in Opening =>
         /\ slot[H(pipe[k].id)].type = "RESERVE" /\ slot[H(pipe[k].id)].id = pipe[k].id
         /\ \A l \in 1 .. k - 1 : pipe[l].cmd # "exit" => pipe[l].id # pipe[k].id

ForceInv ==
  th.pc = "force" => Alive(th.slot) /\ BufferEmpty(slot[th.slot])

(* A worker between socket_trylock and socket_unlock has the lock.         *)
LockInv ==
  /\ \A w \in Workers : /\ wk[w].pc # "idle" => wk[w].id \in 1 .. alloc
                        /\ wk[w].pc \in {"check", "write"} => lock[H(wk[w].id)] = w
  /\ \A i \in Slots : lock[i] # None =>
       /\ wk[lock[i]].pc \in {"check", "write"} /\ H(wk[lock[i]].id) = i
       /\ slot[i].id = wk[lock[i]].id /\ Alive(i)
       /\ wk[lock[i]].pc = "write" => slot[i].dw = None /\ slot[i].type \notin {"CONNECTING", "PACCEPT", "PLISTEN", "LISTEN", "BIND"}

BaseInv == TypeOK /\ SlotInv /\ PipeInv /\ ForceInv /\ LockInv

-----------------------------------------------------------------------------
(* Slots, requests, events and locks stay in order.                        *)

Early == {"CONNECTING", "PACCEPT", "PLISTEN", "LISTEN", "BIND"}

(* The socket in slot i becomes y: it stays the same connection, or ends.  *)
SteadyAt(i, y) ==
  LET x == slot[i] IN
  /\ y.id = x.id /\ y.protocol = x.protocol /\ y.tag = x.tag
  /\ y.type = x.type \/ (Alive(i) /\ y.type # "RESERVE")
  /\ y.type \in {"INVALID", "RESERVE"} => BufferEmpty(y) /\ y.dw = None
  /\ y.type = "INVALID" => x.type = "INVALID" \/ lock[i] = None
  /\ y.dw = x.dw \/ y.dw = None
  /\ y.type \in Early => x.type \in Early
  /\ x.type = "HALFCLOSE_READ" => y.type \in {"HALFCLOSE_READ", "INVALID"}

(* A step of the socket thread that opens no socket.                       *)
ThreadSteady == \A i \in Slots : SteadyAt(i, slot'[i])

(* A step of a worker that reserves no id.                                 *)
WorkSteady ==
  \A i \in Slots :
    LET x == slot[i]
        y == slot'[i]
    IN  /\ y.id = x.id /\ y.protocol = x.protocol /\ y.tag = x.tag /\ y.type = x.type /\ y.high = x.high /\ y.low = x.low
        /\ y.writing = x.writing /\ y.closing = x.closing /\ y.wb = x.wb
        /\ y.dw # x.dw => Alive(i)

(* No request that opens an id is made or taken.                           *)
PipeSteady ==
  \/ pipe' = pipe
  \/ \E r \in Requests : r.cmd \notin Opening /\ (r.cmd # "exit" => r.id \in 1 .. alloc) /\ Put(r)
  \/ pipe # <<>> /\ pipe' = Tail(pipe) /\ Req.cmd \notin Opening

(* What is read from or added to a pipe.                                   *)
LEMMA PipeEntries ==
  ASSUME TypeOK
  PROVE  /\ DOMAIN pipe = 1 .. Len(pipe) /\ Len(pipe) \in Nat
         /\ \A k \in DOMAIN pipe : pipe[k] \in Requests /\ (pipe[k].cmd \in Opening => pipe[k].id \in Ids)
         /\ \A r : Put(r) => /\ DOMAIN pipe' = 1 .. Len(pipe) + 1 /\ pipe'[Len(pipe) + 1] = r
                             /\ \A k \in 1 .. Len(pipe) : pipe'[k] = pipe[k]
         /\ pipe # <<>> /\ pipe' = Tail(pipe) =>
              /\ Len(pipe) > 0 /\ DOMAIN pipe' = 1 .. Len(pipe) - 1 /\ Req = pipe[1]
              /\ \A k \in DOMAIN pipe' : k + 1 \in DOMAIN pipe /\ k + 1 # 1 /\ pipe'[k] = pipe[k + 1]
              /\ \A k \in DOMAIN pipe : k = 1 \/ (k - 1 \in DOMAIN pipe' /\ pipe'[k - 1] = pipe[k])
<1>1. pipe \in Seq(Requests)
  BY DEF TypeOK
<1>2. DOMAIN pipe = 1 .. Len(pipe) /\ Len(pipe) \in Nat
  BY <1>1
<1>3. ASSUME NEW k \in DOMAIN pipe PROVE pipe[k] \in Requests /\ (pipe[k].cmd \in Opening => pipe[k].id \in Ids)
  <2>1. pipe[k] \in Requests
    BY <1>1
  <2>2. \A r \in Requests : r.cmd \in Opening => r.id \in Ids
    BY DEF Requests, Opening
  <2> QED
    BY <2>1, <2>2
<1>4. ASSUME NEW r, Put(r)
      PROVE  /\ DOMAIN pipe' = 1 .. Len(pipe) + 1 /\ pipe'[Len(pipe) + 1] = r
             /\ \A k \in 1 .. Len(pipe) : pipe'[k] = pipe[k]
  BY <1>1, <1>4 DEF Put
<1>5. ASSUME pipe # <<>>, pipe' = Tail(pipe)
      PROVE  /\ Len(pipe) > 0 /\ DOMAIN pipe' = 1 .. Len(pipe) - 1 /\ Req = pipe[1]
             /\ \A k \in DOMAIN pipe' : k + 1 \in DOMAIN pipe /\ k + 1 # 1 /\ pipe'[k] = pipe[k + 1]
             /\ \A k \in DOMAIN pipe : k = 1 \/ (k - 1 \in DOMAIN pipe' /\ pipe'[k - 1] = pipe[k])
  <2>1. Len(pipe) > 0 /\ DOMAIN pipe' = 1 .. Len(pipe) - 1 /\ Req = pipe[1]
    BY <1>1, <1>5 DEF Req
  <2>2. \A k \in 1 .. Len(pipe) - 1 : pipe'[k] = pipe[k + 1]
    BY <1>1, <1>5
  <2>3. ASSUME NEW k \in DOMAIN pipe'
        PROVE  k + 1 \in DOMAIN pipe /\ k + 1 # 1 /\ pipe'[k] = pipe[k + 1]
    BY <1>2, <2>1, <2>2
  <2>4. ASSUME NEW k \in DOMAIN pipe, k # 1
        PROVE  k - 1 \in DOMAIN pipe' /\ pipe'[k - 1] = pipe[k]
    <3>1. k \in Int /\ k - 1 \in 1 .. Len(pipe) - 1 /\ (k - 1) + 1 = k
      BY <1>2, <2>4
    <3>2. pipe'[k - 1] = pipe[(k - 1) + 1]
      BY <2>2, <3>1
    <3> QED
      BY <2>1, <3>1, <3>2
  <2> QED
    BY <2>1, <2>3, <2>4
<1> QED
  BY <1>2, <1>3, <1>4, <1>5

LEMMA SteadySlots ==
  ASSUME TypeOK, SlotInv, PipeInv, scene' = scene, alloc' = alloc, ThreadSteady \/ WorkSteady, PipeSteady
  PROVE  SlotInv' /\ PipeInv'
<1>1. H(0) = H(0)' /\ \A id : H(id)' = H(id)
  BY DEF H, NSlot
<1>2. \A i \in Slots : /\ slot'[i].id = slot[i].id
                       /\ slot'[i].type = slot[i].type \/ (Alive(i) /\ slot'[i].type # "RESERVE")
                       /\ slot'[i].type \in {"INVALID", "RESERVE"} => BufferEmpty(slot'[i]) /\ slot'[i].dw = None
  BY DEF ThreadSteady, WorkSteady, SteadyAt, SlotInv, Alive, BufferEmpty
<1>3. Slots' = Slots
  BY SameScene
<1>4. \A k \in DOMAIN pipe : pipe[k].cmd \in Opening =>
         \E l \in DOMAIN pipe' : pipe'[l] = pipe[k]
  <2> TAKE k \in DOMAIN pipe
  <2> HAVE pipe[k].cmd \in Opening
  <2>1. CASE pipe' = pipe
    BY <2>1
  <2>2. CASE \E r : Put(r)
    BY <2>2, PipeEntries
  <2>3. CASE pipe # <<>> /\ pipe' = Tail(pipe) /\ Req.cmd \notin Opening
    <3>1. k # 1
      BY <2>3, PipeEntries
    <3> QED
      BY <2>3, <3>1, PipeEntries
  <2> QED
    BY <2>1, <2>2, <2>3 DEF PipeSteady
<1>5. SlotInv'
  BY <1>1, <1>2, <1>3, <1>4 DEF SlotInv, Alive
<1>6. \A k \in DOMAIN pipe' :
         /\ pipe'[k].cmd # "exit" => pipe'[k].id \in 1 .. alloc
         /\ pipe'[k].cmd \in Opening =>
              /\ \E l \in DOMAIN pipe : pipe[l] = pipe'[k]
              /\ \A j \in 1 .. k - 1 : pipe'[j].cmd # "exit" => pipe'[j].id # pipe'[k].id
  <2> TAKE k \in DOMAIN pipe'
  <2>1. CASE pipe' = pipe
    BY <2>1 DEF PipeInv
  <2>2. ASSUME NEW r \in Requests, r.cmd \notin Opening, r.cmd # "exit" => r.id \in 1 .. alloc, Put(r)
        PROVE  /\ pipe'[k].cmd # "exit" => pipe'[k].id \in 1 .. alloc
               /\ pipe'[k].cmd \in Opening =>
                    /\ \E l \in DOMAIN pipe : pipe[l] = pipe'[k]
                    /\ \A j \in 1 .. k - 1 : pipe'[j].cmd # "exit" => pipe'[j].id # pipe'[k].id
    <3>1. CASE k = Len(pipe) + 1
      BY <2>2, <3>1, PipeEntries
    <3>2. CASE k \in 1 .. Len(pipe)
      <4>1. k \in DOMAIN pipe /\ pipe'[k] = pipe[k] /\ \A j \in 1 .. k - 1 : j \in DOMAIN pipe /\ pipe'[j] = pipe[j]
        BY <2>2, <3>2, PipeEntries
      <4> QED
        BY <4>1 DEF PipeInv
    <3> QED
      BY <2>2, <3>1, <3>2, PipeEntries
  <2>3. CASE pipe # <<>> /\ pipe' = Tail(pipe)
    <3>1. pipe'[k] = pipe[k + 1] /\ k + 1 \in DOMAIN pipe /\ DOMAIN pipe' = 1 .. Len(pipe) - 1 /\ Len(pipe) \in Nat
      BY <2>3, PipeEntries
    <3>2. ASSUME NEW j \in 1 .. k - 1
          PROVE  pipe'[j] = pipe[j + 1] /\ j + 1 \in 1 .. (k + 1) - 1
      <4>1. j \in DOMAIN pipe' /\ j + 1 \in 1 .. (k + 1) - 1
        BY <3>1
      <4> QED
        BY <2>3, <4>1, PipeEntries
    <3> QED
      BY <3>1, <3>2 DEF PipeInv
  <2> QED
    BY <2>1, <2>2, <2>3 DEF PipeSteady
<1>7. PipeInv'
  <2> SUFFICES ASSUME NEW k \in DOMAIN pipe', pipe'[k].cmd \in Opening
               PROVE  slot'[H(pipe'[k].id)].type = "RESERVE" /\ slot'[H(pipe'[k].id)].id = pipe'[k].id
    BY <1>1, <1>6 DEF PipeInv
  <2>1. PICK l \in DOMAIN pipe : pipe[l] = pipe'[k]
    BY <1>6
  <2>2. pipe[l].id \in Ids /\ H(pipe[l].id) \in Slots
    BY <2>1, PipeEntries, IdsAreNat DEF TypeOK
  <2>3. slot[H(pipe[l].id)].type = "RESERVE" /\ slot[H(pipe[l].id)].id = pipe[l].id
    BY <2>1 DEF PipeInv
  <2> QED
    BY <1>2, <2>1, <2>2, <2>3 DEF Alive
<1> QED
  BY <1>5, <1>7

(* What every step of the socket thread that opens nothing and waits for   *)
(* nothing does.                                                           *)
ThreadStep ==
  /\ ThreadSteady /\ PipeSteady /\ ForceInv'
  /\ UNCHANGED <<workVars, alloc>>

LEMMA SetSteady ==
  ASSUME TypeOK, SlotInv, slot' = slot \/ \E i \in Slots : \E y : slot' = [slot EXCEPT ![i] = y] /\ SteadyAt(i, y)
  PROVE  ThreadSteady
<1>1. \A j \in Slots : SteadyAt(j, slot[j])
  BY DEF SteadyAt, SlotInv, Alive
<1> QED
  BY <1>1 DEF ThreadSteady, TypeOK

(* A request other than the one that opens it finds its socket open.       *)
LEMMA LiveRequest ==
  ASSUME TypeOK, SlotInv, PipeInv, pipe # <<>>, Req.cmd \notin Opening, Req.cmd # "exit", ~Invalid(X, Req.id)
  PROVE  Alive(H(Req.id)) /\ X.id = Req.id /\ H(Req.id) \in Slots /\ X \in Sockets
<1>1. Req.id \in Ids /\ H(Req.id) \in Slots /\ X \in Sockets /\ X = slot[H(Req.id)] /\ X.id = Req.id /\ X.type # "INVALID"
  BY ReqType DEF Invalid, X
<1>2. CASE X.type = "RESERVE"
  <2>1. PICK k \in DOMAIN pipe : pipe[k].cmd \in Opening /\ pipe[k].id = Req.id
    BY <1>1, <1>2 DEF SlotInv
  <2>2. Req = pipe[1] /\ DOMAIN pipe = 1 .. Len(pipe) /\ Len(pipe) \in Nat
    BY PipeEntries DEF Req
  <2>3. 1 \in 1 .. k - 1
    BY <2>1, <2>2
  <2> QED
    BY <2>1, <2>2, <2>3 DEF PipeInv
<1> QED
  BY <1>1, <1>2 DEF Alive

(* An event is of a socket that is open.                                   *)
LEMMA LiveEvent ==
  ASSUME TypeOK, NEW types, Event(types), "INVALID" \notin types, "RESERVE" \notin types
  PROVE  /\ Alive(E0.slot) /\ E0.slot \in Slots /\ Y \in Sockets /\ Y = slot[E0.slot] /\ Y.type \in types
         /\ ev # <<>> /\ E0 = ev[1] /\ 1 \in DOMAIN ev
         /\ UNCHANGED <<workVars, pipe, sent>>
<1>1. /\ E0.slot \in Slots /\ Y \in Sockets /\ Y = slot[E0.slot] /\ Y.type \in types /\ ev # <<>>
      /\ UNCHANGED <<workVars, pipe, sent>>
  BY EventType DEF Event, Y
<1>2. 1 \in DOMAIN ev /\ E0 = ev[1] /\ E0.slot # None
  BY <1>1 DEF E0, TypeOK, Event
<1> QED
  BY <1>1, <1>2 DEF Alive

(* force_close up to the lock.                                             *)
LEMMA BeginForceCloseStep ==
  ASSUME TypeOK, SlotInv, scene' = scene, NEW i \in Slots, Alive(i), NEW msg, NEW ctl, BeginForceClose(i, msg, ctl)
  PROVE  /\ ThreadSteady /\ ForceInv'
         /\ \A j \in Slots : /\ slot'[j].type = slot[j].type /\ slot'[j].id = slot[j].id
                             /\ j # i => slot'[j] = slot[j]
         /\ BufferEmpty(slot'[i]) /\ slot'[i].writing = slot[i].writing /\ slot'[i].dw = slot[i].dw
         /\ th' = [pc |-> "force", slot |-> i, id |-> 0, msg |-> msg, ctrl |-> ctl]
<1> DEFINE y == [slot[i] EXCEPT !.high = <<>>, !.low = <<>>]
<1>1. /\ slot' = [slot EXCEPT ![i] = y]
      /\ th' = [pc |-> "force", slot |-> i, id |-> 0, msg |-> msg, ctrl |-> ctl]
  BY DEF BeginForceClose, SetSlot
<1>2. /\ y.id = slot[i].id /\ y.protocol = slot[i].protocol /\ y.tag = slot[i].tag /\ y.type = slot[i].type
      /\ y.dw = slot[i].dw /\ y.writing = slot[i].writing /\ y.high = <<>> /\ y.low = <<>>
  BY DEF TypeOK, Sockets
<1>3. slot[i].type \notin {"INVALID", "RESERVE"}
  BY DEF Alive
<1> HIDE DEF y
<1>4. SteadyAt(i, y)
  BY <1>2, <1>3 DEF SteadyAt
<1>5. ThreadSteady
  BY <1>1, <1>4, SetSteady
<1>7. slot'[i] = y /\ \A j \in Slots : j # i => slot'[j] = slot[j]
  BY <1>1 DEF TypeOK
<1>8. ForceInv'
  BY <1>1, <1>2, <1>3, <1>7 DEF ForceInv, Alive, BufferEmpty
<1>9. \A j \in Slots : slot'[j].type = slot[j].type /\ slot'[j].id = slot[j].id
  BY <1>2, <1>7
<1> QED
  BY <1>1, <1>2, <1>5, <1>7, <1>8, <1>9 DEF BufferEmpty

LEMMA ForceCloseStep ==
  ASSUME BaseInv, ForceClose
  PROVE  ThreadStep
<1> USE DEF BaseInv
<1> DEFINE i == th.slot
           y == [slot[i] EXCEPT !.type = "INVALID", !.dw = None]
<1>1. /\ th.pc = "force" /\ lock[i] = None
      /\ slot' = [slot EXCEPT ![i] = y]
      /\ th' = IF th.ctrl THEN [th EXCEPT !.pc = "clear", !.id = slot[i].id] ELSE Polling
      /\ UNCHANGED <<workVars, alloc, pipe>>
  BY DEF ForceClose, SetSlot
<1>2. i \in Slots /\ slot[i] \in Sockets /\ Alive(i) /\ BufferEmpty(slot[i])
  BY <1>1 DEF TypeOK, ForceInv
<1>3. /\ y.id = slot[i].id /\ y.protocol = slot[i].protocol /\ y.tag = slot[i].tag /\ y.type = "INVALID"
      /\ y.dw = None /\ y.high = <<>> /\ y.low = <<>>
  BY <1>2 DEF Sockets, BufferEmpty
<1> HIDE DEF y, i
<1>4. SteadyAt(i, y)
  BY <1>1, <1>2, <1>3 DEF SteadyAt, BufferEmpty, Alive, Early
<1>5. ThreadSteady
  BY <1>1, <1>2, <1>4, SetSteady
<1>8. th'.pc # "force"
  <2>1. Polling.pc = "poll" /\ [th EXCEPT !.pc = "clear", !.id = slot[i].id].pc = "clear"
    BY DEF Polling, TypeOK, Positions
  <2> QED
    BY <1>1, <2>1
<1> QED
  BY <1>1, <1>5, <1>8 DEF ThreadStep, PipeSteady, ForceInv

(* A request that changes at most its own slot, and not where the thread is. *)
LEMMA RequestStep ==
  ASSUME BaseInv, NEW cmds, Ctrl(cmds), cmds \cap Opening = {}, th' = th \/ th'.pc # "force", UNCHANGED <<workVars, alloc>>,
         \/ slot' = slot
         \/ \E i \in Slots : \E y : slot' = [slot EXCEPT ![i] = y] /\ SteadyAt(i, y)
  PROVE  ThreadStep
<1>1. th.pc = "poll" /\ pipe # <<>> /\ pipe' = Tail(pipe) /\ Req.cmd \notin Opening
  BY DEF Ctrl
<1>2. ThreadSteady
  BY SetSteady DEF BaseInv
<1> QED
  BY <1>1, <1>2 DEF ThreadStep, PipeSteady, ForceInv

LEMMA CloseSocketStep ==
  ASSUME BaseInv, CloseSocket
  PROVE  ThreadStep
<1> USE DEF BaseInv
<1>1. /\ Ctrl({"K", "X"}) /\ UNCHANGED <<workVars, alloc, ev>>
      /\ pipe # <<>> /\ Req.cmd \in {"K", "X"} /\ pipe' = Tail(pipe) /\ th.pc = "poll"
  BY DEF CloseSocket, Ctrl
<1>2. PipeSteady
  BY <1>1 DEF PipeSteady, Opening
<1>3. CASE UNCHANGED <<slot, th>>
  BY <1>1, <1>2, <1>3, RequestStep DEF Opening
<1>4. CASE ~Invalid(X, Req.id)
  <2>1. Alive(H(Req.id)) /\ H(Req.id) \in Slots /\ X \in Sockets /\ X = slot[H(Req.id)]
    BY <1>1, <1>4, LiveRequest DEF X, Opening
  <2>2. CASE \E msg : BeginForceClose(H(Req.id), msg, TRUE)
    <3>1. scene' = scene
      BY <1>1 DEF workVars
    <3> QED
      BY <1>1, <1>2, <2>1, <2>2, <3>1, BeginForceCloseStep DEF ThreadStep
  <2>3. CASE /\ SetSlot(H(Req.id), IF X.type = "HALFCLOSE_READ" THEN [X EXCEPT !.closing = TRUE]
                                   ELSE [CloseRead(X) EXCEPT !.closing = TRUE])
             /\ UNCHANGED th
    <3>1. PICK y : slot' = [slot EXCEPT ![H(Req.id)] = y] /\ y = IF X.type = "HALFCLOSE_READ" THEN [X EXCEPT !.closing = TRUE]
                                   ELSE [CloseRead(X) EXCEPT !.closing = TRUE]
      BY <2>3 DEF SetSlot
    <3>2. /\ y.id = X.id /\ y.protocol = X.protocol /\ y.tag = X.tag /\ y.type = "HALFCLOSE_READ" /\ y.dw = X.dw
          /\ y.writing = X.writing
      BY <2>1, <3>1 DEF Sockets, CloseRead
    <3>3. SteadyAt(H(Req.id), y)
      BY <2>1, <3>2 DEF SteadyAt, Alive, Early
    <3> QED
      BY <1>1, <1>2, <2>1, <2>3, <3>1, <3>3, RequestStep DEF Opening
  <2> QED
    BY <1>3, <1>4, <2>2, <2>3, Zenon DEF CloseSocket
<1> QED
  BY <1>3, <1>4, Zenon DEF CloseSocket

(* resume_socket changes nothing, or one live socket that is not closing.  *)
LEMMA ResumeSlot ==
  ASSUME BaseInv, Resume
  PROVE  /\ pipe # <<>> /\ Req.cmd = "R"
         /\ \/ slot' = slot
            \/ /\ Alive(H(Req.id)) /\ H(Req.id) \in Slots /\ X \in Sockets /\ X = slot[H(Req.id)]
               /\ X.type # "HALFCLOSE_READ"
               /\ \E y : /\ slot' = [slot EXCEPT ![H(Req.id)] = y]
                         /\ y.id = X.id /\ y.protocol = X.protocol /\ y.tag = X.tag /\ y.dw = X.dw
                         /\ y.writing = X.writing /\ y.high = X.high /\ y.low = X.low
                         /\ \/ y.type = X.type
                            \/ X.type = "PACCEPT" /\ y.type = "CONNECTED"
                            \/ X.type = "PLISTEN" /\ y.type = "LISTEN"
<1> USE DEF BaseInv
<1> DEFINE read == [X EXCEPT !.reading = TRUE]
           y == [X EXCEPT !.reading = TRUE, !.type = CASE @ = "PACCEPT" -> "CONNECTED"
                                                       [] @ = "PLISTEN" -> "LISTEN"
                                                       [] OTHER -> @]
<1>1. /\ pipe # <<>> /\ Req.cmd = "R"
      /\ \/ slot' = slot
         \/ /\ ~(Invalid(X, Req.id) \/ X.type = "HALFCLOSE_READ")
            /\ SetSlot(H(Req.id), read) \/ SetSlot(H(Req.id), y)
  BY DEF Resume, Ctrl
<1>2. ASSUME ~(Invalid(X, Req.id) \/ X.type = "HALFCLOSE_READ")
      PROVE  Alive(H(Req.id)) /\ H(Req.id) \in Slots /\ X \in Sockets /\ X = slot[H(Req.id)]
  BY <1>1, <1>2, LiveRequest DEF X, Opening
<1>3. ASSUME X \in Sockets
      PROVE  /\ read.id = X.id /\ read.protocol = X.protocol /\ read.tag = X.tag /\ read.dw = X.dw
             /\ read.writing = X.writing /\ read.type = X.type /\ read.high = X.high /\ read.low = X.low
  BY <1>3 DEF Sockets
<1>4. ASSUME X \in Sockets
      PROVE  /\ y.id = X.id /\ y.protocol = X.protocol /\ y.tag = X.tag /\ y.dw = X.dw
             /\ y.writing = X.writing /\ y.high = X.high /\ y.low = X.low
             /\ y.type = CASE X.type = "PACCEPT" -> "CONNECTED" [] X.type = "PLISTEN" -> "LISTEN" [] OTHER -> X.type
  BY <1>4 DEF Sockets
<1> HIDE DEF read, y
<1> QED
  BY <1>1, <1>2, <1>3, <1>4 DEF SetSlot

LEMMA ResumeStep ==
  ASSUME BaseInv, Resume
  PROVE  ThreadStep
<1> USE DEF BaseInv
<1>1. /\ Ctrl({"R"}) /\ UNCHANGED <<workVars, alloc, th>> /\ pipe # <<>> /\ Req.cmd = "R"
  BY DEF Resume, Ctrl
<1>3. CASE slot' = slot
  BY <1>1, <1>3, RequestStep DEF Opening
<1>4. CASE slot' # slot
  <2>1. /\ Alive(H(Req.id)) /\ H(Req.id) \in Slots /\ X = slot[H(Req.id)] /\ X.type # "HALFCLOSE_READ"
    BY <1>4, ResumeSlot
  <2>2. PICK y : /\ slot' = [slot EXCEPT ![H(Req.id)] = y]
                 /\ y.id = X.id /\ y.protocol = X.protocol /\ y.tag = X.tag /\ y.dw = X.dw /\ y.writing = X.writing
                 /\ \/ y.type = X.type
                    \/ X.type = "PACCEPT" /\ y.type = "CONNECTED"
                    \/ X.type = "PLISTEN" /\ y.type = "LISTEN"
    BY <1>4, ResumeSlot
  <2>3. SteadyAt(H(Req.id), y)
    BY <2>1, <2>2 DEF SteadyAt, Alive, Early
  <2> QED
    BY <1>1, <2>1, <2>2, <2>3, RequestStep DEF Opening
<1> QED
  BY <1>3, <1>4

LEMMA AdjustStep ==
  ASSUME BaseInv, Pause \/ TriggerWrite \/ SetUdpAddress
  PROVE  ThreadStep
<1> USE DEF BaseInv
<1>1. PICK cmd, y :
        /\ cmd \in {"S", "W", "C"} /\ Ctrl({cmd}) /\ UNCHANGED <<workVars, alloc, th, ev>> /\ pipe # <<>> /\ Req.cmd = cmd
        /\ IF Invalid(X, Req.id) THEN UNCHANGED slot ELSE SetSlot(H(Req.id), y)
        /\ y \in {X, [X EXCEPT !.reading = FALSE], [X EXCEPT !.writing = TRUE],
                  [X EXCEPT !.address = Req.n, !.udpconnecting = @ - 1]}
  BY DEF Pause, TriggerWrite, SetUdpAddress, Adjust, Ctrl
<1>3. CASE Invalid(X, Req.id)
  BY <1>1, <1>3, RequestStep DEF Opening
<1>4. CASE ~Invalid(X, Req.id)
  <2>1. Alive(H(Req.id)) /\ H(Req.id) \in Slots /\ X \in Sockets /\ X = slot[H(Req.id)]
    BY <1>1, <1>4, LiveRequest DEF X, Opening
  <2>2. /\ y.id = X.id /\ y.protocol = X.protocol /\ y.tag = X.tag /\ y.dw = X.dw /\ y.type = X.type
        /\ X.writing => y.writing
    BY <1>1, <2>1 DEF Sockets
  <2>3. SteadyAt(H(Req.id), y)
    BY <2>1, <2>2 DEF SteadyAt, Alive, Early
  <2> QED
    BY <1>1, <1>4, <2>1, <2>3, RequestStep DEF SetSlot, Opening
<1> QED
  BY <1>3, <1>4

(* What send_socket does to the slot.                                      *)
LEMMA AppendedFields ==
  ASSUME NEW x \in Sockets, NEW b, NEW toLow \in BOOLEAN
  PROVE  LET y == Appended(x, b, toLow) IN
         /\ y.id = x.id /\ y.protocol = x.protocol /\ y.tag = x.tag /\ y.dw = x.dw /\ y.type = x.type
         /\ y.closing = x.closing /\ y.sending = x.sending /\ (y.writing <=> (x.writing \/ BufferEmpty(x)))
         /\ y.high = IF toLow THEN x.high ELSE Append(x.high, b)
         /\ y.low = IF toLow THEN Append(x.low, b) ELSE x.low
         /\ y.wb = x.wb + Left(b)
BY DEF Appended, Sockets

LEMMA SendSocketSlot ==
  ASSUME TypeOK, SendSocket
  PROVE  /\ Ctrl(Data) /\ pipe # <<>> /\ Req.cmd \in Data /\ th.pc = "poll"
         /\ UNCHANGED <<workVars, alloc, ev, net, told, sent, failed>>
         /\ th' = IF Req.cmd = "A" THEN th ELSE [th EXCEPT !.pc = "dec", !.slot = H(Req.id), !.id = Req.id]
         /\ \/ UNCHANGED slot /\ Free({Req.p})
            \/ \E b \in Buffers, toLow \in BOOLEAN :
                 /\ b.p = Req.p /\ b.off = 0
                 /\ ~Refused(X, Req.id) /\ slot' = [slot EXCEPT ![H(Req.id)] = Appended(X, b, toLow)] /\ UNCHANGED <<freed, wire>>
<1> DEFINE to == IF ~sent[Req.p].udp THEN 0 ELSE IF Req.cmd = "A" THEN MaxCalls + 1 ELSE X.address
           b == Buffer(Req.p, 0, to)
           low == Req.cmd = "P" /\ ~BufferEmpty(X)
<1>1. /\ Ctrl(Data) /\ pipe # <<>> /\ Req.cmd \in Data /\ th.pc = "poll"
      /\ UNCHANGED <<workVars, alloc, ev, net, told, sent, failed>>
      /\ th' = IF Req.cmd = "A" THEN th ELSE [th EXCEPT !.pc = "dec", !.slot = H(Req.id), !.id = Req.id]
  BY DEF SendSocket, Ctrl, Data
<1>2. b \in Buffers
  <2>1. X.address \in Nat /\ Req.p \in Nat
    BY <1>1, ReqType DEF Sockets, Data
  <2>2. MaxCalls + 1 \in Nat
    BY Scene DEF MaxCalls, TypeOK
  <2>3. to \in Nat
    BY <2>1, <2>2
  <2> HIDE DEF to
  <2> QED
    BY <2>1, <2>3 DEF Buffer, Buffers
<1>3. \/ UNCHANGED slot /\ Free({Req.p})
      \/ \E toLow \in {low, Req.cmd = "P"} : ~Refused(X, Req.id) /\ SetSlot(H(Req.id), Appended(X, b, toLow)) /\ UNCHANGED <<freed, wire>>
  BY Zenon DEF SendSocket
<1>4. low \in BOOLEAN /\ (Req.cmd = "P") \in BOOLEAN /\ b.p = Req.p /\ b.off = 0
  BY DEF Buffer
<1> HIDE DEF to, b, low
<1> QED
  BY <1>1, <1>2, <1>3, <1>4 DEF SetSlot

LEMMA SendSocketStep ==
  ASSUME BaseInv, SendSocket
  PROVE  ThreadStep
<1> USE DEF BaseInv
<1>1. Ctrl(Data) /\ pipe # <<>> /\ Req.cmd \in Data /\ UNCHANGED <<workVars, alloc, ev>>
  BY SendSocketSlot
<1>2. th' = th \/ th'.pc # "force"
  <2>1. th' = th \/ th' = [th EXCEPT !.pc = "dec", !.slot = H(Req.id), !.id = Req.id]
    BY SendSocketSlot
  <2>2. th \in Positions
    BY DEF TypeOK
  <2> QED
    BY <2>1, <2>2 DEF Positions
<1>3. CASE UNCHANGED slot
  BY <1>1, <1>2, <1>3, RequestStep DEF Opening, Data
<1>4. CASE \E b \in Buffers, toLow \in BOOLEAN :
             ~Refused(X, Req.id) /\ slot' = [slot EXCEPT ![H(Req.id)] = Appended(X, b, toLow)]
  <2>1. PICK b \in Buffers, toLow \in BOOLEAN :
             ~Refused(X, Req.id) /\ slot' = [slot EXCEPT ![H(Req.id)] = Appended(X, b, toLow)]
    BY <1>4
  <2>2. Alive(H(Req.id)) /\ H(Req.id) \in Slots /\ X \in Sockets /\ X = slot[H(Req.id)]
    BY <1>1, <2>1, LiveRequest DEF X, Opening, Refused, Data
  <2> DEFINE y == Appended(X, b, toLow)
  <2>3. /\ y.id = X.id /\ y.protocol = X.protocol /\ y.tag = X.tag /\ y.dw = X.dw /\ y.type = X.type
        /\ X.writing => y.writing
    BY <2>2, AppendedFields
  <2> HIDE DEF y
  <2>4. SteadyAt(H(Req.id), y)
    BY <2>2, <2>3 DEF SteadyAt, Alive, Early
  <2>6. slot' = [slot EXCEPT ![H(Req.id)] = y]
    BY <2>1 DEF y
  <2> QED
    BY <1>1, <1>2, <2>2, <2>4, <2>6, RequestStep DEF Opening, Data
<1> QED
  BY <1>3, <1>4, SendSocketSlot

LEMMA DecSendingStep ==
  ASSUME BaseInv, DecSending
  PROVE  ThreadStep
<1> USE DEF BaseInv
<1> DEFINE i == th.slot
           y == [slot[i] EXCEPT !.sending = @ - 1]
<1>1. /\ th.pc = "dec" /\ th' = Polling /\ UNCHANGED <<workVars, alloc, pipe, ev>>
      /\ slot' = slot \/ slot' = [slot EXCEPT ![i] = y]
  BY DEF DecSending
<1>2. i \in Slots /\ slot[i] \in Sockets
  BY <1>1 DEF TypeOK
<1>3. /\ y.id = slot[i].id /\ y.protocol = slot[i].protocol /\ y.tag = slot[i].tag /\ y.type = slot[i].type
      /\ y.dw = slot[i].dw /\ y.high = slot[i].high /\ y.low = slot[i].low /\ y.writing = slot[i].writing
  BY <1>2 DEF Sockets
<1> HIDE DEF y, i
<1>4. SteadyAt(i, y)
  BY <1>2, <1>3 DEF SteadyAt, SlotInv, Alive, BufferEmpty
<1>5. ThreadSteady
  BY <1>1, <1>2, <1>4, SetSteady
<1>7. th'.pc = "poll"
  BY <1>1 DEF Polling
<1> QED
  BY <1>1, <1>5, <1>7 DEF ThreadStep, PipeSteady, ForceInv

LEMMA ExitCmdStep ==
  ASSUME BaseInv, ExitCmd
  PROVE  ThreadStep
<1>1. Ctrl({"exit"}) /\ th' = [Polling EXCEPT !.pc = "exit"] /\ UNCHANGED <<workVars, slot, alloc, ev>>
  BY DEF ExitCmd
<1>2. th'.pc = "exit"
  BY <1>1 DEF Polling
<1> QED
  BY <1>1, <1>2, RequestStep DEF Opening

(* Dispatching an event, with the thread back in its loop or in force_close. *)
LEMMA DispatchStep ==
  ASSUME BaseInv, NEW types, Event(types), "INVALID" \notin types, "RESERVE" \notin types, UNCHANGED alloc,
         \/ th' = Polling /\ ( \/ slot' = slot
                               \/ \E y : /\ slot' = [slot EXCEPT ![E0.slot] = y] /\ SteadyAt(E0.slot, y))
         \/ \E msg : BeginForceClose(E0.slot, msg, FALSE)
  PROVE  ThreadStep
<1> USE DEF BaseInv
<1>1. /\ Alive(E0.slot) /\ E0.slot \in Slots /\ ev # <<>> /\ UNCHANGED <<workVars, pipe>>
  BY LiveEvent
<1>2. Polling.pc = "poll"
  BY DEF Polling
<1>3. CASE th' = Polling /\ slot' = slot
  BY <1>1, <1>2, <1>3, SetSteady DEF ThreadStep, PipeSteady, ForceInv
<1>4. ASSUME th' = Polling, NEW y, slot' = [slot EXCEPT ![E0.slot] = y], SteadyAt(E0.slot, y)
      PROVE  ThreadStep
  <2>1. ThreadSteady
    BY <1>1, <1>4, SetSteady
  <2> QED
    BY <1>1, <1>2, <1>4, <2>1 DEF ThreadStep, PipeSteady, ForceInv
<1>5. ASSUME NEW msg, BeginForceClose(E0.slot, msg, FALSE)
      PROVE  ThreadStep
  <2>1. scene' = scene
    BY <1>1 DEF workVars
  <2> QED
    BY <1>1, <1>5, <2>1, BeginForceCloseStep DEF ThreadStep, PipeSteady
<1> QED
  BY <1>3, <1>4, <1>5

LEMMA ReportConnectStep ==
  ASSUME BaseInv, ReportConnect
  PROVE  ThreadStep
<1> USE DEF BaseInv
<1> DEFINE y == [Y EXCEPT !.type = "CONNECTED", !.writing = @ /\ ~NoMoreSendingData(Y)]
<1>1. /\ Event({"CONNECTING"}) /\ ev' = Tail(ev) /\ UNCHANGED alloc
      /\ \/ BeginForceClose(E0.slot, "err", FALSE)
         \/ th' = Polling /\ slot' = [slot EXCEPT ![E0.slot] = y]
  BY DEF ReportConnect, SetSlot
<1>2. Alive(E0.slot) /\ E0.slot \in Slots /\ Y \in Sockets /\ Y = slot[E0.slot] /\ Y.type = "CONNECTING" /\ ev # <<>>
  BY <1>1, LiveEvent
<1>3. y.id = Y.id /\ y.protocol = Y.protocol /\ y.tag = Y.tag /\ y.dw = Y.dw /\ y.type = "CONNECTED"
  BY <1>2 DEF Sockets
<1> HIDE DEF y
<1>4. SteadyAt(E0.slot, y)
  BY <1>2, <1>3 DEF SteadyAt, Alive, Early
<1> QED
  BY <1>1, <1>2, <1>4, DispatchStep

LEMMA SkippedStep ==
  ASSUME BaseInv, InvalidSocket \/ VoidEvent
  PROVE  ThreadStep
<1>1. /\ ev # <<>> /\ ev' = Tail(ev) /\ UNCHANGED <<workVars, slot, alloc, pipe>>
      /\ th' = Polling \/ (th' = th /\ th.pc = "poll")
  BY DEF InvalidSocket, VoidEvent, Event
<1>2. ThreadSteady
  BY <1>1, SetSteady DEF BaseInv
<1> QED
  BY <1>1, <1>2 DEF ThreadStep, PipeSteady, ForceInv, Polling

(* The steps that touch only where the thread is and the events it has left. *)
LEMMA QuietStep ==
  ASSUME BaseInv, ClearEvent \/ NoCommand
  PROVE  ThreadStep
<1>1. UNCHANGED <<workVars, slot, alloc, pipe>> /\ (th' = Polling \/ (th' = th /\ th.pc = "poll"))
  BY DEF ClearEvent, NoCommand
<1>2. ThreadSteady
  BY <1>1, SetSteady DEF BaseInv
<1> QED
  BY <1>1, <1>2 DEF ThreadStep, PipeSteady, ForceInv, Polling

LEMMA ReservedEventStep ==
  ASSUME BaseInv, ReservedEvent
  PROVE  ThreadStep
<1> USE DEF BaseInv
<1> DEFINE y == [Y EXCEPT !.writing = @ /\ ~(~E0.read /\ E0.write)]
<1>1. Event({"RESERVE"}) /\ th' = Polling /\ slot' = [slot EXCEPT ![E0.slot] = y] /\ UNCHANGED alloc
  BY DEF ReservedEvent, SetSlot
<1>2. E0.slot \in Slots /\ Y \in Sockets /\ Y = slot[E0.slot] /\ UNCHANGED <<workVars, pipe>>
  BY <1>1, EventType DEF Y
<1>3. /\ y.id = Y.id /\ y.protocol = Y.protocol /\ y.tag = Y.tag /\ y.type = Y.type
      /\ y.dw = Y.dw /\ y.high = Y.high /\ y.low = Y.low
  BY <1>2 DEF Sockets
<1> HIDE DEF y
<1>4. SteadyAt(E0.slot, y)
  BY <1>2, <1>3 DEF SteadyAt, SlotInv, Alive, BufferEmpty
<1>5. ThreadSteady
  BY <1>1, <1>2, <1>4, SetSteady
<1> QED
  BY <1>1, <1>2, <1>5 DEF ThreadStep, PipeSteady, ForceInv, Polling

(* An event of a reserved slot can only turn its write event off.          *)
LEMMA ReservedEventSlot ==
  ASSUME TypeOK, ReservedEvent
  PROVE  /\ E0.slot \in Slots /\ ~Alive(E0.slot) /\ th.pc # "force" /\ th' = Polling
         /\ UNCHANGED <<scene, wk, alloc, pipe, sent, told, freed>>
         /\ \E y : /\ slot' = [slot EXCEPT ![E0.slot] = y]
                  /\ y.high = slot[E0.slot].high /\ y.low = slot[E0.slot].low /\ y.dw = slot[E0.slot].dw
                  /\ y.type = slot[E0.slot].type /\ y.sending = slot[E0.slot].sending
<1>1. Event({"RESERVE"}) /\ th' = Polling /\ UNCHANGED <<alloc, told, freed>>
  BY DEF ReservedEvent
<1>2. PICK b : slot' = [slot EXCEPT ![E0.slot] = [Y EXCEPT !.writing = b]]
  BY DEF ReservedEvent, SetSlot
<1>3. /\ E0.slot \in Slots /\ Y = slot[E0.slot] /\ Y.type = "RESERVE" /\ Y \in Sockets
      /\ UNCHANGED <<scene, wk, pipe, sent>> /\ th.pc # "force"
  BY <1>1, EventType DEF Event, Y, workVars
<1>4. PICK y : y = [Y EXCEPT !.writing = b]
  OBVIOUS
<1>5. y.high = Y.high /\ y.low = Y.low /\ y.dw = Y.dw /\ y.type = Y.type /\ y.sending = Y.sending
  BY <1>3, <1>4 DEF Sockets
<1> QED
  BY <1>1, <1>2, <1>3, <1>4, <1>5 DEF Alive

LEMMA ReadTcpStep ==
  ASSUME BaseInv, ReadTcp
  PROVE  ThreadStep
<1> USE DEF BaseInv
<1>1. /\ Event(Plain) /\ UNCHANGED alloc /\ "INVALID" \notin Plain /\ "RESERVE" \notin Plain
      /\ \/ th' = Polling /\ slot' = slot
         \/ \E msg : BeginForceClose(E0.slot, msg, FALSE)
         \/ /\ Y.type \notin {"HALFCLOSE_READ", "HALFCLOSE_WRITE"}
            /\ th' = Polling /\ slot' = [slot EXCEPT ![E0.slot] = CloseRead(Y)]
  <2>1. Event(Plain) /\ UNCHANGED alloc /\ "INVALID" \notin Plain /\ "RESERVE" \notin Plain
    BY DEF ReadTcp, Plain
  <2> QED
    BY <2>1, Zenon DEF ReadTcp, SetSlot
<1>2. Alive(E0.slot) /\ E0.slot \in Slots /\ Y \in Sockets /\ Y = slot[E0.slot] /\ ev # <<>>
  BY <1>1, LiveEvent
<1>3. /\ CloseRead(Y).id = Y.id /\ CloseRead(Y).protocol = Y.protocol /\ CloseRead(Y).tag = Y.tag
      /\ CloseRead(Y).dw = Y.dw /\ CloseRead(Y).type = "HALFCLOSE_READ" /\ CloseRead(Y).writing = Y.writing
  BY <1>2 DEF Sockets, CloseRead
<1>4. SteadyAt(E0.slot, CloseRead(Y))
  BY <1>2, <1>3 DEF SteadyAt, Alive, Early
<1> QED
  BY <1>1, <1>2, <1>3, <1>4, DispatchStep

LEMMA ReadUdpStep ==
  ASSUME BaseInv, ReadUdp
  PROVE  ThreadStep
<1>1. Event(Plain) /\ UNCHANGED alloc /\ "INVALID" \notin Plain /\ "RESERVE" \notin Plain
  BY DEF ReadUdp, Plain
<1>3. \/ th' = Polling /\ slot' = slot
      \/ \E msg : BeginForceClose(E0.slot, msg, FALSE)
  BY DEF ReadUdp
<1> QED
  BY <1>1, <1>3, DispatchStep

LEMMA ErrorEventStep ==
  ASSUME BaseInv, ErrorEvent
  PROVE  ThreadStep
<1>1. Event(Plain) /\ UNCHANGED alloc /\ ev' = Tail(ev) /\ "INVALID" \notin Plain /\ "RESERVE" \notin Plain /\ ev # <<>>
  BY DEF ErrorEvent, Plain, Event
<1>2. \/ th' = Polling /\ slot' = slot
      \/ \E msg : BeginForceClose(E0.slot, msg, FALSE)
  BY Zenon DEF ErrorEvent
<1> QED
  BY <1>1, <1>2, DispatchStep

(* The two ways send_buffer can turn x into y: an error of write, and a     *)
(* write with outcomes h and l that leaves r.                              *)
ByError(x, y) == WriteError(x) /\ Y.protocol # "udp" /\ AfterError(x, y)

ByWrite(x, y, h, l, r) ==
  /\ Fits(h, x.high) /\ Fits(l, x.low) /\ WriteSome(x, h, l) /\ AfterWrite(x, h, l, r, y)
  /\ (h.m + h.drop < Len(x.high) /\ l = Nothing) \/ h.m + h.drop >= Len(x.high)
  /\ \E reset : LET udp == Y.protocol = "udp" IN h \in Outcomes(x.high, udp, reset) /\ (l = Nothing \/ l \in Outcomes(x.low, udp, reset))

(* What send_buffer does: x is the socket with the rest of a direct write  *)
(* put first.                                                              *)
LEMMA SendBufferWays ==
  ASSUME TypeOK, SendBuffer
  PROVE  \/ lock[E0.slot] # None /\ UNCHANGED <<slot, net, wire, told, freed, failed>>
         \/ /\ lock[E0.slot] = None
            /\ \E a \in Nat : \E x, y \in Sockets :
                 x = WithDirect(Y, a) /\ (ByError(x, y) \/ \E h, l, r : ByWrite(x, y, h, l, r))
<1>1. Y \in Sockets /\ E0.slot \in Slots
  BY SendBufferCases, EventType
<1>2. CASE lock[E0.slot] # None
  BY <1>2, SendBufferCases
<1>3. CASE lock[E0.slot] = None
  <2>1. PICK a \in Nat :
                    LET x == WithDirect(Y, a) IN
                    \/ net[x.id].rst # "no" /\ Y.protocol # "udp" /\ ~BufferEmpty(x) /\ WriteError(x)
                    \/ \E reset \in BOOLEAN :
                       \E h \in Outcomes(x.high, Y.protocol = "udp", reset) :
                         \/ h.m + h.drop < Len(x.high) /\ WriteSome(x, h, Nothing)
                         \/ /\ h.m + h.drop >= Len(x.high)
                            /\ \E l \in Outcomes(x.low, Y.protocol = "udp", reset) : WriteSome(x, h, l)
    BY <1>3, SendBufferCases
  <2>2. PICK x \in Sockets : x = WithDirect(Y, a)
    BY <1>1, WithDirectType
  <2>3. CASE WriteError(x) /\ Y.protocol # "udp"
    <3>1. PICK y \in Sockets : AfterError(x, y)
      BY <2>3, WriteErrorType
    <3>2. ByError(x, y)
      BY <2>3, <3>1 DEF ByError
    <3> QED
      BY <1>3, <2>2, <3>1, <3>2, Zenon
  <2>4. ASSUME NEW h, NEW l, NEW udp, NEW reset, udp = (Y.protocol = "udp"), h \in Outcomes(x.high, udp, reset),
               l = Nothing \/ l \in Outcomes(x.low, udp, reset), WriteSome(x, h, l),
               (h.m + h.drop < Len(x.high) /\ l = Nothing) \/ h.m + h.drop >= Len(x.high)
        PROVE  \E y \in Sockets : \E k, m, r : ByWrite(x, y, k, m, r)
    <3>1. x.high \in Seq(Buffers) /\ x.low \in Seq(Buffers)
      BY DEF Sockets
    <3>2. Fits(h, x.high) /\ Fits(l, x.low)
      BY <2>4, <3>1, OutcomeFits, Zenon
    <3>3. PICK r, y \in Sockets : AfterWrite(x, h, l, r, y)
      BY <2>4, <3>2, WriteSomeType, Zenon
    <3>4. ByWrite(x, y, h, l, r)
      BY <2>4, <3>2, <3>3, Zenon DEF ByWrite
    <3> QED
      BY <3>3, <3>4, Zenon
  <2>5. \/ WriteError(x) /\ Y.protocol # "udp"
        \/ \E h, l, udp, reset :
              /\ udp = (Y.protocol = "udp")
              /\ h \in Outcomes(x.high, udp, reset) /\ (l = Nothing \/ l \in Outcomes(x.low, udp, reset)) /\ WriteSome(x, h, l)
              /\ (h.m + h.drop < Len(x.high) /\ l = Nothing) \/ h.m + h.drop >= Len(x.high)
    BY <2>1, <2>2, Zenon
  <2> QED
    BY <1>3, <2>2, <2>3, <2>4, <2>5, Zenon
<1> QED
  BY <1>2, <1>3

LEMMA SendBufferStep ==
  ASSUME BaseInv, SendBuffer
  PROVE  ThreadStep
<1> USE DEF BaseInv
<1>1. Event(Plain) /\ UNCHANGED alloc /\ ev' = Tail(ev) /\ th' = Polling /\ "INVALID" \notin Plain /\ "RESERVE" \notin Plain
  BY SendBufferCases DEF Plain
<1>2. Alive(E0.slot) /\ E0.slot \in Slots /\ Y \in Sockets /\ Y = slot[E0.slot] /\ ev # <<>> /\ Y.type \in Plain
  BY <1>1, LiveEvent
<1>3. CASE slot' = slot
  BY <1>1, <1>2, <1>3, DispatchStep
<1>4. ASSUME NEW a \in Nat, NEW x \in Sockets, NEW y \in Sockets, lock[E0.slot] = None, x = WithDirect(Y, a),
             ByError(x, y) \/ \E h, l, r : ByWrite(x, y, h, l, r)
      PROVE  ThreadStep
  <2>1. Kept(Y, x) /\ x.type = Y.type /\ x.dw = None
    BY <1>2, <1>4, WithDirectType
  <2>2. /\ slot' = [slot EXCEPT ![E0.slot] = y] /\ Kept(x, y) /\ y.dw = x.dw
        /\ \/ y.type = "INVALID" /\ BufferEmpty(y)
           \/ y.type = x.type
           \/ y.type = "HALFCLOSE_WRITE" /\ x.type # "HALFCLOSE_READ"
    <3>1. CASE ByError(x, y)
      BY <3>1 DEF ByError, AfterError, BufferEmpty
    <3>2. ASSUME NEW h, NEW l, NEW r, ByWrite(x, y, h, l, r)
          PROVE  /\ slot' = [slot EXCEPT ![E0.slot] = y] /\ Kept(x, y) /\ y.dw = x.dw
                 /\ (y.type = "INVALID" /\ BufferEmpty(y)) \/ y.type = x.type
      <4>1. AfterWrite(x, h, l, r, y)
        BY <3>2 DEF ByWrite
      <4> QED
        BY <4>1 DEF AfterWrite, BufferEmpty
    <3> QED
      BY <1>4, <3>1, <3>2
  <2>3. y.id = Y.id /\ y.protocol = Y.protocol /\ y.tag = Y.tag
    BY <2>1, <2>2 DEF Kept
  <2>5. SteadyAt(E0.slot, y)
    BY <1>2, <1>4, <2>1, <2>2, <2>3 DEF SteadyAt, Alive, Early, Plain
  <2> QED
    BY <1>1, <1>2, <2>2, <2>5, DispatchStep
<1> QED
  BY <1>3, <1>4, SendBufferWays, Zenon

-----------------------------------------------------------------------------
(* Steps of the socket thread keep slots, requests, events and locks in order. *)

LEMMA ThreadBase ==
  ASSUME BaseInv, TypeOK', ThreadStep
  PROVE  BaseInv'
<1> USE DEF BaseInv
<1>1. ThreadSteady /\ PipeSteady /\ ForceInv' /\ UNCHANGED <<scene, lock, wk, alloc>>
  BY DEF ThreadStep, workVars
<1>2. SlotInv' /\ PipeInv'
  BY <1>1, SteadySlots
<1>3. Slots' = Slots /\ \A id : H(id)' = H(id)
  BY <1>1, SameScene DEF H, NSlot
<1>4. LockInv'
  BY <1>1, <1>3 DEF LockInv, ThreadSteady, SteadyAt, Alive, Early
<1> QED
  BY <1>1, <1>2, <1>4

-----------------------------------------------------------------------------
(* Steps of a worker that reserve no id do the same.                       *)

WorkStep ==
  /\ WorkSteady /\ PipeSteady /\ LockInv'
  /\ UNCHANGED <<scene, alloc, ev, th>>

LEMMA WorkBase ==
  ASSUME BaseInv, TypeOK', WorkStep
  PROVE  BaseInv'
<1> USE DEF BaseInv
<1>1. SlotInv' /\ PipeInv'
  BY SteadySlots DEF WorkStep
<1>4. ForceInv'
  <2>1. th.pc = "force" => th.slot \in Slots
    BY DEF TypeOK
  <2> QED
    BY <2>1 DEF ForceInv, WorkStep, WorkSteady, Alive, BufferEmpty
<1> QED
  BY <1>1, <1>4 DEF WorkStep

(* A step that takes and releases no lock.                                 *)
LEMMA WorkLock ==
  ASSUME BaseInv, WorkSteady, UNCHANGED <<scene, lock, alloc>>, \A i \in Slots : slot'[i].dw = slot[i].dw,
         \/ wk' = wk
         \/ \E w \in Workers : \E r : /\ wk' = [wk EXCEPT ![w] = r] /\ wk[w].pc \notin {"check", "write"}
                                      /\ r.pc \notin {"check", "write"} /\ (r.pc # "idle" => r.id \in 1 .. alloc)
  PROVE  LockInv'
<1> USE DEF BaseInv
<1>1. Slots' = Slots /\ \A id : H(id)' = H(id)
  BY SameScene DEF H, NSlot
<1>2. \A i \in Slots : slot'[i].type = slot[i].type /\ slot'[i].id = slot[i].id
  BY DEF WorkSteady
<1>3. CASE wk' = wk
  BY <1>1, <1>2, <1>3 DEF LockInv, Alive
<1>4. ASSUME NEW w \in Workers, NEW r, wk' = [wk EXCEPT ![w] = r], wk[w].pc \notin {"check", "write"},
             r.pc \notin {"check", "write"}, r.pc # "idle" => r.id \in 1 .. alloc
      PROVE  LockInv'
  <2>1. wk'[w] = r /\ \A v \in Workers : v # w => wk'[v] = wk[v]
    BY <1>4 DEF TypeOK
  <2>2. \A i \in Slots : lock[i] # None => lock[i] \in Workers /\ lock[i] # w
    BY <1>4 DEF TypeOK, LockInv
  <2> QED
    BY <1>1, <1>2, <1>4, <2>1, <2>2 DEF LockInv, Alive
<1> QED
  BY <1>3, <1>4

LEMMA SameSlots ==
  ASSUME slot' = slot
  PROVE  WorkSteady /\ \A i \in Slots : slot'[i].dw = slot[i].dw
BY DEF WorkSteady

(* A request to a socket that is there.                                    *)
LEMMA RequestWork ==
  ASSUME BaseInv, NEW w \in Workers, NEW id \in 1 .. alloc,
         (\E cmd \in {"R", "S", "K", "X"} : Request(w, id, cmd)) \/ Exit(w)
  PROVE  WorkStep
<1> USE DEF BaseInv
<1>1. UNCHANGED <<scene, slot, lock, alloc, ev, th, wk>>
  BY DEF Request, Exit, sockVars
<1>2. id \in Ids
  BY Scene DEF TypeOK, Ids
<1>3. \E r \in Requests : r.cmd \notin Opening /\ (r.cmd # "exit" => r.id \in 1 .. alloc) /\ Put(r)
  <2>1. CASE Exit(w)
    <3>1. [cmd |-> "exit"] \in Requests
      BY DEF Requests
    <3> QED
      BY <2>1, <3>1 DEF Exit, Opening
  <2>2. ASSUME NEW cmd \in {"R", "S", "K", "X"}, Request(w, id, cmd)
        PROVE  \E r \in Requests : r.cmd \notin Opening /\ (r.cmd # "exit" => r.id \in 1 .. alloc) /\ Put(r)
    <3>1. [cmd |-> cmd, id |-> id] \in Requests /\ cmd \notin Opening
      BY <1>2 DEF Requests, Opening
    <3> QED
      BY <2>2, <3>1 DEF Request
  <2> QED
    BY <2>1, <2>2
<1> QED
  BY <1>1, <1>3, SameSlots, WorkLock DEF WorkStep, PipeSteady

LEMMA PutRequestWork ==
  ASSUME BaseInv, NEW w \in Workers, PutRequest(w) \/ Resolve(w)
  PROVE  WorkStep
<1> USE DEF BaseInv
<1>1. /\ UNCHANGED <<scene, slot, lock, alloc, ev, th>> /\ wk' = [wk EXCEPT ![w] = Resting]
      /\ wk[w].pc \in {"put", "resolve"}
  BY DEF PutRequest, Resolve, sockVars, Goto
<1>2. wk[w].id \in 1 .. alloc /\ wk[w].id \in Ids /\ wk[w] \in WorkerRecs
  <2>1. wk[w].id \in 1 .. alloc
    BY <1>1 DEF LockInv
  <2> QED
    BY <2>1, Scene DEF TypeOK, Ids
<1>3. PipeSteady
  <2>1. CASE PutRequest(w)
    <3>1. wk[w].pc = "put" /\ Put([cmd |-> wk[w].cmd, id |-> wk[w].id, p |-> wk[w].p])
      BY <2>1 DEF PutRequest
    <3>2. wk[w].cmd \in Data \cup {"W"} /\ wk[w].p \in Nat
      BY <1>2, <3>1 DEF WorkerRecs, Working, Resting
    <3>3. [cmd |-> wk[w].cmd, id |-> wk[w].id, p |-> wk[w].p] \in Requests /\ wk[w].cmd \notin Opening
      BY <1>2, <3>2 DEF Requests, Opening, Data
    <3> QED
      BY <1>2, <3>1, <3>3 DEF PipeSteady
  <2>2. CASE Resolve(w)
    <3> DEFINE m == net[wk[w].id].conns + 1
    <3>1. pipe' = pipe \/ \E n \in {0, m} : Put([cmd |-> "C", id |-> wk[w].id, n |-> n])
      BY <2>2 DEF Resolve
    <3>2. m \in Nat
      BY <1>2 DEF TypeOK, NetRecs
    <3> HIDE DEF m
    <3>3. \A n \in {0, m} : [cmd |-> "C", id |-> wk[w].id, n |-> n] \in Requests /\ "C" \notin Opening
      BY <1>2, <3>2 DEF Requests, Opening
    <3> QED
      BY <1>2, <3>1, <3>3 DEF PipeSteady
  <2> QED
    BY <2>1, <2>2
<1>4. Resting.pc = "idle"
  BY DEF Resting
<1> QED
  BY <1>1, <1>3, <1>4, SameSlots, WorkLock DEF WorkStep

(* Sending, up to the double check.                                        *)
LEMMA SendingWork ==
  ASSUME BaseInv, NEW w \in Workers, NEW id \in 1 .. alloc, NEW kind, NEW bad \in BOOLEAN, NEW direct \in BOOLEAN,
         Sending(w, id, kind, bad, direct), direct \in TryDirect(slot[H(id)], id)
  PROVE  WorkStep
<1> USE DEF BaseInv
<1>1. UNCHANGED <<scene, slot, alloc, pipe, ev, th>> /\ wk[w].pc = "idle"
  BY DEF Sending, Call, Idle
<1>2. id \in Ids /\ H(id) \in Slots
  <2>1. id \in Ids
    BY Scene DEF TypeOK, Ids
  <2> QED
    BY <2>1, IdsAreNat DEF TypeOK
<1>3. CASE bad
  BY <1>1, <1>3, SameSlots, WorkLock DEF WorkStep, PipeSteady, Sending
<1> DEFINE r == [pc |-> IF direct THEN "check" ELSE Queueing(kind), id |-> id, p |-> Len(sent) + 1, cmd |-> kind]
<1>4. r.id = id /\ (IF direct THEN r.pc = "check" ELSE r.pc \in {"inc", "put"})
  BY DEF Queueing
<1>5. ~bad => wk' = [wk EXCEPT ![w] = r] /\ lock' = IF direct THEN [lock EXCEPT ![H(id)] = w] ELSE lock
  BY DEF Sending, Goto
<1> HIDE DEF r
<1>6. CASE ~bad /\ ~direct
  BY <1>1, <1>4, <1>5, <1>6, SameSlots, WorkLock DEF WorkStep, PipeSteady
<1>7. CASE ~bad /\ direct
  <2>1. lock[H(id)] = None /\ slot[H(id)].id = id /\ slot[H(id)].type = "CONNECTED"
    BY <1>7 DEF TryDirect, CanDirectWrite
  <2>2. wk'[w] = r /\ \A v \in Workers : v # w => wk'[v] = wk[v]
    BY <1>5, <1>7 DEF TypeOK
  <2>3. lock'[H(id)] = w /\ \A i \in Slots : i # H(id) => lock'[i] = lock[i]
    BY <1>2, <1>5, <1>7 DEF TypeOK
  <2>4. Slots' = Slots /\ \A n : H(n)' = H(n)
    BY <1>1, SameScene DEF H, NSlot
  <2>5. ASSUME NEW v \in Workers
        PROVE  /\ wk'[v].pc # "idle" => wk'[v].id \in 1 .. alloc
               /\ wk'[v].pc \in {"check", "write"} => lock'[H(wk'[v].id)] = v
    <3>1. CASE v = w
      BY <1>4, <2>2, <2>3, <3>1
    <3>2. CASE v # w
      <4>1. ASSUME wk[v].pc \in {"check", "write"} PROVE lock[H(wk[v].id)] = v /\ H(wk[v].id) \in Slots /\ H(wk[v].id) # H(id)
        <5>1. lock[H(wk[v].id)] = v /\ wk[v].id \in 1 .. alloc
          BY <4>1 DEF LockInv
        <5>2. wk[v].id \in Ids
          BY <5>1, Scene DEF TypeOK, Ids
        <5>3. H(wk[v].id) \in Slots
          BY <5>2, IdsAreNat DEF TypeOK
        <5> QED
          BY <2>1, <5>1, <5>3, SocketAssumption
      <4>2. wk'[v] = wk[v] /\ (wk[v].pc # "idle" => wk[v].id \in 1 .. alloc)
        BY <2>2, <3>2 DEF LockInv
      <4> QED
        BY <2>3, <4>1, <4>2
    <3> QED
      BY <3>1, <3>2
  <2>6. ASSUME NEW i \in Slots, lock'[i] # None
        PROVE  /\ wk'[lock'[i]].pc \in {"check", "write"} /\ H(wk'[lock'[i]].id) = i
               /\ slot[i].id = wk'[lock'[i]].id /\ Alive(i)
               /\ wk'[lock'[i]].pc = "write" => slot[i].dw = None /\ slot[i].type \notin {"CONNECTING", "PACCEPT", "PLISTEN", "LISTEN", "BIND"}
    <3>1. CASE i = H(id)
      BY <1>4, <1>7, <2>1, <2>2, <2>3, <3>1 DEF Alive
    <3>2. CASE i # H(id)
      <4>1. lock'[i] = lock[i] /\ lock[i] \in Workers /\ lock[i] # w
        <5>1. lock'[i] = lock[i] /\ lock[i] \in Workers
          BY <2>3, <2>6, <3>2 DEF TypeOK
        <5>2. wk[lock[i]].pc \in {"check", "write"}
          BY <2>6, <5>1 DEF LockInv
        <5> QED
          BY <1>1, <5>1, <5>2
      <4> QED
        BY <2>2, <2>6, <4>1 DEF LockInv
    <3> QED
      BY <3>1, <3>2
  <2>7. LockInv'
    BY <1>1, <2>4, <2>5, <2>6 DEF LockInv, Alive
  <2> QED
    BY <1>1, <2>7, SameSlots DEF WorkStep, PipeSteady
<1> QED
  BY <1>3, <1>6, <1>7

LEMMA SendWork ==
  ASSUME BaseInv, NEW w \in Workers, NEW id \in 1 .. alloc, Send(w, id) \/ SendLow(w, id) \/ UdpSend(w, id)
  PROVE  WorkStep
<1> DEFINE x == slot[H(id)]
<1>1. /\ (Invalid(x, id) \/ x.closing) \in BOOLEAN /\ Invalid(x, id) \in BOOLEAN
      /\ TryDirect(x, id) \subseteq BOOLEAN /\ FALSE \in TryDirect(x, id)
  <2>1. Invalid(x, id) \in BOOLEAN
    BY DEF Invalid
  <2>2. (Invalid(x, id) \/ x.closing) \in BOOLEAN
    OBVIOUS
  <2>3. TryDirect(x, id) \subseteq BOOLEAN /\ FALSE \in TryDirect(x, id)
    BY DEF TryDirect
  <2> QED
    BY <2>1, <2>2, <2>3
<1>2. CASE Send(w, id)
  BY <1>1, <1>2, SendingWork DEF Send
<1>3. CASE SendLow(w, id)
  BY <1>1, <1>3, SendingWork DEF SendLow
<1>4. CASE UdpSend(w, id)
  BY <1>1, <1>4, SendingWork DEF UdpSend
<1> QED
  BY <1>2, <1>3, <1>4

LEMMA UdpConnectWork ==
  ASSUME BaseInv, NEW w \in Workers, NEW id \in 1 .. alloc, UdpConnect(w, id)
  PROVE  WorkStep
<1> USE DEF BaseInv
<1> DEFINE r == [pc |-> "resolve", id |-> id, p |-> 0, cmd |-> "C"]
<1>1. /\ UNCHANGED <<scene, lock, alloc, pipe, ev, th>> /\ wk[w].pc = "idle" /\ wk' = [wk EXCEPT ![w] = r]
      /\ slot' = [slot EXCEPT ![H(id)].udpconnecting = @ + 1]
  BY DEF UdpConnect, Call, Idle, Goto
<1>2. r.pc = "resolve" /\ r.id = id
  OBVIOUS
<1> HIDE DEF r
<1>3. \A i \in Slots : \A f \in DOMAIN slot[i] : f # "udpconnecting" => slot'[i][f] = slot[i][f]
  BY <1>1 DEF TypeOK
<1>4. WorkSteady /\ \A i \in Slots : slot'[i].dw = slot[i].dw
  <2>1. \A i \in Slots : slot[i] \in Sockets
    BY DEF TypeOK
  <2>2. \A i \in Slots : DOMAIN slot[i] = {"type", "id", "protocol", "reading", "writing", "closing", "tag", "sending",
                                          "high", "low", "dw", "wb", "udpconnecting", "address"}
    BY <2>1 DEF Sockets
  <2> QED
    BY <1>3, <2>2 DEF WorkSteady
<1>5. r.pc \notin {"check", "write"} /\ wk[w].pc \notin {"check", "write"}
  BY <1>1, <1>2
<1>6. LockInv'
  BY <1>1, <1>2, <1>4, <1>5, WorkLock
<1> QED
  BY <1>1, <1>4, <1>6 DEF WorkStep, PipeSteady

LEMMA IncSendingWork ==
  ASSUME BaseInv, NEW w \in Workers, IncSending(w)
  PROVE  WorkStep
<1> USE DEF BaseInv
<1> DEFINE i == H(wk[w].id)
           r == [wk[w] EXCEPT !.pc = "put"]
<1>1. /\ UNCHANGED <<scene, lock, alloc, pipe, ev, th>> /\ wk[w].pc = "inc" /\ wk' = [wk EXCEPT ![w] = r]
      /\ slot' = slot \/ slot' = [slot EXCEPT ![i].sending = @ + 1]
  BY DEF IncSending, Goto
<1>2. wk[w] \in Working /\ wk[w].id \in 1 .. alloc
  BY <1>1, AtWork DEF TypeOK, LockInv
<1>3. r.pc = "put" /\ r.id = wk[w].id
  BY <1>2 DEF Working
<1> HIDE DEF r, i
<1>4. WorkSteady /\ \A j \in Slots : slot'[j].dw = slot[j].dw
  <2>1. \A j \in Slots : slot[j] \in Sockets
    BY DEF TypeOK
  <2>2. \A j \in Slots : DOMAIN slot[j] = {"type", "id", "protocol", "reading", "writing", "closing", "tag", "sending",
                                          "high", "low", "dw", "wb", "udpconnecting", "address"}
    BY <2>1 DEF Sockets
  <2>3. \A j \in Slots : \A f \in DOMAIN slot[j] : f # "sending" => slot'[j][f] = slot[j][f]
    <3>1. CASE slot' = slot
      BY <3>1
    <3>2. CASE slot' = [slot EXCEPT ![i].sending = @ + 1]
      BY <3>2 DEF TypeOK
    <3> QED
      BY <1>1, <3>1, <3>2
  <2> QED
    BY <2>2, <2>3 DEF WorkSteady
<1>5. r.pc \notin {"check", "write"} /\ wk[w].pc \notin {"check", "write"}
  BY <1>1, <1>3
<1>6. LockInv'
  BY <1>1, <1>2, <1>3, <1>4, <1>5, WorkLock
<1> QED
  BY <1>1, <1>4, <1>6 DEF WorkStep, PipeSteady

(* A worker with the lock gives it back.                                   *)
LEMMA WorkUnlock ==
  ASSUME BaseInv, WorkSteady, UNCHANGED <<scene, alloc>>, NEW w \in Workers,
         wk[w].pc \in {"check", "write"}, lock' = [lock EXCEPT ![H(wk[w].id)] = None],
         \E r : wk' = [wk EXCEPT ![w] = r] /\ r.pc \notin {"check", "write"} /\ (r.pc # "idle" => r.id \in 1 .. alloc),
         \A i \in Slots : i # H(wk[w].id) => slot'[i].dw = slot[i].dw
  PROVE  LockInv'
<1> USE DEF BaseInv
<1> PICK r : wk' = [wk EXCEPT ![w] = r] /\ r.pc \notin {"check", "write"} /\ (r.pc # "idle" => r.id \in 1 .. alloc)
  OBVIOUS
<1>1. Slots' = Slots /\ \A id : H(id)' = H(id)
  BY SameScene DEF H, NSlot
<1>2. \A i \in Slots : slot'[i].type = slot[i].type /\ slot'[i].id = slot[i].id
  BY DEF WorkSteady
<1>3. wk'[w] = r /\ \A v \in Workers : v # w => wk'[v] = wk[v]
  BY DEF TypeOK
<1>4. lock[H(wk[w].id)] = w /\ \A i \in Slots : lock'[i] = IF i = H(wk[w].id) THEN None ELSE lock[i]
  BY DEF TypeOK, LockInv
<1>5. ASSUME NEW v \in Workers
      PROVE  /\ wk'[v].pc # "idle" => wk'[v].id \in 1 .. alloc
             /\ wk'[v].pc \in {"check", "write"} => lock'[H(wk'[v].id)] = v
  <2>1. CASE v = w
    BY <1>3, <2>1
  <2>2. CASE v # w
    <3>1. wk'[v] = wk[v] /\ (wk[v].pc # "idle" => wk[v].id \in 1 .. alloc)
      BY <1>3, <2>2 DEF LockInv
    <3>2. ASSUME wk[v].pc \in {"check", "write"} PROVE lock'[H(wk[v].id)] = v
      <4>1. lock[H(wk[v].id)] = v /\ wk[v].id \in Ids
        <5>1. lock[H(wk[v].id)] = v /\ wk[v].id \in 1 .. alloc
          BY <3>2 DEF LockInv
        <5> QED
          BY <5>1, Scene DEF TypeOK, Ids
      <4>2. H(wk[v].id) \in Slots
        BY <4>1, IdsAreNat DEF TypeOK
      <4> QED
        BY <1>4, <2>2, <4>1, <4>2
    <3> QED
      BY <3>1, <3>2
  <2> QED
    BY <2>1, <2>2
<1>6. ASSUME NEW i \in Slots, lock'[i] # None
      PROVE  /\ wk'[lock'[i]].pc \in {"check", "write"} /\ H(wk'[lock'[i]].id) = i
             /\ slot[i].id = wk'[lock'[i]].id /\ Alive(i)
             /\ wk'[lock'[i]].pc = "write" => slot'[i].dw = None /\ slot[i].type \notin {"CONNECTING", "PACCEPT", "PLISTEN", "LISTEN", "BIND"}
  <2>1. i # H(wk[w].id) /\ lock'[i] = lock[i] /\ lock[i] \in Workers
    BY <1>4, <1>6 DEF TypeOK
  <2>2. lock[i] # w
    BY <1>6, <2>1 DEF LockInv
  <2>3. wk'[lock[i]] = wk[lock[i]] /\ slot'[i].dw = slot[i].dw
    BY <1>3, <2>1, <2>2
  <2> QED
    BY <1>6, <2>1, <2>3 DEF LockInv
<1> QED
  BY <1>1, <1>2, <1>5, <1>6 DEF LockInv, Alive

LEMMA HoldsLock ==
  ASSUME BaseInv, NEW w \in Workers, wk[w].pc \in {"check", "write"}
  PROVE  /\ wk[w] \in Working /\ wk[w].id \in 1 .. alloc /\ wk[w].id \in Ids /\ H(wk[w].id) \in Slots
         /\ lock[H(wk[w].id)] = w /\ w # None /\ Alive(H(wk[w].id)) /\ slot[H(wk[w].id)].id = wk[w].id
         /\ wk[w].pc = "write" => slot[H(wk[w].id)].dw = None /\ slot[H(wk[w].id)].type \notin Early
<1> USE DEF BaseInv
<1>1. wk[w] \in Working
  BY AtWork DEF TypeOK
<1>2. wk[w].id \in 1 .. alloc /\ lock[H(wk[w].id)] = w /\ w # None
  BY SocketAssumption DEF LockInv
<1>3. wk[w].id \in Ids
  BY <1>2, Scene DEF TypeOK, Ids
<1>4. H(wk[w].id) \in Slots
  BY <1>3, IdsAreNat DEF TypeOK
<1> QED
  BY <1>1, <1>2, <1>3, <1>4 DEF LockInv, Early

LEMMA DoubleCheckWork ==
  ASSUME BaseInv, NEW w \in Workers, DoubleCheck(w)
  PROVE  WorkStep
<1> USE DEF BaseInv
<1> DEFINE id == wk[w].id
           again == CanDirectWrite(slot[H(id)], id)
           r == [wk[w] EXCEPT !.pc = IF again THEN "write" ELSE Queueing(wk[w].cmd)]
<1>1. /\ UNCHANGED <<scene, slot, alloc, pipe, ev, th>> /\ wk[w].pc = "check" /\ wk' = [wk EXCEPT ![w] = r]
      /\ lock' = IF again THEN lock ELSE [lock EXCEPT ![H(id)] = None]
  BY DEF DoubleCheck, Goto
<1>2. wk[w] \in Working /\ id \in 1 .. alloc
  BY <1>1, HoldsLock
<1>3. r.id = id /\ (IF again THEN r.pc = "write" ELSE r.pc \in {"inc", "put"})
  BY <1>2 DEF Working, Queueing
<1> HIDE DEF r
<1>4. CASE ~again
  <2>2. /\ \E q : wk' = [wk EXCEPT ![w] = q] /\ q.pc \notin {"check", "write"} /\ (q.pc # "idle" => q.id \in 1 .. alloc)
        /\ UNCHANGED <<scene, alloc>> /\ wk[w].pc \in {"check", "write"}
        /\ WorkSteady /\ \A i \in Slots : i # H(wk[w].id) => slot'[i].dw = slot[i].dw
        /\ lock' = [lock EXCEPT ![H(wk[w].id)] = None]
    BY <1>1, <1>2, <1>3, <1>4, SameSlots
  <2>1. LockInv'
    BY <1>1, <2>2, WorkUnlock, Zenon
  <2> QED
    BY <1>1, <2>1, SameSlots DEF WorkStep, PipeSteady
<1>5. CASE again
  <2>1. slot[H(id)].dw = None /\ slot[H(id)].type = "CONNECTED"
    BY <1>5 DEF CanDirectWrite, NoMoreSendingData
  <2>2. wk'[w].pc = "write" /\ wk'[w].id = wk[w].id /\ \A v \in Workers : v # w => wk'[v] = wk[v]
    BY <1>1, <1>3, <1>5 DEF TypeOK
  <2>3. lock' = lock /\ \A i \in Slots : lock[i] \in Workers \cup {None}
    BY <1>1, <1>5 DEF TypeOK
  <2>4. Slots' = Slots /\ \A n : H(n)' = H(n)
    BY <1>1, SameScene DEF H, NSlot
  <2>5. ASSUME NEW v \in Workers
        PROVE  /\ wk'[v].id = wk[v].id /\ (wk'[v].pc = "idle" <=> wk[v].pc = "idle")
               /\ wk'[v].pc \in {"check", "write"} <=> wk[v].pc \in {"check", "write"}
    BY <1>1, <2>2
  <2>6. ASSUME NEW i \in Slots, lock[i] # None, wk'[lock[i]].pc = "write"
        PROVE  slot[i].dw = None /\ slot[i].type \notin {"CONNECTING", "PACCEPT", "PLISTEN", "LISTEN", "BIND"}
    <3>1. CASE lock[i] = w
      <4>1. i = H(id)
        BY <2>6, <3>1 DEF LockInv
      <4> QED
        BY <2>1, <4>1
    <3>2. CASE lock[i] # w
      BY <2>2, <2>3, <2>6, <3>2 DEF LockInv
    <3> QED
      BY <3>1, <3>2
  <2>7. LockInv'
    BY <1>1, <2>3, <2>4, <2>5, <2>6 DEF LockInv, Alive
  <2> QED
    BY <1>1, <2>7, SameSlots DEF WorkStep, PipeSteady
<1> QED
  BY <1>4, <1>5

(* What a direct write does to the slot and to the worker.                 *)
LEMMA DirectWriteSlot ==
  ASSUME TypeOK, NEW w \in Workers, DirectWrite(w)
  PROVE  /\ wk[w].pc = "write" /\ lock' = [lock EXCEPT ![H(wk[w].id)] = None]
         /\ UNCHANGED <<scene, alloc, pipe, ev, ctrl, th, net, told, conn, due, calls, moves, failed>>
         /\ \/ slot' = slot /\ wk' = [wk EXCEPT ![w] = Resting]
            \/ slot' = slot /\ wk' = [wk EXCEPT ![w] = [wk[w] EXCEPT !.pc = "put"]] /\ wk[w].cmd = "A"
            \/ \E n \in 0 .. Size(wk[w].p) :
                 /\ n # Size(wk[w].p) /\ wk[w].cmd # "A"
                 /\ slot' = [slot EXCEPT ![H(wk[w].id)].dw = Buffer(wk[w].p, n, 0)]
                 /\ wk' = [wk EXCEPT ![w] = [wk[w] EXCEPT !.pc = "inc", !.cmd = "W"]]
BY Zenon DEF DirectWrite, Goto

LEMMA DirectWriteWork ==
  ASSUME BaseInv, NEW w \in Workers, DirectWrite(w)
  PROVE  WorkStep
<1> USE DEF BaseInv
<1> DEFINE i == H(wk[w].id)
<1>1. /\ wk[w].pc = "write" /\ lock' = [lock EXCEPT ![i] = None] /\ UNCHANGED <<scene, alloc, pipe, ev, th>>
  BY DirectWriteSlot
<1>2. /\ wk[w] \in Working /\ wk[w].id \in 1 .. alloc /\ i \in Slots /\ Alive(i)
  BY <1>1, HoldsLock
<1>3. \E r : wk' = [wk EXCEPT ![w] = r] /\ r.pc \notin {"check", "write"} /\ (r.pc # "idle" => r.id \in 1 .. alloc)
  <2>1. Resting.pc = "idle"
    BY DEF Resting
  <2>2. [wk[w] EXCEPT !.pc = "put"].pc = "put" /\ [wk[w] EXCEPT !.pc = "put"].id = wk[w].id
    BY <1>2 DEF Working
  <2>3. [wk[w] EXCEPT !.pc = "inc", !.cmd = "W"].pc = "inc" /\ [wk[w] EXCEPT !.pc = "inc", !.cmd = "W"].id = wk[w].id
    BY <1>2 DEF Working
  <2> QED
    BY <1>2, <2>1, <2>2, <2>3, DirectWriteSlot
<1>4. slot' = slot \/ \E b : slot' = [slot EXCEPT ![i].dw = b]
  BY DirectWriteSlot
<1> HIDE DEF i
<1>5. WorkSteady /\ \A j \in Slots : j # i => slot'[j].dw = slot[j].dw
  <2>1. CASE slot' = slot
    BY <2>1, SameSlots
  <2>2. ASSUME NEW b, slot' = [slot EXCEPT ![i].dw = b]
        PROVE  WorkSteady /\ \A j \in Slots : j # i => slot'[j].dw = slot[j].dw
    <3>1. \A j \in Slots : DOMAIN slot[j] = {"type", "id", "protocol", "reading", "writing", "closing", "tag", "sending",
                                            "high", "low", "dw", "wb", "udpconnecting", "address"}
      <4>1. \A j \in Slots : slot[j] \in Sockets
        BY DEF TypeOK
      <4> QED
        BY <4>1 DEF Sockets
    <3>2. \A j \in Slots : \A f \in DOMAIN slot[j] : f # "dw" => slot'[j][f] = slot[j][f]
      BY <2>2 DEF TypeOK
    <3>3. \A j \in Slots : j # i => slot'[j] = slot[j]
      BY <2>2 DEF TypeOK
    <3> QED
      BY <1>2, <3>1, <3>2, <3>3 DEF WorkSteady
  <2> QED
    BY <1>4, <2>1, <2>2
<1>6. LockInv'
  <2>2. i = H(wk[w].id)
    BY DEF i
  <2>3. /\ UNCHANGED <<scene, alloc>> /\ wk[w].pc \in {"check", "write"}
        /\ lock' = [lock EXCEPT ![H(wk[w].id)] = None]
        /\ \A j \in Slots : j # H(wk[w].id) => slot'[j].dw = slot[j].dw
    BY <1>1, <1>5, <2>2
  <2> QED
    BY <1>3, <1>5, <2>3, WorkUnlock, Zenon
<1> QED
  BY <1>1, <1>5, <1>6 DEF WorkStep, PipeSteady

-----------------------------------------------------------------------------
(* Steps that give a slot to a new id.                                     *)

(* The next free id takes its slot, which becomes y.                       *)
OpenedAt(id, y) ==
  /\ id \in Ids /\ id > alloc /\ alloc' = id /\ H(id) \in Slots
  /\ slot[H(id)].type = "INVALID"
  /\ slot' = [slot EXCEPT ![H(id)] = y]
  /\ y.id = id /\ BufferEmpty(y) /\ y.dw = None
  /\ \/ /\ y.type = "RESERVE" /\ y.protocol = "unknown"
        /\ \E kind \in Opening : Put([cmd |-> kind, id |-> id])
     \/ y.type \in {"PACCEPT", "INVALID"} /\ pipe' = pipe

OpenStep ==
  /\ \E id : \E y \in Sockets : OpenedAt(id, y)
  /\ th' = th \/ th' = Polling
  /\ UNCHANGED <<scene, lock, wk>>

LEMMA OpenRequestOpen ==
  ASSUME BaseInv, NEW w \in Workers, NEW kind \in Opening, OpenRequest(w, kind)
  PROVE  OpenStep
<1> USE DEF BaseInv
<1>1. UNCHANGED <<scene, lock, ev, th, wk>>
  BY DEF OpenRequest
<1>2. PICK id \in FreeIds : id <= scene.ids /\ alloc' = id /\ slot' = Reserve(id) /\ Put([cmd |-> kind, id |-> id])
  BY DEF OpenRequest
<1>3. /\ id \in Ids /\ id \in Nat /\ id > alloc /\ H(id) \in Slots
      /\ slot[H(id)].type = "INVALID"
  BY <1>2, FreeIdType
<1>4. PICK y : y = [slot[H(id)] EXCEPT !.type = "RESERVE", !.id = id, !.protocol = "unknown", !.udpconnecting = 0]
  OBVIOUS
<1>5. slot[H(id)] \in Sockets
  BY <1>3 DEF TypeOK
<1>6. y \in Sockets
  BY <1>3, <1>4, <1>5, ReserveType
<1>7. slot' = [slot EXCEPT ![H(id)] = y]
  BY <1>2, <1>4 DEF Reserve
<1>8. /\ y.id = id /\ y.type = "RESERVE" /\ y.protocol = "unknown"
      /\ y.high = slot[H(id)].high /\ y.low = slot[H(id)].low /\ y.dw = slot[H(id)].dw
  BY <1>4, <1>5 DEF Sockets
<1>9. BufferEmpty(y) /\ y.dw = None
  BY <1>3, <1>8 DEF SlotInv, Alive, BufferEmpty
<1>10. OpenedAt(id, y)
  BY <1>2, <1>3, <1>7, <1>8, <1>9 DEF OpenedAt
<1> QED
  BY <1>1, <1>6, <1>10 DEF OpenStep

LEMMA ReportAcceptOpen ==
  ASSUME BaseInv, ReportAccept
  PROVE  (ThreadStep /\ UNCHANGED <<slot, pipe>>) \/ OpenStep
<1> USE DEF BaseInv
<1>1. /\ Event({"LISTEN"}) /\ ev' = Tail(ev) /\ th' = Polling /\ ev # <<>>
  BY DEF ReportAccept, Event
<1>2. UNCHANGED <<workVars, pipe>>
  BY <1>1 DEF Event
<1>3. CASE UNCHANGED <<slot, alloc>>
  BY <1>1, <1>2, <1>3, DispatchStep
<1>4. ASSUME NEW id \in FreeIds, Accept(id)
      PROVE  OpenStep
  <2> DEFINE x == Reserve(id)[H(id)]
             z == NewFd(x, id, "tcp", FALSE)
  <2>1. id <= scene.ids /\ alloc' = id
        /\ \E o \in {x, z} : \E type \in {"INVALID", "PACCEPT"} : slot' = [slot EXCEPT ![H(id)] = [o EXCEPT !.type = type]]
    BY <1>4 DEF Accept, SetSlot
  <2>2. /\ id \in Ids /\ id \in Nat /\ id > alloc /\ H(id) \in Slots
        /\ slot[H(id)].type = "INVALID"
    BY <2>1, FreeIdType
  <2>3. slot[H(id)] \in Sockets /\ Tag(id) \in Nat /\ BufferEmpty(slot[H(id)]) /\ slot[H(id)].dw = None
    BY <2>2, Hash DEF TypeOK, SlotInv, Alive
  <2>4. x \in Sockets /\ x.id = id /\ x.high = slot[H(id)].high /\ x.low = slot[H(id)].low /\ x.dw = slot[H(id)].dw
    <3>1. x = [slot[H(id)] EXCEPT !.type = "RESERVE", !.id = id, !.protocol = "unknown", !.udpconnecting = 0]
      BY <2>2 DEF Reserve, TypeOK
    <3> HIDE DEF x
    <3>2. x \in Sockets
      BY <2>2, <2>3, <3>1, ReserveType
    <3> QED
      BY <2>3, <3>1, <3>2 DEF Sockets
  <2> HIDE DEF x
  <2>5. z \in Sockets
    BY <2>2, <2>3, <2>4, NewFdType
  <2>6. z.id = id /\ z.high = x.high /\ z.low = x.low /\ z.dw = None
    BY <2>4 DEF NewFd, Sockets
  <2> HIDE DEF z
  <2>7. PICK o \in {x, z} : \E type \in {"INVALID", "PACCEPT"} : slot' = [slot EXCEPT ![H(id)] = [o EXCEPT !.type = type]]
    BY <2>1
  <2>8. PICK type \in {"INVALID", "PACCEPT"} : slot' = [slot EXCEPT ![H(id)] = [o EXCEPT !.type = type]]
    BY <2>7
  <2>9. PICK y : y = [o EXCEPT !.type = type]
    OBVIOUS
  <2>10. o \in Sockets /\ o.id = id /\ o.high = slot[H(id)].high /\ o.low = slot[H(id)].low /\ o.dw = None /\ type \in Types
    BY <2>3, <2>4, <2>5, <2>6 DEF Types
  <2>11. y \in Sockets
    BY <2>9, <2>10, Fields
  <2>12. y.id = id /\ y.high = slot[H(id)].high /\ y.low = slot[H(id)].low /\ y.dw = None /\ y.type = type
    BY <2>9, <2>10 DEF Sockets
  <2>13. BufferEmpty(y)
    BY <2>3, <2>12 DEF BufferEmpty
  <2>14. OpenedAt(id, y)
    BY <1>2, <2>1, <2>2, <2>8, <2>9, <2>12, <2>13 DEF OpenedAt
  <2> QED
    BY <1>1, <1>2, <2>11, <2>14 DEF OpenStep, workVars
<1>5. UNCHANGED <<slot, alloc>> \/ \E id \in FreeIds : Accept(id)
  BY Zenon DEF ReportAccept
<1> QED
  BY <1>3, <1>4, <1>5

LEMMA OpenBase ==
  ASSUME BaseInv, TypeOK', OpenStep
  PROVE  BaseInv'
<1> USE DEF BaseInv
<1>1. PICK id, y : OpenedAt(id, y)
  BY DEF OpenStep
<1>2. /\ id \in Ids /\ id > alloc /\ alloc' = id /\ H(id) \in Slots /\ alloc \in Nat /\ id \in Nat
      /\ slot[H(id)].type = "INVALID"
      /\ y.id = id /\ BufferEmpty(y) /\ y.dw = None
  BY <1>1, Scene DEF OpenedAt, TypeOK, Ids
<1>3. slot'[H(id)] = y /\ \A i \in Slots : i # H(id) => slot'[i] = slot[i]
  BY <1>1 DEF OpenedAt, TypeOK
<1>4. Slots' = Slots /\ \A n : H(n)' = H(n)
  BY SameScene DEF H, NSlot, OpenStep
<1>5. /\ \A k \in DOMAIN pipe : k \in DOMAIN pipe' /\ pipe'[k] = pipe[k]
      /\ \/ y.type \in {"PACCEPT", "INVALID"} /\ pipe' = pipe
         \/ \E kind \in Opening : /\ y.type = "RESERVE" /\ DOMAIN pipe' = 1 .. Len(pipe) + 1 /\ DOMAIN pipe = 1 .. Len(pipe) /\ Len(pipe) \in Nat
                                  /\ pipe'[Len(pipe) + 1] = [cmd |-> kind, id |-> id]
  <2>1. DOMAIN pipe = 1 .. Len(pipe) /\ Len(pipe) \in Nat
    BY PipeEntries
  <2>2. ASSUME NEW kind \in Opening, Put([cmd |-> kind, id |-> id])
        PROVE  /\ DOMAIN pipe' = 1 .. Len(pipe) + 1 /\ pipe'[Len(pipe) + 1] = [cmd |-> kind, id |-> id]
               /\ \A k \in DOMAIN pipe : k \in DOMAIN pipe' /\ pipe'[k] = pipe[k]
    <3>1. /\ DOMAIN pipe' = 1 .. Len(pipe) + 1 /\ pipe'[Len(pipe) + 1] = [cmd |-> kind, id |-> id]
          /\ \A k \in 1 .. Len(pipe) : pipe'[k] = pipe[k]
      BY <2>2, PipeEntries
    <3> QED
      BY <2>1, <3>1
  <2>3. \/ y.type \in {"PACCEPT", "INVALID"} /\ pipe' = pipe
        \/ y.type = "RESERVE" /\ \E kind \in Opening : Put([cmd |-> kind, id |-> id])
    BY <1>1 DEF OpenedAt
  <2> QED
    BY <2>1, <2>2, <2>3
<1>6. SlotInv'
  <2>1. ASSUME NEW i \in Slots, i # H(id)
        PROVE  /\ slot'[i].id \in 0 .. alloc'
               /\ slot'[i].type # "INVALID" => slot'[i].id \in 1 .. alloc' /\ H(slot'[i].id) = i
               /\ slot'[i].type \in {"INVALID", "RESERVE"} => BufferEmpty(slot'[i]) /\ slot'[i].dw = None
               /\ slot'[i].type = "RESERVE" => \E k \in DOMAIN pipe' : pipe'[k].cmd \in Opening /\ pipe'[k].id = slot'[i].id
    <3>1. \A n : (n \in 0 .. alloc => n \in 0 .. id) /\ (n \in 1 .. alloc => n \in 1 .. id)
      BY <1>2
    <3> QED
      BY <1>2, <1>3, <1>5, <2>1, <3>1 DEF SlotInv, Alive
  <2>2. /\ y.id \in 0 .. id /\ y.id \in 1 .. id
        /\ y.type = "RESERVE" => \E k \in DOMAIN pipe' : pipe'[k].cmd \in Opening /\ pipe'[k].id = id
    <3>1. id \in 1 .. id /\ id \in 0 .. id
      BY <1>2
    <3>2. ASSUME y.type = "RESERVE" PROVE \E k \in DOMAIN pipe' : pipe'[k].cmd \in Opening /\ pipe'[k].id = id
      <4>1. PICK kind \in Opening : /\ DOMAIN pipe' = 1 .. Len(pipe) + 1 /\ Len(pipe) \in Nat
                                    /\ pipe'[Len(pipe) + 1] = [cmd |-> kind, id |-> id]
        BY <1>5, <3>2
      <4>2. Len(pipe) + 1 \in DOMAIN pipe'
        BY <4>1
      <4> QED
        BY <4>1, <4>2
    <3> QED
      BY <1>2, <3>1, <3>2
  <2> QED
    BY <1>2, <1>3, <1>4, <2>1, <2>2 DEF SlotInv, Alive
<1>7. PipeInv'
  <2>1. ASSUME NEW k \in DOMAIN pipe
        PROVE  /\ pipe[k].cmd # "exit" => pipe[k].id \in 1 .. id
               /\ pipe[k].cmd \in Opening =>
                   /\ slot'[H(pipe[k].id)].type = "RESERVE" /\ slot'[H(pipe[k].id)].id = pipe[k].id
                   /\ \A l \in 1 .. k - 1 : pipe[l].cmd # "exit" => pipe[l].id # pipe[k].id
    <3>1. \A n : n \in 1 .. alloc => n \in 1 .. id
      BY <1>2
    <3>2. pipe[k].cmd \in Opening => H(pipe[k].id) \in Slots
      BY PipeEntries, IdsAreNat DEF TypeOK
    <3> QED
      BY <1>2, <1>3, <3>1, <3>2 DEF PipeInv
  <2>2. CASE pipe' = pipe
    BY <1>2, <1>4, <2>1, <2>2 DEF PipeInv
  <2>3. ASSUME NEW kind \in Opening, y.type = "RESERVE", DOMAIN pipe' = 1 .. Len(pipe) + 1, DOMAIN pipe = 1 .. Len(pipe), Len(pipe) \in Nat,
               pipe'[Len(pipe) + 1] = [cmd |-> kind, id |-> id]
        PROVE  PipeInv'
    <3>1. ASSUME NEW k \in DOMAIN pipe'
          PROVE  /\ pipe'[k].cmd # "exit" => pipe'[k].id \in 1 .. id
                 /\ pipe'[k].cmd \in Opening =>
                   /\ slot'[H(pipe'[k].id)].type = "RESERVE" /\ slot'[H(pipe'[k].id)].id = pipe'[k].id
                   /\ \A l \in 1 .. k - 1 : pipe'[l].cmd # "exit" => pipe'[l].id # pipe'[k].id
      <4>1. CASE k \in DOMAIN pipe
        <5>1. \A l \in 1 .. k - 1 : l \in DOMAIN pipe
          BY <2>3, <4>1
        <5> QED
          BY <1>5, <2>1, <4>1, <5>1
      <4>2. CASE k = Len(pipe) + 1
        <5>1. pipe'[k].cmd = kind /\ pipe'[k].id = id /\ id \in 1 .. id
          BY <1>2, <2>3, <4>2
        <5>2. \A l \in 1 .. k - 1 : pipe'[l] = pipe[l] /\ (pipe[l].cmd # "exit" => pipe[l].id \in 1 .. alloc)
          BY <1>5, <2>3, <4>2 DEF PipeInv
        <5>3. id \notin 1 .. alloc
          BY <1>2
        <5> QED
          BY <1>2, <1>3, <2>3, <5>1, <5>2, <5>3
      <4> QED
        BY <2>3, <4>1, <4>2
    <3> QED
      BY <1>2, <1>4, <3>1 DEF PipeInv
  <2> QED
    BY <1>5, <2>2, <2>3
<1>9. ForceInv'
  <2>1. th.pc = "force" => th.slot \in Slots
    BY DEF TypeOK
  <2> QED
    BY <1>2, <1>3, <2>1 DEF ForceInv, Alive, OpenStep, Polling
<1>10. LockInv'
  <2>1. lock[H(id)] = None
    BY <1>2 DEF LockInv, Alive
  <2>2. \A n \in 1 .. alloc : n \in 1 .. id
    BY <1>2
  <2> QED
    BY <1>2, <1>3, <1>4, <2>1, <2>2 DEF LockInv, OpenStep, Alive
<1> QED
  BY <1>6, <1>7, <1>9, <1>10

(* The request that opens an id is served: its slot becomes y, the socket  *)
(* of that id, or is given up.                                             *)
SetUpAt(y) ==
  /\ th.pc = "poll" /\ pipe # <<>> /\ Req.cmd \in Opening /\ pipe' = Tail(pipe)
  /\ Req.id \in Ids /\ H(Req.id) \in Slots
  /\ slot' = [slot EXCEPT ![H(Req.id)] = y]
  /\ y.id = Req.id /\ BufferEmpty(y) /\ y.dw = None
  /\ y.type \in {"INVALID", "CONNECTED", "CONNECTING", "PLISTEN", "BIND"}
  /\ UNCHANGED <<workVars, alloc, th>>

(* Its slot was reserved for it and waits for nothing else.                *)
LEMMA ReservedRequest ==
  ASSUME TypeOK, SlotInv, PipeInv, pipe # <<>>, Req.cmd \in Opening
  PROVE  /\ Req.id \in Ids /\ Req.id \in Nat /\ H(Req.id) \in Slots /\ X \in Sockets /\ X = slot[H(Req.id)]
         /\ X.type = "RESERVE" /\ X.id = Req.id /\ BufferEmpty(X) /\ X.dw = None
<1>1. Req.id \in Ids /\ Req.id \in Nat /\ H(Req.id) \in Slots /\ X \in Sockets /\ X = slot[H(Req.id)]
  BY ReqType, IdsAreNat DEF X, TypeOK, Opening
<1>2. 1 \in DOMAIN pipe /\ Req = pipe[1]
  BY DEF TypeOK, Req
<1>3. X.type = "RESERVE" /\ X.id = Req.id
  BY <1>1, <1>2 DEF PipeInv
<1> QED
  BY <1>1, <1>3 DEF SlotInv, Alive

LEMMA SetUpSlot ==
  ASSUME BaseInv, NEW cmd \in Opening, NEW protocol, protocol = (IF cmd = "U" THEN "udp" ELSE "tcp"),
         NEW reading \in BOOLEAN, NEW type \in {"INVALID", "CONNECTED", "CONNECTING", "PLISTEN", "BIND"}, NEW msg,
         SetUp(cmd, protocol, reading, type, msg)
  PROVE  \E y \in Sockets : SetUpAt(y)
<1> USE DEF BaseInv
<1>1. /\ th.pc = "poll" /\ pipe # <<>> /\ Req.cmd = cmd /\ pipe' = Tail(pipe)
      /\ slot' = [slot EXCEPT ![H(Req.id)] = [NewFd(X, Req.id, protocol, reading) EXCEPT !.type = type, !.address = 0,
                                                                            !.writing = (type = "CONNECTING")]]
      /\ UNCHANGED <<workVars, alloc, th>>
  BY DEF SetUp, Ctrl, SetSlot
<1>2. /\ Req.id \in Ids /\ Req.id \in Nat /\ H(Req.id) \in Slots /\ X \in Sockets /\ BufferEmpty(X)
      /\ Tag(Req.id) \in Nat /\ protocol \in {"tcp", "udp"}
  BY <1>1, ReservedRequest, Hash DEF TypeOK
<1>3. PICK z \in Sockets : z = NewFd(X, Req.id, protocol, reading)
  BY <1>2, NewFdType
<1>4. /\ z.id = Req.id /\ z.protocol = protocol /\ z.tag = Tag(Req.id) /\ z.sending = 0 /\ z.wb = 0 /\ z.dw = None
      /\ z.high = X.high /\ z.low = X.low
  BY <1>2, <1>3 DEF NewFd, Sockets
<1>5. PICK y : y = [z EXCEPT !.type = type, !.address = 0, !.writing = (type = "CONNECTING")]
  OBVIOUS
<1>6. type \in Types /\ 0 \in Nat /\ (type = "CONNECTING") \in BOOLEAN
  BY DEF Types
<1>7. y \in Sockets
  BY <1>5, <1>6, Fields, Zenon
<1>8. /\ y.id = z.id /\ y.protocol = z.protocol /\ y.tag = z.tag /\ y.sending = z.sending /\ y.wb = z.wb /\ y.dw = z.dw
      /\ y.high = z.high /\ y.low = z.low /\ y.type = type
  BY <1>5 DEF Sockets
<1>9. slot' = [slot EXCEPT ![H(Req.id)] = y]
  BY <1>1, <1>3, <1>5
<1>10. BufferEmpty(y)
  BY <1>2, <1>4, <1>8 DEF BufferEmpty
<1>11. SetUpAt(y)
  BY <1>1, <1>2, <1>4, <1>8, <1>9, <1>10 DEF SetUpAt
<1> QED
  BY <1>7, <1>11

LEMMA OpeningSlot ==
  ASSUME BaseInv, OpenSocket \/ ListenSocket \/ BindSocket \/ AddUdpSocket
  PROVE  \E y \in Sockets : SetUpAt(y)
<1> USE DEF BaseInv
<1>1. ASSUME NEW cmd \in Opening, NEW protocol, protocol = (IF cmd = "U" THEN "udp" ELSE "tcp"),
             NEW reading \in BOOLEAN, NEW type \in {"INVALID", "CONNECTED", "CONNECTING", "PLISTEN", "BIND"}, NEW msg,
             SetUp(cmd, protocol, reading, type, msg)
      PROVE  \E y \in Sockets : SetUpAt(y)
  BY <1>1, SetUpSlot
<1>2. ASSUME NEW cmd \in Opening, NoSocket(cmd)
      PROVE  \E y \in Sockets : SetUpAt(y)
  <2>1. /\ th.pc = "poll" /\ pipe # <<>> /\ Req.cmd \in Opening /\ pipe' = Tail(pipe)
        /\ slot' = [slot EXCEPT ![H(Req.id)] = [X EXCEPT !.type = "INVALID"]]
        /\ UNCHANGED <<workVars, alloc, th>>
    BY <1>2 DEF NoSocket, Ctrl, SetSlot
  <2>2. /\ Req.id \in Ids /\ H(Req.id) \in Slots /\ X \in Sockets /\ X.id = Req.id /\ BufferEmpty(X) /\ X.dw = None
    BY <2>1, ReservedRequest
  <2>3. PICK y : y = [X EXCEPT !.type = "INVALID"]
    OBVIOUS
  <2>4. "INVALID" \in Types
    BY DEF Types
  <2>5. y \in Sockets
    BY <2>2, <2>3, <2>4, Fields
  <2>6. /\ y.id = X.id /\ y.type = "INVALID" /\ y.protocol = X.protocol /\ y.tag = X.tag /\ y.sending = X.sending /\ y.dw = X.dw
        /\ y.high = X.high /\ y.low = X.low
    BY <2>2, <2>3 DEF Sockets
  <2>7. SetUpAt(y)
    BY <2>1, <2>2, <2>3, <2>6 DEF SetUpAt, BufferEmpty
  <2> QED
    BY <2>5, <2>7
<1>3. CASE OpenSocket
  BY <1>1, <1>2, <1>3 DEF OpenSocket, Opening
<1>4. CASE ListenSocket
  BY <1>1, <1>2, <1>4 DEF ListenSocket, Opening
<1>5. CASE BindSocket
  BY <1>1, <1>2, <1>5 DEF BindSocket, Opening
<1>6. CASE AddUdpSocket
  BY <1>1, <1>2, <1>6 DEF AddUdpSocket, Opening
<1> QED
  BY <1>3, <1>4, <1>5, <1>6

LEMMA SetUpBase ==
  ASSUME BaseInv, TypeOK', NEW y \in Sockets, SetUpAt(y)
  PROVE  BaseInv'
<1> USE DEF BaseInv
<1> DEFINE i == H(Req.id)
<1>1. /\ th.pc = "poll" /\ pipe # <<>> /\ Req.cmd \in Opening /\ pipe' = Tail(pipe)
      /\ y.id = Req.id /\ y.type # "RESERVE" /\ BufferEmpty(y) /\ y.dw = None
      /\ UNCHANGED <<scene, lock, wk, alloc, th>>
  BY DEF SetUpAt, workVars
<1>2. Req.id \in Ids /\ i \in Slots /\ slot[i].type = "RESERVE" /\ slot[i].id = Req.id
  BY <1>1, ReservedRequest
<1>3. slot'[i] = y /\ \A j \in Slots : j # i => slot'[j] = slot[j]
  BY <1>2 DEF TypeOK, SetUpAt
<1>4. Slots' = Slots /\ \A n : H(n)' = H(n)
  BY <1>1, SameScene DEF H, NSlot
<1>5. /\ \A k \in DOMAIN pipe' : k + 1 \in DOMAIN pipe /\ k + 1 # 1 /\ pipe'[k] = pipe[k + 1]
      /\ \A k \in DOMAIN pipe : k = 1 \/ (k - 1 \in DOMAIN pipe' /\ pipe'[k - 1] = pipe[k])
      /\ DOMAIN pipe = 1 .. Len(pipe) /\ Len(pipe) \in Nat /\ Len(pipe) > 0 /\ pipe[1] = Req
      /\ DOMAIN pipe' = 1 .. Len(pipe) - 1
  BY <1>1, PipeEntries
<1> HIDE DEF i
<1>6. SlotInv'
  <2>1. ASSUME NEW j \in Slots, j # i
        PROVE  /\ slot'[j].id \in 0 .. alloc
               /\ slot'[j].type # "INVALID" => slot'[j].id \in 1 .. alloc /\ H(slot'[j].id) = j
               /\ slot'[j].type \in {"INVALID", "RESERVE"} => BufferEmpty(slot'[j]) /\ slot'[j].dw = None
               /\ slot'[j].type = "RESERVE" => \E k \in DOMAIN pipe' : pipe'[k].cmd \in Opening /\ pipe'[k].id = slot'[j].id
    <3>1. slot'[j] = slot[j]
      BY <1>3, <2>1
    <3>2. ASSUME slot[j].type = "RESERVE" PROVE \E k \in DOMAIN pipe' : pipe'[k].cmd \in Opening /\ pipe'[k].id = slot[j].id
      <4>1. PICK k \in DOMAIN pipe : pipe[k].cmd \in Opening /\ pipe[k].id = slot[j].id
        BY <3>2 DEF SlotInv
      <4>2. H(slot[j].id) = j
        BY <3>2 DEF SlotInv
      <4>3. k # 1
        BY <1>5, <2>1, <4>1, <4>2 DEF i
      <4> QED
        BY <1>5, <4>1, <4>3
    <3> QED
      BY <3>1, <3>2 DEF SlotInv, Alive
  <2>2. Req.id \in 1 .. alloc /\ H(Req.id) = i /\ Req.id \in 0 .. alloc
    <3>1. slot[i].id \in 1 .. alloc /\ slot[i].id \in 0 .. alloc
      BY <1>2 DEF SlotInv
    <3> QED
      BY <1>2, <3>1 DEF i
  <2> QED
    BY <1>1, <1>3, <1>4, <2>1, <2>2 DEF SlotInv, Alive
<1>7. PipeInv'
  <2> SUFFICES ASSUME NEW k \in DOMAIN pipe'
               PROVE  /\ pipe'[k].cmd # "exit" => pipe'[k].id \in 1 .. alloc
                      /\ pipe'[k].cmd \in Opening =>
                          /\ slot'[H(pipe'[k].id)].type = "RESERVE" /\ slot'[H(pipe'[k].id)].id = pipe'[k].id
                          /\ \A l \in 1 .. k - 1 : pipe'[l].cmd # "exit" => pipe'[l].id # pipe'[k].id
    BY <1>1, <1>4 DEF PipeInv
  <2>1. k + 1 \in DOMAIN pipe /\ pipe'[k] = pipe[k + 1] /\ 1 \in 1 .. (k + 1) - 1
    BY <1>5
  <2>2. ASSUME NEW l \in 1 .. k - 1 PROVE pipe'[l] = pipe[l + 1] /\ l + 1 \in 1 .. (k + 1) - 1
    BY <1>5
  <2>3. ASSUME pipe'[k].cmd \in Opening
        PROVE  slot'[H(pipe'[k].id)].type = "RESERVE" /\ slot'[H(pipe'[k].id)].id = pipe'[k].id
    <3>1. H(pipe[k + 1].id) \in Slots
      BY <2>1, <2>3, PipeEntries, IdsAreNat DEF TypeOK
    <3>2. slot[H(pipe[k + 1].id)].type = "RESERVE" /\ slot[H(pipe[k + 1].id)].id = pipe[k + 1].id
      BY <2>1, <2>3 DEF PipeInv
    <3>3. pipe[1].id # pipe[k + 1].id
      BY <1>1, <1>5, <2>1, <2>3 DEF PipeInv, Opening
    <3>4. H(pipe[k + 1].id) # i
      BY <1>2, <1>5, <3>2, <3>3
    <3> QED
      BY <1>3, <2>1, <3>1, <3>2, <3>4
  <2> QED
    BY <2>1, <2>2, <2>3 DEF PipeInv
<1>9. ForceInv'
  BY <1>1 DEF ForceInv
<1>10. LockInv'
  <2>1. lock[i] = None
    BY <1>2 DEF LockInv, Alive
  <2> QED
    BY <1>1, <1>3, <1>4, <2>1 DEF LockInv, Alive
<1> QED
  BY <1>6, <1>7, <1>9, <1>10

-----------------------------------------------------------------------------
(* Waiting for events, and the network.                                    *)

LEMMA SpWaitBase ==
  ASSUME BaseInv, TypeOK', SpWait
  PROVE  BaseInv' /\ UNCHANGED <<workVars, slot, alloc, pipe, net, wire, told, sent, freed, failed>>
<1> USE DEF BaseInv
<1>1. /\ th.pc = "poll" /\ UNCHANGED <<workVars, slot, alloc, pipe, net, wire, told, sent, freed, failed>>
      /\ th' = th \/ th' = [th EXCEPT !.pc = "fresh"]
  BY Zenon DEF SpWait
<1>2. UNCHANGED <<scene, lock, wk>> /\ Slots' = Slots /\ \A n : H(n)' = H(n)
  BY <1>1, SameScene DEF workVars, H, NSlot
<1>3. th'.pc \in {"poll", "fresh"}
  BY <1>1 DEF TypeOK, Positions
<1>4. SlotInv' /\ PipeInv'
  <2>1. ThreadSteady /\ PipeSteady
    BY <1>1, SetSteady DEF PipeSteady
  <2> QED
    BY <1>1, <1>2, <2>1, SteadySlots
<1>5. ForceInv' /\ LockInv'
  BY <1>1, <1>2, <1>3 DEF ForceInv, LockInv, Alive
<1> QED
  BY <1>1, <1>4, <1>5

(* Nothing the invariants speak of changes.                                *)
LEMMA SameBase ==
  ASSUME BaseInv, TypeOK', UNCHANGED <<scene, slot, lock, alloc, pipe, th, wk>>
  PROVE  BaseInv'
BY SameScene DEF BaseInv, SlotInv, PipeInv, ForceInv, LockInv, Alive, H, NSlot, BufferEmpty

-----------------------------------------------------------------------------
(* Every step.                                                             *)

LEMMA WorkerWork ==
  ASSUME BaseInv, NEW w \in Workers, Worker(w)
  PROVE  WorkStep \/ OpenStep
<1>1. CASE Connect(w) \/ Listen(w) \/ BindFd(w) \/ Udp(w)
  BY <1>1, OpenRequestOpen DEF Connect, Listen, BindFd, Udp, Opening
<1>2. ASSUME NEW id \in 1 .. alloc, StartPause(w, id) \/ Close(w, id) \/ Shutdown(w, id)
      PROVE  WorkStep
  BY <1>2, RequestWork DEF StartPause, Close, Shutdown
<1>3. CASE Exit(w)
  <2>1. UNCHANGED <<scene, slot, lock, alloc, ev, th, wk>> /\ Put([cmd |-> "exit"])
    BY <1>3 DEF Exit, sockVars
  <2>2. PipeSteady
    <3>1. [cmd |-> "exit"] \in Requests
      BY DEF Requests
    <3> QED
      BY <2>1, <3>1 DEF PipeSteady, Opening
  <2> QED
    BY <2>1, <2>2, SameSlots, WorkLock DEF WorkStep
<1>4. ASSUME NEW id \in 1 .. alloc, Send(w, id) \/ SendLow(w, id) \/ UdpSend(w, id) \/ UdpConnect(w, id)
      PROVE  WorkStep
  BY <1>4, SendWork, UdpConnectWork
<1> QED
  BY <1>1, <1>2, <1>3, <1>4, DoubleCheckWork, DirectWriteWork, IncSendingWork, PutRequestWork DEF Worker

LEMMA ThreadMoves ==
  ASSUME BaseInv, SocketThread
  PROVE  ThreadStep \/ OpenStep \/ (\E y \in Sockets : SetUpAt(y)) \/ SpWait
BY OpeningSlot, CloseSocketStep, ResumeStep, AdjustStep, SendSocketStep, DecSendingStep, ExitCmdStep, ForceCloseStep,
   ReportConnectStep, ReportAcceptOpen, SkippedStep, ReadTcpStep, ReadUdpStep, SendBufferStep, ErrorEventStep,
   QuietStep, ReservedEventStep DEF SocketThread

LEMMA BaseNext ==
  ASSUME BaseInv, [Next]_vars
  PROVE  BaseInv'
<1>1. TypeOK'
  BY NextType DEF BaseInv
<1>2. CASE UNCHANGED vars
  BY <1>1, <1>2, SameBase DEF vars
<1>3. CASE \E w \in Workers : Worker(w)
  BY <1>1, <1>3, WorkerWork, WorkBase, OpenBase
<1>4. CASE SocketThread
  BY <1>1, <1>4, ThreadMoves, ThreadBase, OpenBase, SetUpBase, SpWaitBase
<1>5. CASE \E id \in Ids : Network(id)
  BY <1>1, <1>5, SameBase DEF Network
<1> QED
  BY <1>2, <1>3, <1>4, <1>5 DEF Next

LEMMA BaseInit == Init => BaseInv
<1> SUFFICES ASSUME Init PROVE BaseInv
  OBVIOUS
<1>1. TypeOK
  BY InitTypes
<1>2. /\ slot = [i \in Slots |-> FreshSlot] /\ lock = [i \in Slots |-> None] /\ pipe = <<>> /\ ev = <<>> /\ th = Polling
      /\ wk = [w \in Workers |-> Resting] /\ alloc = 0
  BY DEF Init
<1>3. /\ FreshSlot.id = 0 /\ FreshSlot.type = "INVALID" /\ FreshSlot.high = <<>> /\ FreshSlot.low = <<>> /\ FreshSlot.dw = None
  BY DEF FreshSlot
<1>4. Polling.pc = "poll" /\ Resting.pc = "idle"
  BY DEF Polling, Resting
<1>5. SlotInv
  BY <1>2, <1>3 DEF SlotInv, Alive, BufferEmpty
<1>6. PipeInv /\ ForceInv /\ LockInv
  BY <1>2, <1>4 DEF PipeInv, ForceInv, LockInv
<1> QED
  BY <1>1, <1>5, <1>6 DEF BaseInv

(* Every request finds its socket: an id is reserved until the request that *)
(* opens it is served, no request for it overtakes that one, and a locked or *)
(* closing slot is in use.                                                 *)
THEOREM SocketBase == Spec => []BaseInv
<1>1. Init => BaseInv
  BY BaseInit
<1>2. BaseInv /\ [Next]_vars => BaseInv'
  BY BaseNext
<1> QED
  BY <1>1, <1>2, PTL DEF Spec

-----------------------------------------------------------------------------
(* The owner of an id is told once that it is closed.                      *)

CloseInv ==
  \A id \in Ids :
    /\ told[id].close > 0 => id <= alloc
    /\ told[id].close <= 1
    /\ told[id].close = 1 =>
         \/ slot[H(id)].id # id
         \/ slot[H(id)].type = "INVALID"
         \/ slot[H(id)].type = "HALFCLOSE_READ" /\ (Forced(H(id)) => th.msg # "close")

(* Only the owner of a socket that ends, or of one that will not be read   *)
(* from any more, is told.                                                 *)
ToldRight ==
  \A id \in Ids :
    \/ told'[id].close = told[id].close
    \/ /\ told'[id].close = told[id].close + 1
       /\ slot[H(id)].id = id /\ Alive(H(id))
       /\ slot[H(id)].type # "HALFCLOSE_READ" \/ (Forced(H(id)) /\ th.msg = "close")
       /\ th'.pc # "force"
       /\ slot'[H(id)].type \in {"INVALID", "HALFCLOSE_READ"}

(* force_close tells no owner that was told already.                       *)
ForceRight ==
  th'.pc = "force" => th' = th \/ th'.msg # "close" \/ slot'[th'.slot].type # "HALFCLOSE_READ"

LEMMA Tells ==
  ASSUME TypeOK, NEW id, NEW msg, Tell(id, msg)
  PROVE  \A n \in Ids : told'[n].close = told[n].close + (IF n = id /\ msg = "close" THEN 1 ELSE 0)
<1> SUFFICES ASSUME NEW n \in Ids
             PROVE  told'[n].close = told[n].close + (IF n = id /\ msg = "close" THEN 1 ELSE 0)
  OBVIOUS
<1>1. told \in [Ids -> ToldRecs] /\ told[n] \in ToldRecs /\ told[n].close \in Nat
  BY DEF TypeOK, ToldRecs
<1>2. CASE n # id \/ id \notin Ids
  <2>1. told'[n] = told[n]
    BY <1>1, <1>2 DEF Tell
  <2> QED
    BY <1>1, <1>2, <2>1
<1>3. CASE n = id /\ id \in Ids
  <2> DEFINE c == told[id].close + (IF msg = "close" THEN 1 ELSE 0)
             o == told[id].open \/ msg = "open"
  <2>1. told' = [told EXCEPT ![id] = [told[id] EXCEPT !.open = o, !.close = c]]
    BY <1>3 DEF Tell
  <2> HIDE DEF o, c
  <2>2. told'[id].close = c
    BY <1>1, <1>3, <2>1 DEF ToldRecs
  <2> QED
    BY <1>1, <1>3, <2>2 DEF c
<1> QED
  BY <1>2, <1>3

LEMMA TellsOther ==
  ASSUME TypeOK, told' = told \/ \E id, msg : Tell(id, msg) /\ msg # "close"
  PROVE  ToldRight
<1>1. ASSUME NEW id, NEW msg, Tell(id, msg), msg # "close", NEW n \in Ids
      PROVE  told'[n].close = told[n].close
  <2>1. told[n].close \in Nat
    BY DEF TypeOK, ToldRecs
  <2> QED
    BY <1>1, <2>1, Tells
<1> QED
  BY <1>1 DEF ToldRight

(* Telling the owner of slot i.                                            *)
LEMMA TellsOwner ==
  ASSUME TypeOK, NEW i \in Slots, NEW msg, Tell(slot[i].id, msg), Alive(i), SlotInv,
         msg = "close" => /\ slot[i].type # "HALFCLOSE_READ" \/ (Forced(i) /\ th.msg = "close")
                          /\ th'.pc # "force"
                          /\ slot'[i].type \in {"INVALID", "HALFCLOSE_READ"}
  PROVE  ToldRight
<1>1. H(slot[i].id) = i
  BY DEF SlotInv, Alive
<1>2. \A n \in Ids : told[n].close \in Nat
  BY DEF TypeOK, ToldRecs
<1> QED
  BY <1>1, <1>2, Tells DEF ToldRight

LEMMA ForceCloseTold ==
  ASSUME BaseInv, ForceClose
  PROVE  ToldRight /\ ForceRight
<1> USE DEF BaseInv
<1> DEFINE i == th.slot
<1>1. /\ th.pc = "force" /\ Tell(slot[i].id, th.msg)
      /\ th' = IF th.ctrl THEN [th EXCEPT !.pc = "clear", !.id = slot[i].id] ELSE Polling
      /\ slot' = [slot EXCEPT ![i] = [slot[i] EXCEPT !.type = "INVALID", !.dw = None]]
  BY DEF ForceClose, SetSlot
<1>2. i \in Slots /\ Alive(i) /\ Forced(i) /\ slot[i] \in Sockets
  BY <1>1 DEF TypeOK, ForceInv, Forced
<1>3. slot'[i].type = "INVALID"
  BY <1>1, <1>2 DEF TypeOK, Sockets
<1>4. th'.pc # "force"
  BY <1>1 DEF Polling, TypeOK, Positions
<1> QED
  BY <1>1, <1>2, <1>3, <1>4, TellsOwner DEF ForceRight

LEMMA BeginForceTold ==
  ASSUME TypeOK, SlotInv, scene' = scene, told' = told, NEW i \in Slots, Alive(i), NEW msg, NEW ctl, BeginForceClose(i, msg, ctl),
         msg # "close" \/ slot[i].type # "HALFCLOSE_READ"
  PROVE  ToldRight /\ ForceRight
<1>1. slot'[i].type = slot[i].type /\ th' = [pc |-> "force", slot |-> i, id |-> 0, msg |-> msg, ctrl |-> ctl]
  BY BeginForceCloseStep
<1>2. th'.slot = i /\ th'.msg = msg
  BY <1>1
<1> QED
  BY <1>1, <1>2, TellsOther DEF ForceRight

LEMMA CloseSocketTold ==
  ASSUME BaseInv, CloseSocket
  PROVE  ToldRight /\ ForceRight
<1> USE DEF BaseInv
<1>1. pipe # <<>> /\ Req.cmd \in {"K", "X"} /\ th.pc = "poll" /\ UNCHANGED workVars
  BY DEF CloseSocket, Ctrl
<1>2. CASE UNCHANGED <<told, th>>
  BY <1>1, <1>2, TellsOther DEF ForceRight
<1>3. CASE ~Invalid(X, Req.id) /\ BeginForceClose(H(Req.id), IF X.type = "HALFCLOSE_READ" THEN "none" ELSE "close", TRUE) /\ UNCHANGED told
  <2>1. Alive(H(Req.id)) /\ H(Req.id) \in Slots /\ X = slot[H(Req.id)]
    BY <1>1, <1>3, LiveRequest DEF X, Opening
  <2>2. scene' = scene
    BY <1>1 DEF workVars
  <2> QED
    BY <1>3, <2>1, <2>2, BeginForceTold
<1>4. CASE /\ ~Invalid(X, Req.id) /\ UNCHANGED th
           /\ SetSlot(H(Req.id), IF X.type = "HALFCLOSE_READ" THEN [X EXCEPT !.closing = TRUE]
                                 ELSE [CloseRead(X) EXCEPT !.closing = TRUE])
           /\ Tell(Req.id, IF X.type = "HALFCLOSE_READ" THEN "none" ELSE "close")
  <2>1. Alive(H(Req.id)) /\ H(Req.id) \in Slots /\ X \in Sockets /\ X = slot[H(Req.id)] /\ X.id = Req.id
    BY <1>1, <1>4, LiveRequest DEF X, Opening
  <2>2. CASE X.type = "HALFCLOSE_READ"
    <3>1. Tell(Req.id, "none")
      BY <1>4, <2>2
    <3> QED
      BY <1>1, <1>4, <3>1, TellsOther DEF ForceRight
  <2>3. CASE X.type # "HALFCLOSE_READ"
    <3>1. slot'[H(Req.id)] = [CloseRead(X) EXCEPT !.closing = TRUE] /\ Tell(slot[H(Req.id)].id, "close")
      BY <1>4, <2>1, <2>3 DEF SetSlot, TypeOK
    <3>2. slot'[H(Req.id)].type = "HALFCLOSE_READ"
      BY <2>1, <3>1 DEF CloseRead, Sockets
    <3> QED
      BY <1>1, <1>4, <2>1, <2>3, <3>1, <3>2, TellsOwner DEF ForceRight
  <2> QED
    BY <2>2, <2>3
<1> QED
  BY <1>2, <1>3, <1>4, Zenon DEF CloseSocket

LEMMA ReadTcpTold ==
  ASSUME BaseInv, ReadTcp
  PROVE  ToldRight /\ ForceRight
<1> USE DEF BaseInv
<1>1. Event(Plain) /\ "INVALID" \notin Plain /\ "RESERVE" \notin Plain
  BY DEF ReadTcp, Plain
<1>2. Alive(E0.slot) /\ E0.slot \in Slots /\ Y \in Sockets /\ Y = slot[E0.slot] /\ UNCHANGED workVars
  BY <1>1, LiveEvent
<1>3. Polling.pc = "poll"
  BY DEF Polling
<1>4. CASE th' = Polling /\ UNCHANGED told
  BY <1>3, <1>4, TellsOther DEF ForceRight
<1>5. ASSUME NEW msg, BeginForceClose(E0.slot, msg, FALSE), UNCHANGED told, msg # "close" \/ Y.type = "HALFCLOSE_WRITE"
      PROVE  ToldRight /\ ForceRight
  <2>1. scene' = scene
    BY <1>2 DEF workVars
  <2> QED
    BY <1>2, <1>5, <2>1, BeginForceTold
<1>6. CASE Y.type # "HALFCLOSE_READ" /\ th' = Polling /\ SetSlot(E0.slot, CloseRead(Y)) /\ Tell(Y.id, "close")
  <2>1. slot'[E0.slot].type = "HALFCLOSE_READ"
    <3>1. slot'[E0.slot] = CloseRead(Y)
      BY <1>2, <1>6 DEF SetSlot, TypeOK
    <3> QED
      BY <1>2, <3>1 DEF CloseRead, Sockets
  <2> QED
    BY <1>2, <1>3, <1>6, <2>1, TellsOwner DEF ForceRight
<1>7. \/ th' = Polling /\ UNCHANGED told
      \/ \E msg : BeginForceClose(E0.slot, msg, FALSE) /\ UNCHANGED told /\ (msg # "close" \/ Y.type = "HALFCLOSE_WRITE")
      \/ Y.type # "HALFCLOSE_READ" /\ th' = Polling /\ SetSlot(E0.slot, CloseRead(Y)) /\ Tell(Y.id, "close")
  <2>1. "none" # "close"
    OBVIOUS
  <2> QED
    BY <2>1, Zenon DEF ReadTcp
<1> QED
  BY <1>4, <1>5, <1>6, <1>7

(* The steps of the socket thread that tell nobody of a close.             *)
LEMMA QuietTold ==
  ASSUME BaseInv,
         \/ Resume \/ Pause \/ TriggerWrite \/ SetUdpAddress \/ SendSocket \/ DecSending \/ ExitCmd
         \/ ReportConnect \/ InvalidSocket \/ VoidEvent \/ ReadUdp \/ SendBuffer \/ ErrorEvent
         \/ ClearEvent \/ NoCommand \/ ReservedEvent
  PROVE  ToldRight /\ ForceRight
<1> USE DEF BaseInv
<1>1. Polling.pc = "poll"
  BY DEF Polling
<1>2. CASE Resume
  <2>1. /\ th.pc = "poll" /\ th' = th
        /\ told' = told \/ \E msg : Tell(Req.id, msg) /\ msg # "close"
    <3>1. (IF X.type \in {"PACCEPT", "PLISTEN", "CONNECTED"} THEN "open" ELSE "none") # "close"
      OBVIOUS
    <3> QED
      BY <1>2, <3>1, Zenon DEF Resume, Ctrl
  <2> QED
    BY <2>1, TellsOther DEF ForceRight
<1>3. CASE Pause \/ TriggerWrite \/ SetUdpAddress
  <2>1. th' = th /\ told' = told
    BY <1>3 DEF Pause, TriggerWrite, SetUdpAddress, Adjust
  <2> QED
    BY <2>1, TellsOther DEF ForceRight
<1>4. CASE SendSocket \/ DecSending \/ ExitCmd
  <2>1. told' = told /\ th'.pc # "force"
    <3>1. CASE SendSocket
      <4>1. th.pc = "poll" /\ told' = told /\ (th' = th \/ th' = [th EXCEPT !.pc = "dec", !.slot = H(Req.id), !.id = Req.id])
        BY <3>1 DEF SendSocket, Ctrl
      <4> QED
        BY <4>1 DEF TypeOK, Positions
    <3>2. CASE DecSending
      BY <1>1, <3>2 DEF DecSending
    <3>3. CASE ExitCmd
      BY <3>3 DEF ExitCmd, Polling
    <3> QED
      BY <1>4, <3>1, <3>2, <3>3
  <2> QED
    BY <2>1, TellsOther DEF ForceRight
<1>5. CASE InvalidSocket \/ VoidEvent \/ SendBuffer \/ ClearEvent \/ NoCommand \/ ReservedEvent
  <2>1. told' = told /\ (th' = th \/ th' = Polling)
    <3>1. CASE InvalidSocket \/ VoidEvent \/ ClearEvent \/ NoCommand \/ ReservedEvent
      BY <3>1 DEF InvalidSocket, VoidEvent, ClearEvent, NoCommand, ReservedEvent
    <3>2. CASE SendBuffer
      <4>1. th' = Polling
        BY <3>2 DEF SendBuffer
      <4>2. ASSUME NEW x, NEW y, ByError(x, y) \/ \E h, l, r : ByWrite(x, y, h, l, r)
            PROVE  told' = told
        BY <4>2 DEF ByError, ByWrite, AfterError, AfterWrite
      <4> QED
        BY <3>2, <4>1, <4>2, SendBufferWays, Zenon
    <3> QED
      BY <1>5, <3>1, <3>2
  <2> QED
    BY <1>1, <2>1, TellsOther DEF ForceRight
<1>6. CASE ReportConnect \/ ReadUdp \/ ErrorEvent
  <2>1. Event({"CONNECTING"}) \/ Event(Plain)
    BY <1>6 DEF ReportConnect, ReadUdp, ErrorEvent
  <2>2. Alive(E0.slot) /\ E0.slot \in Slots /\ Y \in Sockets /\ Y = slot[E0.slot] /\ UNCHANGED workVars
    <3>1. "INVALID" \notin Plain /\ "RESERVE" \notin Plain /\ "INVALID" \notin {"CONNECTING"}
      BY DEF Plain
    <3> QED
      BY <2>1, <3>1, LiveEvent
  <2>3. \/ th' = Polling /\ (told' = told \/ Tell(Y.id, "open"))
        \/ \E msg : BeginForceClose(E0.slot, msg, FALSE) /\ told' = told /\ (msg # "close" \/ Y.type # "HALFCLOSE_READ")
    <3>1. CASE ReportConnect
      <4>1. "err" # "close"
        OBVIOUS
      <4> QED
        BY <3>1, <4>1, Zenon DEF ReportConnect
    <3>2. CASE ReadUdp
      <4>1. "err" # "close"
        OBVIOUS
      <4> QED
        BY <3>2, <4>1, Zenon DEF ReadUdp
    <3>3. CASE ErrorEvent
      <4>1. "none" # "close"
        OBVIOUS
      <4> QED
        BY <3>3, <4>1, Zenon DEF ErrorEvent
    <3> QED
      BY <1>6, <3>1, <3>2, <3>3
  <2>4. ASSUME NEW msg, BeginForceClose(E0.slot, msg, FALSE), told' = told, msg # "close" \/ Y.type # "HALFCLOSE_READ"
        PROVE  ToldRight /\ ForceRight
    <3>1. scene' = scene
      BY <2>2 DEF workVars
    <3> QED
      BY <2>2, <2>4, <3>1, BeginForceTold
  <2>5. CASE th' = Polling /\ (told' = told \/ Tell(Y.id, "open"))
    BY <1>1, <2>5, TellsOther DEF ForceRight
  <2> QED
    BY <2>3, <2>4, <2>5
<1> QED
  BY <1>2, <1>3, <1>4, <1>5, <1>6

(* The owner of no id is told of a close.                                  *)
ToldKept == \A id \in Ids : told'[id].close = told[id].close

LEMMA WorkerTold ==
  ASSUME BaseInv, NEW w \in Workers, Worker(w)
  PROVE  ToldKept
<1> USE DEF BaseInv
<1>1. ASSUME NEW kind, OpenRequest(w, kind) PROVE ToldKept
  <2>1. PICK id : told' = [told EXCEPT ![id].open = (kind = "U"), ![id].start = (kind = "L")]
    BY <1>1 DEF OpenRequest
  <2>2. \A n \in Ids : told[n] \in ToldRecs
    BY DEF TypeOK
  <2>3. \A t \in ToldRecs : [t EXCEPT !.open = (kind = "U"), !.start = (kind = "L")].close = t.close
    BY DEF ToldRecs
  <2>4. CASE id \in Ids
    <3>1. told' = [told EXCEPT ![id] = [told[id] EXCEPT !.open = (kind = "U"), !.start = (kind = "L")]]
      BY <2>1, <2>4 DEF TypeOK
    <3> QED
      BY <2>2, <2>3, <3>1 DEF ToldKept, TypeOK
  <2>5. CASE id \notin Ids
    BY <2>1, <2>5 DEF ToldKept, TypeOK
  <2> QED
    BY <2>4, <2>5
<1>2. CASE told' = told
  BY <1>2 DEF ToldKept
<1>3. ASSUME NEW id, \/ StartPause(w, id) \/ Close(w, id) \/ Shutdown(w, id)
                     \/ Send(w, id) \/ SendLow(w, id) \/ UdpSend(w, id) \/ UdpConnect(w, id)
      PROVE  told' = told
  BY <1>3 DEF StartPause, Close, Shutdown, Request, Send, SendLow, UdpSend, Sending, UdpConnect, sockVars
<1>4. ASSUME DoubleCheck(w) \/ DirectWrite(w) \/ IncSending(w) \/ PutRequest(w) \/ Resolve(w) \/ Exit(w)
      PROVE  told' = told
  BY <1>4, DirectWriteSlot DEF DoubleCheck, IncSending, PutRequest, Resolve, Exit, sockVars
<1> QED
  BY <1>1, <1>2, <1>3, <1>4 DEF Worker, Connect, Listen, BindFd, Udp

LEMMA OpeningTold ==
  ASSUME BaseInv, OpenSocket \/ ListenSocket \/ BindSocket \/ AddUdpSocket
  PROVE  ToldKept
<1>1. \E id, msg : Tell(id, msg) /\ msg # "close"
  <2>1. ASSUME NEW cmd, NoSocket(cmd) PROVE \E id, msg : Tell(id, msg) /\ msg # "close"
    <3>1. (IF cmd = "U" THEN "none" ELSE "err") # "close"
      OBVIOUS
    <3> QED
      BY <2>1, <3>1, Zenon DEF NoSocket
  <2>2. ASSUME NEW cmd, NEW protocol, NEW reading, NEW type, NEW msg \in {"none", "err", "open"},
               SetUp(cmd, protocol, reading, type, msg)
        PROVE  \E id, m : Tell(id, m) /\ m # "close"
    BY <2>2 DEF SetUp
  <2> QED
    BY <2>1, <2>2 DEF OpenSocket, ListenSocket, BindSocket, AddUdpSocket
<1>2. \A n \in Ids : told[n].close \in Nat
  BY DEF TypeOK, ToldRecs, BaseInv
<1> QED
  BY <1>1, <1>2, Tells DEF ToldKept, BaseInv

LEMMA AcceptTold ==
  ASSUME BaseInv, ReportAccept
  PROVE  ToldKept /\ th' = Polling
<1> USE DEF BaseInv
<1>1. th' = Polling /\ (told' = told \/ \E id : told' = [told EXCEPT ![id].start = TRUE])
  BY DEF ReportAccept, Accept
<1>2. ASSUME NEW id, told' = [told EXCEPT ![id].start = TRUE] PROVE ToldKept
  <2>1. \A n \in Ids : told[n] \in ToldRecs
    BY DEF TypeOK
  <2>2. \A t \in ToldRecs : [t EXCEPT !.start = TRUE].close = t.close
    BY DEF ToldRecs
  <2> QED
    BY <1>2, <2>1, <2>2 DEF ToldKept, TypeOK
<1> QED
  BY <1>1, <1>2 DEF ToldKept

LEMMA CloseThread ==
  ASSUME BaseInv, CloseInv, ThreadStep, ToldRight, ForceRight
  PROVE  CloseInv'
<1> USE DEF BaseInv
<1>1. ThreadSteady /\ UNCHANGED <<scene, alloc>>
  BY DEF ThreadStep, workVars
<1>2. Ids' = Ids /\ \A n : H(n)' = H(n)
  BY <1>1, SameScene DEF H, NSlot
<1> SUFFICES ASSUME NEW id \in Ids
             PROVE  /\ told'[id].close > 0 => id <= alloc
                    /\ told'[id].close <= 1
                    /\ told'[id].close = 1 =>
                         \/ slot'[H(id)].id # id
                         \/ slot'[H(id)].type = "INVALID"
                         \/ /\ slot'[H(id)].type = "HALFCLOSE_READ"
                            /\ th'.pc = "force" /\ th'.slot = H(id) => th'.msg # "close"
  BY <1>1, <1>2 DEF CloseInv, Forced
<1>3. H(id) \in Slots /\ told[id].close \in Nat
  BY IdsAreNat DEF TypeOK, ToldRecs
<1>4. SteadyAt(H(id), slot'[H(id)])
  BY <1>1, <1>3 DEF ThreadSteady
<1>5. CASE told'[id].close = told[id].close
  <2>1. ASSUME slot[H(id)].type = "HALFCLOSE_READ", Forced(H(id)) => th.msg # "close",
               slot'[H(id)].type # "INVALID"
        PROVE  /\ slot'[H(id)].type = "HALFCLOSE_READ"
               /\ th'.pc = "force" /\ th'.slot = H(id) => th'.msg # "close"
    <3>1. slot'[H(id)].type = "HALFCLOSE_READ"
      BY <1>4, <2>1 DEF SteadyAt
    <3>2. ASSUME th'.pc = "force", th'.slot = H(id)
          PROVE  th'.msg # "close"
      <4>1. th' = th \/ th'.msg # "close" \/ slot'[th'.slot].type # "HALFCLOSE_READ"
        BY <3>2 DEF ForceRight
      <4>2. CASE th' = th
        BY <2>1, <3>2, <4>2 DEF Forced
      <4> QED
        BY <3>1, <3>2, <4>1, <4>2
    <3> QED
      BY <3>1, <3>2
  <2>2. slot'[H(id)].id = slot[H(id)].id
    BY <1>4 DEF SteadyAt
  <2>3. slot[H(id)].type = "INVALID" => slot'[H(id)].type = "INVALID"
    BY <1>4 DEF SteadyAt, Alive
  <2>4. /\ told[id].close > 0 => id <= alloc
        /\ told[id].close <= 1
        /\ told[id].close = 1 =>
             \/ slot[H(id)].id # id
             \/ slot[H(id)].type = "INVALID"
             \/ slot[H(id)].type = "HALFCLOSE_READ" /\ (Forced(H(id)) => th.msg # "close")
    BY DEF CloseInv
  <2> QED
    BY <1>5, <2>1, <2>2, <2>3, <2>4
<1>6. CASE /\ told'[id].close = told[id].close + 1
           /\ slot[H(id)].id = id /\ Alive(H(id))
           /\ slot[H(id)].type # "HALFCLOSE_READ" \/ (Forced(H(id)) /\ th.msg = "close")
           /\ th'.pc # "force"
           /\ slot'[H(id)].type \in {"INVALID", "HALFCLOSE_READ"}
  <2>1. told[id].close # 1
    BY <1>6 DEF CloseInv, Alive
  <2>2. told[id].close = 0
    BY <1>3, <2>1 DEF CloseInv
  <2>3. id <= alloc
    <3>1. slot[H(id)].id \in 0 .. alloc
      BY <1>3 DEF SlotInv
    <3> QED
      BY <1>6, <3>1
  <2> QED
    BY <1>6, <2>2, <2>3 DEF Forced
<1> QED
  BY <1>5, <1>6 DEF ToldRight

(* Steps that tell nobody, and change no slot but for a new id.            *)
LEMMA CloseOther ==
  ASSUME BaseInv, CloseInv, ToldKept, scene' = scene, alloc' \in Nat, alloc' >= alloc,
         th' = th \/ th'.pc # "force",
         \A i \in Slots : \/ slot'[i].id = slot[i].id /\ slot'[i].type = slot[i].type
                          \/ slot'[i].id > alloc
                          \/ slot'[i].id = slot[i].id /\ slot[i].type = "RESERVE"
  PROVE  CloseInv'
<1> USE DEF BaseInv
<1>1. Ids' = Ids /\ \A n : H(n)' = H(n)
  BY SameScene DEF H, NSlot
<1> SUFFICES ASSUME NEW id \in Ids
             PROVE  /\ told'[id].close > 0 => id <= alloc'
                    /\ told'[id].close <= 1
                    /\ told'[id].close = 1 =>
                         \/ slot'[H(id)].id # id
                         \/ slot'[H(id)].type = "INVALID"
                         \/ slot'[H(id)].type = "HALFCLOSE_READ" /\ (Forced(H(id))' => th'.msg # "close")
  BY <1>1 DEF CloseInv, Forced
<1>2. H(id) \in Slots /\ told[id].close \in Nat /\ told'[id].close = told[id].close /\ id \in Nat /\ alloc \in Nat
  BY IdsAreNat, Scene DEF TypeOK, ToldRecs, ToldKept
<1>3. told[id].close <= 1 /\ (told[id].close > 0 => id <= alloc /\ id <= alloc')
  BY <1>2 DEF CloseInv
<1>4. ASSUME told[id].close = 1, slot'[H(id)].id = id
      PROVE  slot[H(id)].id = id /\ slot[H(id)].type # "RESERVE" /\ slot'[H(id)].type = slot[H(id)].type
  <2>1. ~(slot'[H(id)].id > alloc)
    BY <1>2, <1>3, <1>4
  <2>2. slot[H(id)].id = id
    BY <1>2, <1>4, <2>1
  <2>3. slot[H(id)].type # "RESERVE"
    BY <1>4, <2>2 DEF CloseInv
  <2> QED
    BY <1>2, <1>4, <2>1, <2>2, <2>3
<1>5. Forced(H(id))' => Forced(H(id)) /\ th' = th
  BY <1>1 DEF Forced
<1> QED
  BY <1>2, <1>3, <1>4, <1>5 DEF CloseInv

LEMMA CloseNext ==
  ASSUME BaseInv, CloseInv, [Next]_vars
  PROVE  CloseInv'
<1> USE DEF BaseInv
<1>1. alloc \in Nat /\ alloc >= alloc
  BY Scene DEF TypeOK
<1>2. ASSUME ToldKept, WorkStep PROVE CloseInv'
  BY <1>1, <1>2, CloseOther DEF WorkStep, WorkSteady
<1>3. ASSUME ToldKept, OpenStep PROVE CloseInv'
  <2>1. PICK id, y : OpenedAt(id, y)
    BY <1>3 DEF OpenStep
  <2>2. id \in Ids /\ id > alloc /\ alloc' = id /\ slot' = [slot EXCEPT ![H(id)] = y] /\ y.id = id
    BY <2>1 DEF OpenedAt
  <2>3. id \in Nat /\ id >= alloc
    BY <1>1, <2>2, IdsAreNat DEF TypeOK
  <2>4. \A i \in Slots : \/ slot'[i].id = slot[i].id /\ slot'[i].type = slot[i].type
                         \/ slot'[i].id > alloc
    BY <2>2 DEF TypeOK
  <2>5. scene' = scene /\ (th' = th \/ th'.pc # "force")
    BY <1>3 DEF OpenStep, Polling
  <2> QED
    BY <1>3, <2>2, <2>3, <2>4, <2>5, CloseOther
<1>4. ASSUME ToldKept, NEW y \in Sockets, SetUpAt(y) PROVE CloseInv'
  <2>1. /\ slot' = [slot EXCEPT ![H(Req.id)] = y] /\ y.id = Req.id /\ UNCHANGED <<scene, alloc, th>>
        /\ pipe # <<>> /\ Req.cmd \in Opening
    BY <1>4 DEF SetUpAt, workVars
  <2>2. H(Req.id) \in Slots /\ slot[H(Req.id)].type = "RESERVE" /\ slot[H(Req.id)].id = Req.id
    BY <2>1, ReservedRequest
  <2>3. \A i \in Slots : \/ slot'[i].id = slot[i].id /\ slot'[i].type = slot[i].type
                         \/ slot'[i].id = slot[i].id /\ slot[i].type = "RESERVE"
    BY <2>1, <2>2 DEF TypeOK
  <2> QED
    BY <1>1, <1>4, <2>1, <2>3, CloseOther
<1>5. ASSUME UNCHANGED <<scene, slot, alloc, told>>, th' = th \/ th'.pc # "force"
      PROVE  CloseInv'
  BY <1>1, <1>5, CloseOther DEF ToldKept
<1>6. CASE UNCHANGED vars
  BY <1>5, <1>6 DEF vars
<1>7. CASE \E w \in Workers : Worker(w)
  BY <1>2, <1>3, <1>7, WorkerWork, WorkerTold
<1>8. CASE SocketThread
  <2>1. CASE OpenSocket \/ ListenSocket \/ BindSocket \/ AddUdpSocket
    BY <1>4, <2>1, OpeningTold, OpeningSlot
  <2>2. CASE SpWait
    <3>1. UNCHANGED <<scene, slot, alloc, told>> /\ (th' = th \/ th' = [th EXCEPT !.pc = "fresh"])
      BY <2>2 DEF SpWait, workVars
    <3> QED
      BY <1>5, <3>1 DEF TypeOK, Positions
  <2>3. CASE ReportAccept
    <3>1. ToldKept /\ th' = Polling
      BY <2>3, AcceptTold
    <3>2. ToldRight /\ ForceRight
      BY <3>1 DEF ToldKept, ToldRight, ForceRight, Polling
    <3> QED
      BY <1>3, <2>3, <3>1, <3>2, ReportAcceptOpen, CloseThread
  <2>4. CASE CloseSocket
    BY <2>4, CloseSocketStep, CloseSocketTold, CloseThread
  <2>5. CASE ForceClose
    BY <2>5, ForceCloseStep, ForceCloseTold, CloseThread
  <2>6. CASE ReadTcp
    BY <2>6, ReadTcpStep, ReadTcpTold, CloseThread
  <2>7. CASE \/ Resume \/ Pause \/ TriggerWrite \/ SetUdpAddress \/ SendSocket \/ DecSending \/ ExitCmd
             \/ ReportConnect \/ InvalidSocket \/ VoidEvent \/ ReadUdp \/ SendBuffer \/ ErrorEvent
             \/ ClearEvent \/ NoCommand \/ ReservedEvent
    <3>1. ThreadStep
      BY <2>7, ResumeStep, AdjustStep, SendSocketStep, DecSendingStep, ExitCmdStep,
         ReportConnectStep, SkippedStep, ReadUdpStep, SendBufferStep, ErrorEventStep, QuietStep, ReservedEventStep
    <3> QED
      BY <2>7, <3>1, QuietTold, CloseThread
  <2> QED
    BY <1>8, <2>1, <2>2, <2>3, <2>4, <2>5, <2>6, <2>7 DEF SocketThread
<1>9. CASE \E id \in Ids : Network(id)
  BY <1>5, <1>9 DEF Network
<1> QED
  BY <1>6, <1>7, <1>8, <1>9 DEF Next

LEMMA CloseInit == Init => CloseInv
  BY DEF Init, CloseInv

(* The comment of socket_server.c, "SOCKET_CLOSE can be raised (only       *)
(* once)": whoever closes first, and however half-closed sockets, errors   *)
(* and hangups follow, the owner of an id is told once that it is closed.  *)
THEOREM SocketCloseOnce == Spec => []CloseOnce
<1>1. Init => CloseInv
  BY CloseInit
<1>2. BaseInv /\ CloseInv /\ [Next]_vars => CloseInv'
  BY CloseNext
<1>3. CloseInv => CloseOnce
  BY DEF CloseInv, CloseOnce
<1> QED
  BY <1>1, <1>2, <1>3, SocketBase, PTL DEF Spec

-----------------------------------------------------------------------------
(* What waits to be sent is written or waited for.                         *)

Unused == {"PACCEPT", "PLISTEN", "LISTEN"}
Writers == {"CONNECTED", "HALFCLOSE_READ", "BIND", "CONNECTING"}

(* Nothing waits in a socket that is not in use.                           *)
Tame(x) == x.type \in Unused => BufferEmpty(x) /\ x.dw = None

(* Something waits in a list, or of a direct write, with the write event   *)
(* off.                                                                    *)
Waits(x) ==
  x.protocol = "tcp" /\ x.type \in Writers /\ ~x.writing /\ (~BufferEmpty(x) \/ x.dw # None)

(* Someone is about to ask for the write event of id.                      *)
Asking(w, id) == wk[w].pc # "idle" /\ wk[w].cmd = "W" /\ wk[w].id = id
Pending(id) ==
  \/ \E k \in DOMAIN pipe : pipe[k].cmd = "W" /\ pipe[k].id = id
  \/ \E w \in Workers : Asking(w, id)

ArmedInv ==
  /\ \A i \in Slots : Tame(slot[i]) /\ (Waits(slot[i]) => Pending(slot[i].id))
  /\ \A w \in Workers : wk[w].pc \in {"check", "write"} => wk[w].cmd # "W"

KeepsArmed(x, y) == Tame(x) => Tame(y) /\ (Waits(y) => Waits(x))
ThreadArmed == \A i \in Slots : KeepsArmed(slot[i], slot'[i])

LEMMA ArmedSame ==
  \A x, y : x = y \/ y.type \in {"INVALID", "RESERVE", "HALFCLOSE_WRITE"} \/ (BufferEmpty(y) /\ y.dw = None) => KeepsArmed(x, y)
BY DEF KeepsArmed, Tame, Waits, Unused, Writers

LEMMA ArmedSet ==
  ASSUME TypeOK, slot' = slot \/ \E i \in Slots : \E y : slot' = [slot EXCEPT ![i] = y] /\ KeepsArmed(slot[i], y)
  PROVE  ThreadArmed
BY ArmedSame DEF ThreadArmed, TypeOK

(* A step that takes no request to enable the write event.                 *)
LEMMA ArmedThread ==
  ASSUME BaseInv, ArmedInv, ThreadArmed, scene' = scene, wk' = wk,
         \A i \in Slots : slot'[i].id = slot[i].id \/ ~Waits(slot'[i]),
         pipe' = pipe \/ (\E r : Put(r)) \/ (pipe # <<>> /\ pipe' = Tail(pipe) /\ Req.cmd # "W")
  PROVE  ArmedInv'
<1>1. \A id : Pending(id) => Pending(id)'
  <2>1. \A k \in DOMAIN pipe : pipe[k].cmd = "W" => \E l \in DOMAIN pipe' : pipe'[l] = pipe[k]
    <3>1. CASE pipe' = pipe
      BY <3>1
    <3>2. CASE pipe # <<>> /\ pipe' = Tail(pipe) /\ Req.cmd # "W"
      BY <3>2, PipeEntries DEF BaseInv
    <3>3. CASE \E r : Put(r)
      BY <3>3, PipeEntries DEF BaseInv
    <3> QED
      BY <3>1, <3>2, <3>3
  <2> QED
    BY <2>1 DEF Pending, Asking
<1>2. Slots' = Slots
  BY SameScene DEF BaseInv, TypeOK
<1> QED
  BY <1>1, <1>2 DEF ArmedInv, ThreadArmed, KeepsArmed, Tame, Waits, BufferEmpty

(* A worker that asks goes on asking until its request is in the pipe.     *)
LEMMA ArmedWork ==
  ASSUME BaseInv, ArmedInv, WorkSteady, scene' = scene,
         \A i \in Slots : slot'[i].dw = slot[i].dw
                          \/ (slot[i].type \notin Unused /\ \E w \in Workers : Asking(w, slot[i].id)'),
         \A id : Pending(id) => Pending(id)',
         \A w \in Workers : wk'[w].pc \in {"check", "write"} => wk'[w].cmd # "W"
  PROVE  ArmedInv'
<1>1. Slots' = Slots
  BY SameScene DEF BaseInv, TypeOK
<1>2. \A i \in Slots : Tame(slot'[i])
  BY DEF ArmedInv, Tame, WorkSteady, BufferEmpty
<1>3. \A i \in Slots : Waits(slot'[i]) => Pending(slot[i].id)'
  <2> TAKE i \in Slots
  <2> HAVE Waits(slot'[i])
  <2>1. slot'[i].id = slot[i].id
    BY DEF WorkSteady
  <2>2. CASE slot'[i].dw = slot[i].dw
    <3>1. Waits(slot[i])
      BY <2>2 DEF WorkSteady, Waits, BufferEmpty
    <3>2. Pending(slot[i].id)
      BY <3>1 DEF ArmedInv
    <3> QED
      BY <2>1, <3>2 DEF Pending, Asking
  <2>3. CASE \E w \in Workers : Asking(w, slot[i].id)'
    BY <1>1, <2>1, <2>3 DEF Pending
  <2> QED
    BY <2>2, <2>3
<1> QED
  BY <1>1, <1>2, <1>3 DEF ArmedInv, Tame, Waits, BufferEmpty

LEMMA BeginForceArmed ==
  ASSUME BaseInv, scene' = scene, NEW i \in Slots, Alive(i), NEW msg, NEW ctl, BeginForceClose(i, msg, ctl)
  PROVE  ThreadArmed
<1>1. /\ ThreadSteady /\ \A j \in Slots : slot'[j].type = slot[j].type /\ (j # i => slot'[j] = slot[j])
      /\ BufferEmpty(slot'[i]) /\ slot'[i].writing = slot[i].writing /\ slot'[i].dw = slot[i].dw
  BY BeginForceCloseStep DEF BaseInv
<1>2. \A j \in Slots : slot'[j].protocol = slot[j].protocol
  BY <1>1 DEF ThreadSteady, SteadyAt
<1>3. KeepsArmed(slot[i], slot'[i])
  BY <1>1, <1>2 DEF KeepsArmed, Tame, Waits
<1> QED
  BY <1>1, <1>3, ArmedSame DEF ThreadArmed

LEMMA CloseSocketArmed ==
  ASSUME BaseInv, CloseSocket
  PROVE  ThreadArmed
<1> USE DEF BaseInv
<1>1. pipe # <<>> /\ Req.cmd \in {"K", "X"} /\ UNCHANGED workVars
  BY DEF CloseSocket, Ctrl
<1>2. CASE slot' = slot
  BY <1>2, ArmedSet
<1>3. ASSUME ~Invalid(X, Req.id)
      PROVE  Alive(H(Req.id)) /\ H(Req.id) \in Slots /\ X \in Sockets /\ X = slot[H(Req.id)]
  BY <1>1, <1>3, LiveRequest DEF X, Opening
<1>4. ASSUME NEW msg, ~Invalid(X, Req.id), BeginForceClose(H(Req.id), msg, TRUE)
      PROVE  ThreadArmed
  <2>1. scene' = scene
    BY <1>1 DEF workVars
  <2> QED
    BY <1>3, <1>4, <2>1, BeginForceArmed
<1>5. CASE /\ ~Invalid(X, Req.id) /\ ~NoMoreSendingData(X)
           /\ SetSlot(H(Req.id), IF X.type = "HALFCLOSE_READ" THEN [X EXCEPT !.closing = TRUE]
                                 ELSE [CloseRead(X) EXCEPT !.closing = TRUE])
  <2>1. PICK y : slot' = [slot EXCEPT ![H(Req.id)] = y] /\ y = IF X.type = "HALFCLOSE_READ" THEN [X EXCEPT !.closing = TRUE]
                                   ELSE [CloseRead(X) EXCEPT !.closing = TRUE]
    BY <1>5 DEF SetSlot
  <2>2. H(Req.id) \in Slots /\ X \in Sockets /\ X = slot[H(Req.id)] /\ X.type \notin {"INVALID", "RESERVE", "HALFCLOSE_WRITE"}
    BY <1>3, <1>5 DEF Alive, NoMoreSendingData
  <2>3. /\ y.protocol = X.protocol /\ y.type = "HALFCLOSE_READ" /\ y.dw = X.dw
        /\ y.writing = X.writing /\ y.high = X.high /\ y.low = X.low
    BY <2>1, <2>2 DEF Sockets, CloseRead
  <2>4. X.type \in Unused \cup Writers
    BY <2>2 DEF Sockets, Types, Unused, Writers
  <2>5. KeepsArmed(X, y)
    BY <2>3, <2>4 DEF KeepsArmed, Tame, Waits, Unused, Writers, BufferEmpty
  <2> QED
    BY <2>1, <2>2, <2>5, ArmedSet
<1> QED
  BY <1>2, <1>4, <1>5, Zenon DEF CloseSocket

LEMMA ResumeArmed ==
  ASSUME BaseInv, Resume
  PROVE  ThreadArmed
<1> USE DEF BaseInv
<1>1. CASE slot' = slot
  BY <1>1, ArmedSet
<1>2. CASE slot' # slot
  <2>1. /\ H(Req.id) \in Slots /\ X = slot[H(Req.id)]
    BY <1>2, ResumeSlot
  <2>2. PICK y : /\ slot' = [slot EXCEPT ![H(Req.id)] = y]
                 /\ y.protocol = X.protocol /\ y.dw = X.dw /\ y.writing = X.writing /\ y.high = X.high /\ y.low = X.low
                 /\ \/ y.type = X.type
                    \/ X.type = "PACCEPT" /\ y.type = "CONNECTED"
                    \/ X.type = "PLISTEN" /\ y.type = "LISTEN"
    BY <1>2, ResumeSlot
  <2>3. KeepsArmed(X, y)
    BY <2>2 DEF KeepsArmed, Tame, Waits, Unused, Writers, BufferEmpty
  <2> QED
    BY <2>1, <2>2, <2>3, ArmedSet
<1> QED
  BY <1>1, <1>2

LEMMA AdjustArmed ==
  ASSUME BaseInv, Pause \/ SetUdpAddress
  PROVE  ThreadArmed
<1> USE DEF BaseInv
<1>1. PICK y :
        /\ pipe # <<>> /\ Req.cmd \in {"S", "C"}
        /\ IF Invalid(X, Req.id) THEN UNCHANGED slot ELSE SetSlot(H(Req.id), y)
        /\ y \in {X, [X EXCEPT !.reading = FALSE], [X EXCEPT !.address = Req.n, !.udpconnecting = @ - 1]}
  BY DEF Pause, SetUdpAddress, Adjust, Ctrl
<1>2. CASE Invalid(X, Req.id)
  BY <1>1, <1>2, ArmedSet
<1>3. CASE ~Invalid(X, Req.id)
  <2>1. H(Req.id) \in Slots /\ X \in Sockets /\ X = slot[H(Req.id)]
    BY <1>1, <1>3, LiveRequest DEF X, Opening
  <2>2. y.protocol = X.protocol /\ y.dw = X.dw /\ y.writing = X.writing /\ y.high = X.high /\ y.low = X.low /\ y.type = X.type
    BY <1>1, <2>1 DEF Sockets
  <2>3. KeepsArmed(X, y)
    BY <2>2 DEF KeepsArmed, Tame, Waits, BufferEmpty
  <2> QED
    BY <1>1, <1>3, <2>1, <2>3, ArmedSet DEF SetSlot
<1> QED
  BY <1>2, <1>3

LEMMA SendSocketArmed ==
  ASSUME BaseInv, SendSocket
  PROVE  ThreadArmed
<1> USE DEF BaseInv
<1>1. pipe # <<>> /\ Req.cmd \in Data
  BY SendSocketSlot
<1>2. CASE UNCHANGED slot
  BY <1>2, ArmedSet
<1>3. ASSUME NEW b \in Buffers, NEW toLow \in BOOLEAN, ~Refused(X, Req.id), slot' = [slot EXCEPT ![H(Req.id)] = Appended(X, b, toLow)]
      PROVE  ThreadArmed
  <2>1. H(Req.id) \in Slots /\ X \in Sockets /\ X = slot[H(Req.id)] /\ X.type \notin Unused
    BY <1>1, <1>3, LiveRequest DEF X, Opening, Refused, Data, Unused
  <2>2. PICK y : y = Appended(X, b, toLow)
    OBVIOUS
  <2>3. /\ y.protocol = X.protocol /\ y.dw = X.dw /\ y.type = X.type
        /\ (y.writing <=> (X.writing \/ BufferEmpty(X)))
    BY <2>1, <2>2, AppendedFields
  <2>4. KeepsArmed(X, y)
    BY <2>1, <2>3 DEF KeepsArmed, Tame, Waits
  <2> QED
    BY <1>3, <2>1, <2>2, <2>4, ArmedSet
<1> QED
  BY <1>2, <1>3, SendSocketSlot

LEMMA DecSendingArmed ==
  ASSUME BaseInv, DecSending \/ ForceClose
  PROVE  ThreadArmed
<1> USE DEF BaseInv
<1>1. /\ th.pc \in {"dec", "force"} /\ th.slot \in Slots /\ slot[th.slot] \in Sockets
      /\ \/ slot' = slot
         \/ slot' = [slot EXCEPT ![th.slot] = [slot[th.slot] EXCEPT !.sending = @ - 1]]
         \/ slot' = [slot EXCEPT ![th.slot] = [slot[th.slot] EXCEPT !.type = "INVALID", !.dw = None]]
  BY DEF DecSending, ForceClose, SetSlot, TypeOK
<1>2. ASSUME NEW x \in Sockets, NEW n
      PROVE  /\ KeepsArmed(x, [x EXCEPT !.sending = n])
             /\ KeepsArmed(x, [x EXCEPT !.type = "INVALID", !.dw = None])
  <2>1. KeepsArmed(x, [x EXCEPT !.sending = n])
    BY DEF KeepsArmed, Tame, Waits, BufferEmpty, Sockets
  <2>2. [x EXCEPT !.type = "INVALID", !.dw = None].type = "INVALID"
    BY DEF Sockets
  <2> QED
    BY <2>1, <2>2, ArmedSame
<1> QED
  BY <1>1, <1>2, ArmedSet

LEMMA ReportConnectArmed ==
  ASSUME BaseInv, ReportConnect
  PROVE  ThreadArmed
<1> USE DEF BaseInv
<1> DEFINE y == [Y EXCEPT !.type = "CONNECTED", !.writing = @ /\ ~NoMoreSendingData(Y)]
<1>1. /\ Event({"CONNECTING"})
      /\ \/ BeginForceClose(E0.slot, "err", FALSE)
         \/ slot' = [slot EXCEPT ![E0.slot] = y]
  BY DEF ReportConnect, SetSlot
<1>2. Alive(E0.slot) /\ E0.slot \in Slots /\ Y \in Sockets /\ Y = slot[E0.slot] /\ Y.type = "CONNECTING" /\ scene' = scene
  BY <1>1, LiveEvent DEF workVars
<1>3. CASE BeginForceClose(E0.slot, "err", FALSE)
  BY <1>2, <1>3, BeginForceArmed
<1>4. CASE slot' = [slot EXCEPT ![E0.slot] = y]
  <2>1. /\ y.protocol = Y.protocol /\ y.dw = Y.dw /\ y.type = "CONNECTED" /\ y.high = Y.high /\ y.low = Y.low
        /\ (y.writing <=> (Y.writing /\ ~NoMoreSendingData(Y)))
    BY <1>2 DEF Sockets
  <2> HIDE DEF y
  <2>2. NoMoreSendingData(Y) => BufferEmpty(Y) /\ Y.dw = None
    BY <1>2 DEF NoMoreSendingData
  <2>3. KeepsArmed(Y, y)
    BY <1>2, <2>1, <2>2 DEF KeepsArmed, Tame, Waits, Unused, Writers, BufferEmpty
  <2> QED
    BY <1>2, <1>4, <2>3, ArmedSet
<1> QED
  BY <1>1, <1>3, <1>4

LEMMA ReadArmed ==
  ASSUME BaseInv, ReadTcp \/ ReadUdp \/ ErrorEvent
  PROVE  ThreadArmed
<1> USE DEF BaseInv
<1>1. Event(Plain) /\ "INVALID" \notin Plain /\ "RESERVE" \notin Plain
  BY DEF ReadTcp, ReadUdp, ErrorEvent, Plain
<1>2. /\ Alive(E0.slot) /\ E0.slot \in Slots /\ Y \in Sockets /\ Y = slot[E0.slot] /\ scene' = scene
      /\ Y.type \in Plain
  BY <1>1, LiveEvent DEF workVars
<1>3. \/ slot' = slot
      \/ \E msg : BeginForceClose(E0.slot, msg, FALSE)
      \/ Y.type # "HALFCLOSE_WRITE" /\ SetSlot(E0.slot, CloseRead(Y))
  BY Zenon DEF ReadTcp, ReadUdp, ErrorEvent
<1>4. CASE slot' = slot
  BY <1>4, ArmedSet
<1>5. CASE \E msg : BeginForceClose(E0.slot, msg, FALSE)
  BY <1>2, <1>5, BeginForceArmed
<1>6. CASE Y.type # "HALFCLOSE_WRITE" /\ SetSlot(E0.slot, CloseRead(Y))
  <2>1. PICK y : slot' = [slot EXCEPT ![E0.slot] = y] /\ y = CloseRead(Y)
    BY <1>6 DEF SetSlot
  <2>2. /\ y.protocol = Y.protocol /\ y.dw = Y.dw /\ y.type = "HALFCLOSE_READ" /\ y.high = Y.high /\ y.low = Y.low
        /\ y.writing = Y.writing
    BY <1>2, <2>1 DEF Sockets, CloseRead
  <2>3. Y.type \in Unused \cup Writers
    BY <1>2, <1>6 DEF Alive, Plain, Unused, Writers
  <2>4. KeepsArmed(Y, y)
    BY <2>2, <2>3 DEF KeepsArmed, Tame, Waits, Unused, Writers, BufferEmpty
  <2> QED
    BY <1>2, <2>1, <2>4, ArmedSet
<1> QED
  BY <1>3, <1>4, <1>5, <1>6

LEMMA SendBufferArmed ==
  ASSUME BaseInv, SendBuffer
  PROVE  ThreadArmed
<1> USE DEF BaseInv
<1>1. Event(Plain) /\ "INVALID" \notin Plain /\ "RESERVE" \notin Plain
  BY DEF SendBuffer, Plain
<1>2. /\ E0.slot \in Slots /\ Y \in Sockets /\ Y = slot[E0.slot]
  BY <1>1, LiveEvent
<1>3. CASE slot' = slot
  BY <1>3, ArmedSet
<1>4. ASSUME NEW a \in Nat, NEW x \in Sockets, NEW y \in Sockets, x = WithDirect(Y, a),
             ByError(x, y) \/ \E h, l, r : ByWrite(x, y, h, l, r)
      PROVE  ThreadArmed
  <2>1. Kept(Y, x) /\ x.type = Y.type /\ x.writing = Y.writing /\ x.dw = None /\ x.low = Y.low
        /\ (Y.dw = None => x.high = Y.high)
    <3>3. \A z \in Sockets : Kept(z, WithDirect(z, a)) /\ WithDirect(z, a).type = z.type /\ WithDirect(z, a).writing = z.writing
                            /\ WithDirect(z, a).dw = None /\ WithDirect(z, a).low = z.low
      BY WithDirectType
    <3>1. Kept(Y, x) /\ x.type = Y.type /\ x.writing = Y.writing /\ x.dw = None /\ x.low = Y.low
      BY <1>2, <1>4, <3>3
    <3>2. Y.dw = None => x = Y
      BY <1>4 DEF WithDirect
    <3> QED
      BY <3>1, <3>2
  <2>2. CASE ByError(x, y)
    <3>1. slot' = [slot EXCEPT ![E0.slot] = y] /\ y.type \in {"INVALID", "HALFCLOSE_WRITE"}
      BY <2>2 DEF ByError, AfterError
    <3>2. KeepsArmed(Y, y)
      BY <3>1, ArmedSame
    <3> QED
      BY <1>2, <3>1, <3>2, ArmedSet
  <2>3. ASSUME NEW h, NEW l, NEW r, ByWrite(x, y, h, l, r)
        PROVE  ThreadArmed
    <3>1. AfterWrite(x, h, l, r, y) /\ Fits(h, x.high) /\ Fits(l, x.low)
      BY <2>3 DEF ByWrite
    <3>2. /\ slot' = [slot EXCEPT ![E0.slot] = y]
          /\ Kept(x, y) /\ y.dw = x.dw /\ y.high = r.high /\ y.low = r.low
          /\ y.type = "INVALID" \/ (y.type = x.type /\ (BufferEmpty(r) \/ y.writing = x.writing))
          /\ Sends(x, h, l, r)
      BY <3>1 DEF AfterWrite
    <3>3. ASSUME BufferEmpty(x) PROVE BufferEmpty(r)
      <4>1. x.high = <<>> /\ x.low = <<>> /\ x.high \in Seq(Buffers) /\ x.low \in Seq(Buffers)
        BY <3>3 DEF BufferEmpty, Sockets
      <4>2. /\ Len(Rest(x.high, h)) = Len(x.high) - h.m - h.drop /\ Rest(x.high, h) \in Seq(Buffers)
            /\ Len(Rest(x.low, l)) = Len(x.low) - l.m - l.drop /\ Rest(x.low, l) \in Seq(Buffers)
        BY <3>1, <4>1, RestType
      <4>3. Len(x.high) = 0 /\ Len(x.low) = 0
        BY <4>1
      <4>4. Rest(x.high, h) = <<>> /\ Rest(x.low, l) = <<>>
        <5>1. h.m = 0 /\ h.drop = 0 /\ l.m = 0 /\ l.drop = 0
          BY <3>1, <4>3 DEF Fits
        <5>2. Len(Rest(x.high, h)) = 0 /\ Len(Rest(x.low, l)) = 0
          BY <4>2, <4>3, <5>1
        <5> QED
          BY <4>2, <5>2, EmptySeq
      <4> QED
        BY <3>2, <4>4 DEF Sends, Uncomplete, BufferEmpty
    <3>4. y.protocol = Y.protocol
      BY <2>1, <3>2 DEF Kept
    <3>5. CASE y.type = "INVALID"
      BY <1>2, <3>2, <3>5, ArmedSame, ArmedSet
    <3>6. CASE y.type = x.type /\ (BufferEmpty(r) \/ y.writing = x.writing)
      <4>1. BufferEmpty(y) = BufferEmpty(r)
        BY <3>2 DEF BufferEmpty
      <4>2. BufferEmpty(Y) /\ Y.dw = None => BufferEmpty(x)
        BY <2>1 DEF BufferEmpty
      <4>3. y.dw = None /\ y.type = Y.type /\ (BufferEmpty(y) \/ y.writing = Y.writing)
        BY <1>2, <2>1, <3>2, <3>6, <4>1
      <4>4. KeepsArmed(Y, y)
        BY <3>3, <3>4, <4>1, <4>2, <4>3 DEF KeepsArmed, Tame, Waits
      <4> QED
        BY <1>2, <3>2, <4>4, ArmedSet
    <3> QED
      BY <3>2, <3>5, <3>6
  <2> QED
    BY <1>4, <2>2, <2>3
<1> QED
  BY <1>3, <1>4, SendBufferWays, Zenon

LEMMA ReservedEventArmed ==
  ASSUME BaseInv, ReservedEvent
  PROVE  ThreadArmed
BY ReservedEventSlot, ArmedSame, ArmedSet DEF BaseInv, Alive

LEMMA TriggerWriteArmed ==
  ASSUME BaseInv, ArmedInv, TriggerWrite
  PROVE  ArmedInv'
<1> USE DEF BaseInv
<1>1. /\ pipe # <<>> /\ Req.cmd = "W" /\ pipe' = Tail(pipe) /\ UNCHANGED <<scene, wk>>
      /\ IF Invalid(X, Req.id) THEN UNCHANGED slot ELSE SetSlot(H(Req.id), [X EXCEPT !.writing = TRUE])
  BY DEF TriggerWrite, Adjust, Ctrl, workVars
<1>2. \A id : Pending(id) /\ id # Req.id => Pending(id)'
  <2>1. \A k \in DOMAIN pipe : pipe[k].id # Req.id => \E l \in DOMAIN pipe' : pipe'[l] = pipe[k]
    BY <1>1, PipeEntries
  <2> QED
    BY <1>1, <2>1 DEF Pending, Asking
<1>3. Slots' = Slots
  BY <1>1, SameScene DEF TypeOK
<1>4. CASE Invalid(X, Req.id)
  <2>1. \A i \in Slots : Waits(slot[i]) => slot[i].id # Req.id
    BY <1>4 DEF Invalid, X, SlotInv, Waits, Writers
  <2> QED
    BY <1>1, <1>2, <1>3, <1>4, <2>1 DEF ArmedInv, Tame, Waits, BufferEmpty
<1>5. CASE ~Invalid(X, Req.id)
  <2>1. H(Req.id) \in Slots /\ X \in Sockets /\ X = slot[H(Req.id)] /\ X.id = Req.id
    BY <1>1, <1>5, LiveRequest DEF X, Opening
  <2>2. PICK y : y = [X EXCEPT !.writing = TRUE]
    OBVIOUS
  <2>3. slot'[H(Req.id)] = y /\ \A i \in Slots : i # H(Req.id) => slot'[i] = slot[i]
    BY <1>1, <1>5, <2>1, <2>2 DEF SetSlot, TypeOK
  <2>4. y.writing /\ y.type = X.type /\ y.dw = X.dw /\ y.high = X.high /\ y.low = X.low
    BY <2>1, <2>2 DEF Sockets
  <2>5. Tame(y) /\ ~Waits(y)
    BY <2>1, <2>4 DEF ArmedInv, Tame, Waits, BufferEmpty
  <2>6. ASSUME NEW i \in Slots, i # H(Req.id), Waits(slot[i])
        PROVE  slot[i].id # Req.id
    BY <2>6 DEF SlotInv, Waits, Writers
  <2>7. \A i \in Slots : Tame(slot'[i])
    BY <2>3, <2>5 DEF ArmedInv
  <2>8. \A i \in Slots : Waits(slot'[i]) => slot'[i] = slot[i] /\ Waits(slot[i]) /\ slot[i].id # Req.id
    BY <2>3, <2>5, <2>6
  <2>9. \A i \in Slots : Waits(slot'[i]) => Pending(slot[i].id)'
    <3> TAKE i \in Slots
    <3> HAVE Waits(slot'[i])
    <3>1. slot'[i].id = slot[i].id /\ Pending(slot[i].id) /\ slot[i].id # Req.id
      BY <2>8 DEF ArmedInv
    <3>2. \A id : id = slot[i].id => Pending(id)'
      BY <1>2, <3>1
    <3> QED
      BY <3>1, <3>2 DEF Pending, Asking
  <2> QED
    BY <1>1, <1>3, <2>7, <2>9 DEF ArmedInv, Tame, Waits, BufferEmpty
<1> QED
  BY <1>4, <1>5

(* Steps that give a slot to a new id, or set it up.                       *)
LEMMA NewArmed ==
  ASSUME BaseInv, ArmedInv, OpenStep \/ \E y \in Sockets : SetUpAt(y)
  PROVE  ArmedInv'
<1> USE DEF BaseInv
<1>1. PICK i, y : /\ slot' = [slot EXCEPT ![i] = y] /\ BufferEmpty(y) /\ y.dw = None /\ UNCHANGED <<scene, wk>>
                  /\ pipe' = pipe \/ (\E r : Put(r)) \/ (pipe # <<>> /\ pipe' = Tail(pipe) /\ Req.cmd # "W")
  BY DEF OpenStep, OpenedAt, SetUpAt, Opening, workVars
<1>2. KeepsArmed(slot[i], y) /\ ~Waits(y)
  BY <1>1, ArmedSame DEF Waits
<1>3. \A j \in Slots : slot'[j] = slot[j] \/ (j = i /\ slot'[j] = y)
  BY <1>1 DEF TypeOK
<1>4. ThreadArmed /\ \A j \in Slots : slot'[j].id = slot[j].id \/ ~Waits(slot'[j])
  BY <1>2, <1>3, ArmedSame DEF ThreadArmed
<1> QED
  BY <1>1, <1>4, ArmedThread

(* A step of one worker.                                                   *)
LEMMA ArmedAct ==
  ASSUME BaseInv, ArmedInv, WorkStep, NEW w \in Workers, pipe' = pipe \/ \E q : Put(q),
         \E r : /\ wk' = [wk EXCEPT ![w] = r]
                /\ r.pc \in {"check", "write"} => r.cmd # "W"
                /\ wk[w].pc # "idle" /\ wk[w].cmd = "W" =>
                     \/ r.pc # "idle" /\ r.cmd = "W" /\ r.id = wk[w].id
                     \/ \E q : Put(q) /\ q.cmd = "W" /\ q.id = wk[w].id
                /\ \A i \in Slots : slot'[i].dw = slot[i].dw
                                     \/ (slot[i].type \notin Unused /\ r.pc # "idle" /\ r.cmd = "W" /\ r.id = slot[i].id)
  PROVE  ArmedInv'
<1> USE DEF BaseInv
<1>1. PICK r : /\ wk' = [wk EXCEPT ![w] = r]
               /\ r.pc \in {"check", "write"} => r.cmd # "W"
               /\ wk[w].pc # "idle" /\ wk[w].cmd = "W" =>
                    \/ r.pc # "idle" /\ r.cmd = "W" /\ r.id = wk[w].id
                    \/ \E q : Put(q) /\ q.cmd = "W" /\ q.id = wk[w].id
               /\ \A i \in Slots : slot'[i].dw = slot[i].dw
                                    \/ (slot[i].type \notin Unused /\ r.pc # "idle" /\ r.cmd = "W" /\ r.id = slot[i].id)
  OBVIOUS
<1>2. wk'[w] = r /\ \A v \in Workers : v # w => wk'[v] = wk[v]
  BY <1>1 DEF TypeOK
<1>3. \A v \in Workers : wk'[v].pc \in {"check", "write"} => wk'[v].cmd # "W"
  BY <1>1, <1>2 DEF ArmedInv
<1>4. WorkSteady /\ scene' = scene
  BY DEF WorkStep
<1>5. \A i \in Slots : slot'[i].dw = slot[i].dw
                        \/ (slot[i].type \notin Unused /\ \E v \in Workers : Asking(v, slot[i].id)')
  <2> TAKE i \in Slots
  <2>1. slot'[i].id = slot[i].id
    BY <1>4 DEF WorkSteady
  <2> QED
    BY <1>1, <1>2, <2>1 DEF Asking
<1>6. \A k \in DOMAIN pipe : k \in DOMAIN pipe' /\ pipe'[k] = pipe[k]
  <2>1. CASE pipe' = pipe
    BY <2>1
  <2>2. CASE \E q : Put(q)
    BY <2>2, PipeEntries
  <2> QED
    BY <2>1, <2>2
<1>7. \A q : Put(q) => \E k \in DOMAIN pipe' : pipe'[k] = q
  BY PipeEntries
<1>8. ASSUME NEW id, Pending(id) PROVE Pending(id)'
  <2>1. CASE \E k \in DOMAIN pipe : pipe[k].cmd = "W" /\ pipe[k].id = id
    BY <1>6, <2>1 DEF Pending
  <2>2. CASE \E v \in Workers : v # w /\ Asking(v, id)
    BY <1>2, <2>2 DEF Pending, Asking
  <2>3. CASE Asking(w, id)
    <3>1. CASE r.pc # "idle" /\ r.cmd = "W" /\ r.id = wk[w].id
      BY <1>2, <2>3, <3>1 DEF Pending, Asking
    <3>2. CASE \E q : Put(q) /\ q.cmd = "W" /\ q.id = wk[w].id
      BY <1>7, <2>3, <3>2 DEF Pending, Asking
    <3> QED
      BY <1>1, <2>3, <3>1, <3>2 DEF Asking
  <2> QED
    BY <1>8, <2>1, <2>2, <2>3 DEF Pending
<1> QED
  BY <1>3, <1>4, <1>5, <1>8, ArmedWork

LEMMA WorkerArmed ==
  ASSUME BaseInv, ArmedInv, NEW w \in Workers, Worker(w)
  PROVE  ArmedInv'
<1> USE DEF BaseInv
<1>1. CASE OpenStep
  BY <1>1, NewArmed
<1> SUFFICES ASSUME WorkStep PROVE ArmedInv'
  BY <1>1, WorkerWork
<1>2. ASSUME slot' = slot, pipe' = pipe \/ \E q : Put(q), wk' = wk
      PROVE  ArmedInv'
  <2>1. scene' = scene /\ ThreadArmed
    BY <1>2, ArmedSet DEF WorkStep
  <2> QED
    BY <1>2, <2>1, ArmedThread
<1>3. ASSUME slot' = slot, pipe' = pipe \/ \E q : Put(q),
             \E r : /\ wk' = [wk EXCEPT ![w] = r]
                    /\ r.pc \in {"check", "write"} => r.cmd # "W"
                    /\ wk[w].pc # "idle" /\ wk[w].cmd = "W" =>
                         \/ r.pc # "idle" /\ r.cmd = "W" /\ r.id = wk[w].id
                         \/ \E q : Put(q) /\ q.cmd = "W" /\ q.id = wk[w].id
      PROVE  ArmedInv'
  BY <1>3, ArmedAct
<1>4. CASE Connect(w) \/ Listen(w) \/ BindFd(w) \/ Udp(w)
  BY <1>1, <1>4, OpenRequestOpen DEF Connect, Listen, BindFd, Udp, Opening
<1>5. ASSUME NEW id \in 1 .. alloc, StartPause(w, id) \/ Close(w, id) \/ Shutdown(w, id)
      PROVE  ArmedInv'
  BY <1>2, <1>5 DEF StartPause, Close, Shutdown, Request, sockVars
<1>6. CASE Exit(w)
  BY <1>2, <1>6 DEF Exit, sockVars
<1>7. ASSUME NEW id \in 1 .. alloc, Send(w, id) \/ SendLow(w, id) \/ UdpSend(w, id)
      PROVE  ArmedInv'
  <2>0. PICK kind \in Data : \E bad, direct : Sending(w, id, kind, bad, direct)
    BY <1>7 DEF Send, SendLow, UdpSend, Data
  <2>1. PICK bad, direct : Sending(w, id, kind, bad, direct)
    BY <2>0
  <2> DEFINE r == [pc |-> IF direct THEN "check" ELSE Queueing(kind), id |-> id, p |-> Len(sent) + 1, cmd |-> kind]
  <2>2. UNCHANGED <<slot, pipe>> /\ wk[w].pc = "idle" /\ (wk' = wk \/ wk' = [wk EXCEPT ![w] = r])
    BY <2>1 DEF Sending, Goto, Call, Idle
  <2>3. r.cmd # "W"
    BY DEF Data
  <2> HIDE DEF r
  <2> QED
    BY <1>2, <1>3, <2>2, <2>3
<1>8. ASSUME NEW id \in 1 .. alloc, UdpConnect(w, id)
      PROVE  ArmedInv'
  <2> DEFINE r == [pc |-> "resolve", id |-> id, p |-> 0, cmd |-> "C"]
  <2>1. /\ wk' = [wk EXCEPT ![w] = r] /\ wk[w].pc = "idle" /\ pipe' = pipe
        /\ slot' = [slot EXCEPT ![H(id)].udpconnecting = @ + 1]
    BY <1>8 DEF UdpConnect, Call, Idle, Goto
  <2>2. r.cmd = "C"
    OBVIOUS
  <2> HIDE DEF r
  <2>3. \A j \in Slots : slot'[j].dw = slot[j].dw
    BY <2>1 DEF TypeOK, Sockets
  <2> QED
    BY <2>1, <2>2, <2>3, ArmedAct
<1>9. CASE DoubleCheck(w)
  <2> DEFINE r == [wk[w] EXCEPT !.pc = IF CanDirectWrite(slot[H(wk[w].id)], wk[w].id) THEN "write" ELSE Queueing(wk[w].cmd)]
  <2>1. wk' = [wk EXCEPT ![w] = r] /\ wk[w].pc = "check" /\ UNCHANGED <<slot, pipe>>
    BY <1>9 DEF DoubleCheck, Goto
  <2>2. wk[w] \in Working /\ wk[w].cmd # "W"
    BY <2>1, HoldsLock DEF ArmedInv
  <2>3. r.cmd = wk[w].cmd
    BY <2>2 DEF Working
  <2> HIDE DEF r
  <2> QED
    BY <1>3, <2>1, <2>2, <2>3
<1>10. CASE DirectWrite(w)
  <2>1. wk[w].pc = "write" /\ pipe' = pipe
    BY <1>10, DirectWriteSlot
  <2>2. /\ wk[w] \in Working /\ wk[w].cmd # "W" /\ H(wk[w].id) \in Slots /\ slot[H(wk[w].id)].id = wk[w].id
        /\ slot[H(wk[w].id)].type \notin Unused
    BY <2>1, HoldsLock DEF ArmedInv, Unused, Early
  <2>3. CASE slot' = slot /\ wk' = [wk EXCEPT ![w] = Resting]
    <3>1. Resting.pc = "idle"
      BY DEF Resting
    <3> QED
      BY <1>3, <2>1, <2>2, <2>3, <3>1
  <2>4. CASE slot' = slot /\ wk' = [wk EXCEPT ![w] = [wk[w] EXCEPT !.pc = "put"]]
    <3>1. [wk[w] EXCEPT !.pc = "put"].pc = "put"
      BY <2>2 DEF Working
    <3> QED
      BY <1>3, <2>1, <2>2, <2>4, <3>1
  <2>5. CASE \E b : /\ slot' = [slot EXCEPT ![H(wk[w].id)].dw = b]
                    /\ wk' = [wk EXCEPT ![w] = [wk[w] EXCEPT !.pc = "inc", !.cmd = "W"]]
    <3>1. PICK r : r = [wk[w] EXCEPT !.pc = "inc", !.cmd = "W"]
      OBVIOUS
    <3>2. r.pc = "inc" /\ r.cmd = "W" /\ r.id = wk[w].id
      BY <2>2, <3>1 DEF Working
    <3>3. wk' = [wk EXCEPT ![w] = r]
      BY <2>5, <3>1
    <3>4. \A j \in Slots : j # H(wk[w].id) => slot'[j].dw = slot[j].dw
      BY <2>5 DEF TypeOK
    <3> QED
      BY <2>1, <2>2, <3>2, <3>3, <3>4, ArmedAct
  <2> QED
    BY <1>10, <2>3, <2>4, <2>5, DirectWriteSlot
<1>11. CASE IncSending(w)
  <2> DEFINE r == [wk[w] EXCEPT !.pc = "put"]
  <2>1. /\ wk' = [wk EXCEPT ![w] = r] /\ wk[w].pc = "inc" /\ pipe' = pipe
        /\ slot' = slot \/ slot' = [slot EXCEPT ![H(wk[w].id)].sending = @ + 1]
    BY <1>11 DEF IncSending, Goto
  <2>2. wk[w] \in Working
    BY <2>1, AtWork DEF TypeOK
  <2>3. r.pc = "put" /\ r.cmd = wk[w].cmd /\ r.id = wk[w].id
    BY <2>2 DEF Working
  <2> HIDE DEF r
  <2>4. \A j \in Slots : slot'[j].dw = slot[j].dw
    <3>1. CASE slot' = slot
      BY <3>1
    <3>2. CASE slot' = [slot EXCEPT ![H(wk[w].id)].sending = @ + 1]
      BY <3>2 DEF TypeOK, Sockets
    <3> QED
      BY <2>1, <3>1, <3>2
  <2> QED
    BY <2>1, <2>3, <2>4, ArmedAct
<1>12. CASE PutRequest(w)
  <2> DEFINE q == [cmd |-> wk[w].cmd, id |-> wk[w].id, p |-> wk[w].p]
  <2>1. wk' = [wk EXCEPT ![w] = Resting] /\ Put(q) /\ slot' = slot
    BY <1>12 DEF PutRequest, Goto, sockVars
  <2>2. q.cmd = wk[w].cmd /\ q.id = wk[w].id /\ Resting.pc = "idle"
    BY DEF Resting
  <2> HIDE DEF q
  <2> QED
    BY <1>3, <2>1, <2>2
<1>13. CASE Resolve(w)
  <2>1. wk' = [wk EXCEPT ![w] = Resting] /\ slot' = slot /\ (pipe' = pipe \/ \E q : Put(q)) /\ wk[w].pc = "resolve"
    BY <1>13 DEF Resolve, Goto
  <2>2. wk[w].cmd = "C"
    <3>1. wk[w] \in WorkerRecs
      BY DEF TypeOK
    <3> QED
      BY <2>1, <3>1 DEF WorkerRecs, Working, Resting
  <2>3. Resting.pc = "idle"
    BY DEF Resting
  <2> QED
    BY <1>3, <2>1, <2>2, <2>3
<1> QED
  BY <1>4, <1>5, <1>6, <1>7, <1>8, <1>9, <1>10, <1>11, <1>12, <1>13 DEF Worker

LEMMA ArmedNext ==
  ASSUME BaseInv, ArmedInv, [Next]_vars
  PROVE  ArmedInv'
<1> USE DEF BaseInv
<1>1. ASSUME UNCHANGED <<scene, slot, pipe, wk>> PROVE ArmedInv'
  BY <1>1, ArmedSet, ArmedThread
<1>2. CASE UNCHANGED vars
  BY <1>1, <1>2 DEF vars
<1>3. CASE \E w \in Workers : Worker(w)
  BY <1>3, WorkerArmed
<1>4. CASE SocketThread
  <2>1. CASE OpenSocket \/ ListenSocket \/ BindSocket \/ AddUdpSocket
    BY <2>1, OpeningSlot, NewArmed
  <2>2. CASE ReportAccept
    <3>1. CASE OpenStep
      BY <3>1, NewArmed
    <3>2. CASE UNCHANGED <<slot, pipe>>
      BY <1>1, <2>2, <3>2 DEF ReportAccept, Event, workVars
    <3> QED
      BY <2>2, <3>1, <3>2, ReportAcceptOpen
  <2>3. CASE TriggerWrite
    BY <2>3, TriggerWriteArmed
  <2>4. CASE SpWait
    BY <1>1, <2>4 DEF SpWait, workVars
  <2>5. ASSUME ThreadStep, ThreadArmed, pipe' = pipe \/ (pipe # <<>> /\ pipe' = Tail(pipe) /\ Req.cmd # "W")
        PROVE  ArmedInv'
    <3>1. UNCHANGED <<scene, wk>> /\ \A i \in Slots : slot'[i].id = slot[i].id
      BY <2>5 DEF ThreadStep, workVars, ThreadSteady, SteadyAt
    <3> QED
      BY <2>5, <3>1, ArmedThread
  <2>6. CASE CloseSocket \/ Resume \/ Pause \/ SetUdpAddress \/ SendSocket
    <3>1. ThreadStep
      BY <2>6, CloseSocketStep, ResumeStep, AdjustStep, SendSocketStep
    <3>2. ThreadArmed
      BY <2>6, CloseSocketArmed, ResumeArmed, AdjustArmed, SendSocketArmed
    <3>3. pipe # <<>> /\ pipe' = Tail(pipe) /\ Req.cmd # "W"
      BY <2>6 DEF CloseSocket, Resume, Pause, SetUdpAddress, Adjust, SendSocket, Ctrl
    <3> QED
      BY <2>5, <3>1, <3>2, <3>3
  <2>7. CASE ExitCmd
    <3>1. ThreadStep /\ slot' = slot /\ pipe # <<>> /\ pipe' = Tail(pipe) /\ Req.cmd # "W"
      BY <2>7, ExitCmdStep DEF ExitCmd, Ctrl
    <3> QED
      BY <2>5, <3>1, ArmedSet
  <2>8. CASE \/ DecSending \/ ForceClose \/ ReportConnect \/ InvalidSocket \/ VoidEvent \/ ReadTcp \/ ReadUdp \/ SendBuffer
             \/ ErrorEvent \/ ClearEvent \/ NoCommand \/ ReservedEvent
    <3>1. ThreadStep
      BY <2>8, DecSendingStep, ForceCloseStep, ReportConnectStep, SkippedStep, ReadTcpStep, ReadUdpStep, SendBufferStep,
         ErrorEventStep, QuietStep, ReservedEventStep
    <3>2. pipe' = pipe
      BY <2>8 DEF DecSending, ForceClose, ReportConnect, InvalidSocket, VoidEvent, ReadTcp, ReadUdp, SendBuffer, ErrorEvent, Event,
                  ClearEvent, NoCommand, ReservedEvent
    <3>3. ThreadArmed
      <4>1. InvalidSocket \/ VoidEvent \/ ClearEvent \/ NoCommand => ThreadArmed
        BY ArmedSet DEF InvalidSocket, VoidEvent, ClearEvent, NoCommand
      <4> QED
        BY <2>8, <4>1, DecSendingArmed, ReportConnectArmed, ReadArmed, SendBufferArmed, ReservedEventArmed
    <3> QED
      BY <2>5, <3>1, <3>2, <3>3
  <2> QED
    BY <1>4, <2>1, <2>2, <2>3, <2>4, <2>6, <2>7, <2>8 DEF SocketThread
<1>5. CASE \E id \in Ids : Network(id)
  BY <1>1, <1>5 DEF Network
<1> QED
  BY <1>2, <1>3, <1>4, <1>5 DEF Next

LEMMA ArmedInit == Init => ArmedInv
<1> SUFFICES ASSUME Init PROVE ArmedInv
  OBVIOUS
<1>1. slot = [i \in Slots |-> FreshSlot] /\ wk = [w \in Workers |-> Resting]
  BY DEF Init
<1>2. FreshSlot.type = "INVALID" /\ Resting.cmd = "none"
  BY DEF FreshSlot, Resting
<1>3. Tame(FreshSlot) /\ ~Waits(FreshSlot)
  BY <1>2 DEF Tame, Waits, Unused, Writers
<1> QED
  BY <1>1, <1>2, <1>3 DEF ArmedInv

(* Whenever something waits in a list or in the direct write buffer of a   *)
(* live TCP socket, the write event is enabled, or a request to enable it  *)
(* is on its way: nothing is left behind by send_socket, send_buffer,      *)
(* report_connect or a worker that could write only a part of its packet.  *)
THEOREM SocketWriteArmed == Spec => []WriteArmed
<1>1. Init => ArmedInv
  BY ArmedInit
<1>2. BaseInv /\ ArmedInv /\ [Next]_vars => ArmedInv'
  BY ArmedNext
<1>3. ArmedInv => WriteArmed
  BY DEF ArmedInv, WriteArmed, Waits, Pending, Asking, Writers
<1> QED
  BY <1>1, <1>2, <1>3, SocketBase, PTL DEF Spec

=============================================================================
