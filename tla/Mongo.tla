------------------------------- MODULE Mongo --------------------------------
(***************************************************************************)
(* lualib-src/lua-mongo.c: the messages of the MongoDB driver, built in a  *)
(* buffer that grows by doubling, and the replies taken apart.             *)
(*                                                                         *)
(* A message is a sequence of items, each with its width in bytes: an int32 *)
(* [w |-> 4, int |-> v], a string with its end, eight bytes of a cursor or *)
(* a bson document, which begins with its own length.                      *)
(***************************************************************************)
EXTENDS Integers, Sequences, SequencesExt, Folds

CONSTANTS DefaultCap,  \* DEFAULT_CAP
          NameLens,    \* lengths of collection names
          DocLens,     \* lengths of documents
          MaxDocs,     \* bound: documents of an insert, entries of a table
          ReplySizes,  \* bytes of documents in a reply
          ReadLens     \* lengths that are read from them

VARIABLES req,  \* what the driver was asked for, or what the server answered
          out   \* the message, or what op_reply returned

mongoVars == <<req, out>>

Word(v) == [w |-> 4, int |-> v]
Name(len) == [w |-> len + 1, str |-> len]
Doc(len) == [w |-> len, doc |-> len]
Cursor == [w |-> 8, cursor |-> 5]

SizeOf(items) == FoldLeft(LAMBDA n, i : n + i.w, 0, items)
get_length(doc) == doc.doc

-----------------------------------------------------------------------------
(* The buffer: [cap, items, over].                                         *)

buffer_create == [cap |-> DefaultCap, items |-> <<>>, over |-> FALSE]

MaxReads == 3  \* bound: as many lengths are read from the largest ReplySizes

RECURSIVE Doubled(_, _)
Doubled(cap, need) == IF 2 * cap <= need THEN Doubled(2 * cap, need) ELSE 2 * cap
buffer_reserve_Once(b, sz) == IF SizeOf(b.items) + sz <= b.cap THEN b ELSE [b EXCEPT !.cap = 2 * @]
buffer_reserve(b, sz) ==
    IF SizeOf(b.items) + sz <= b.cap THEN b ELSE [b EXCEPT !.cap = Doubled(@, SizeOf(b.items) + sz)]

Put(b, item) == [b EXCEPT !.items = Append(@, item), !.over = @ \/ SizeOf(b.items) + item.w > b.cap]
write_int32(b, v) == Put(buffer_reserve(b, 4), Word(v))
write_bytes(b, item) == Put(buffer_reserve(b, 8), item)
write_string(b, name) == Put(buffer_reserve(b, name + 1), Name(name))
reserve_length(b) == Put(buffer_reserve(b, 4), Word(0))
write_length(b, v) == [b EXCEPT !.items[1] = Word(v)]

Words(b, vs) == FoldLeft(write_int32, b, vs)

-----------------------------------------------------------------------------
(* The messages.  Docs follow the buffer, and count in the length.         *)

Finish(b, docs) == [items |-> write_length(b, SizeOf(b.items) + SizeOf(docs)).items \o docs, over |-> b.over]

op_query(r) ==
    LET b == write_string(Words(reserve_length(buffer_create), <<r.id, 0, 2004, r.flags>>), r.name)
    IN Finish(Words(b, <<r.skip, r.number>>), r.docs)
op_kill(r) == Finish(write_bytes(Words(reserve_length(buffer_create), <<0, 0, 2007, 0, 1>>), Cursor), <<>>)
op_delete(r) ==
    Finish(write_int32(write_string(Words(reserve_length(buffer_create), <<0, 0, 2006, 0>>), r.name), r.flags), r.docs)
op_get_more(r) ==
    LET b == write_string(Words(reserve_length(buffer_create), <<r.id, 0, 2005, 0>>), r.name)
    IN Finish(write_bytes(write_int32(b, r.number), Cursor), <<>>)
op_update(r) ==
    Finish(write_int32(write_string(Words(reserve_length(buffer_create), <<0, 0, 2001, 0>>), r.name), r.flags), r.docs)
document_length(r) == FoldLeft(LAMBDA n, d : n + get_length(d), 0, r.docs)
op_insert(r) ==
    LET b == write_string(Words(reserve_length(buffer_create), <<0, 0, 2002, r.flags>>), r.name)
    IN [items |-> write_length(b, SizeOf(b.items) + document_length(r)).items \o r.docs, over |-> b.over]

-----------------------------------------------------------------------------
(* op_reply: a reply of the server without its length: the request's id,   *)
(* flags, cursor, start, number, and size bytes of documents; lens are the *)
(* lengths read from them in turn.  table is what the result table held,   *)
(* as its length; -1 without one.  docs are where the documents found are, *)
(* tab how many entries the table has afterwards.                          *)

Refused(res, r, n) == [res |-> res, docs |-> <<>>, tab |-> IF n > r.table THEN n ELSE r.table]

RECURSIVE Walk(_, _, _)
\* the documents, one after the other while more than 4 bytes are left
Walk(r, docs, sz) ==
    LET doc_len == r.lens[Len(docs) + 1]
    IN  IF sz <= 4 THEN [docs |-> docs, rest |-> sz, bad |-> FALSE]
        ELSE IF doc_len <= 0 THEN [docs |-> Append(docs, r.size - sz), rest |-> sz, bad |-> TRUE]
        ELSE Walk(r, Append(docs, r.size - sz), sz - doc_len)

\* with bytes left over, or too few, an error is raised; entries of the table beyond
\* the documents are set to nil before that
Finished_Any(r, docs, rest) ==
    [res |-> "ok", docs |-> docs, tab |-> Len(docs), first |-> r.number # 0, cursor |-> r.cursor]
Finished(r, docs, rest) ==
    IF rest # 0 THEN [res |-> "error", docs |-> <<>>, tab |-> Len(docs)]
    ELSE [res |-> "ok", docs |-> docs, tab |-> Len(docs), first |-> r.number # 0, cursor |-> r.cursor]

InTable(r, w) ==
    CASE w.bad -> Refused("error", r, Len(w.docs))
      [] ~w.bad /\ Len(w.docs) # r.number -> Refused("false", r, Len(w.docs))
      [] OTHER -> Finished(r, w.docs, w.rest)

op_reply(r) ==
    CASE r.short -> Refused("short", r, 0)
      [] ~r.short /\ r.failed -> Refused("false", r, 0)
      [] ~r.short /\ ~r.failed /\ r.table >= 0 -> InTable(r, Walk(r, <<>>, r.size))
      [] OTHER -> Finished(r, <<>>, IF r.size >= 4 THEN r.size - r.lens[1] ELSE r.size)

reply_length(bytes) == bytes - 4

-----------------------------------------------------------------------------
Docs(n) == UNION {[1 .. k -> {Doc(len) : len \in DocLens}] : k \in n}

Requests ==
    [op : {"query"}, id : {3}, flags : {0, 4}, name : NameLens, skip : {0, 1}, number : {-1, 2}, docs : Docs({1, 2})]
    \cup [op : {"kill"}, docs : {<<>>}]
    \cup [op : {"delete"}, flags : {0, 1}, name : NameLens, docs : Docs({1})]
    \cup [op : {"more"}, id : {3}, name : NameLens, number : {2}, docs : {<<>>}]
    \cup [op : {"update"}, flags : {0, 1}, name : NameLens, docs : Docs({2})]
    \cup [op : {"insert"}, flags : {0, 1}, name : NameLens, docs : Docs(0 .. MaxDocs)]
Replies ==
    [op : {"reply"}, short : {FALSE}, failed : {FALSE}, cursor : BOOLEAN, number : 0 .. MaxReads,
     size : ReplySizes, lens : [1 .. MaxReads -> ReadLens], table : {-1, 0, MaxDocs}]
    \cup [op : {"reply"}, short : {TRUE}, failed : {FALSE}, table : {-1, MaxDocs}]
    \cup [op : {"reply"}, short : {FALSE}, failed : {TRUE}, table : {-1, MaxDocs}]

MongoInit == req = [op |-> "none"] /\ out = [items |-> <<>>, over |-> FALSE]

Send ==
    /\ req.op = "none"
    /\ req' \in Requests
    /\ out' = CASE req'.op = "query" -> op_query(req')
                [] req'.op = "kill" -> op_kill(req')
                [] req'.op = "delete" -> op_delete(req')
                [] req'.op = "more" -> op_get_more(req')
                [] req'.op = "update" -> op_update(req')
                [] req'.op = "insert" -> op_insert(req')
Receive ==
    /\ req.op = "none"
    /\ req' \in Replies
    /\ out' = op_reply(req')

MongoNext == Send \/ Receive

MongoSpec == MongoInit /\ [][MongoNext]_mongoVars

-----------------------------------------------------------------------------
(* What the server finds in a message, field by field, after its opcode:   *)
(* the layouts of the wire protocol.                                       *)
Layout(r) ==
    CASE r.op = "query"  -> <<Word(r.id), Word(0), Word(2004), Word(r.flags), Name(r.name), Word(r.skip), Word(r.number)>> \o r.docs
      [] r.op = "kill"   -> <<Word(0), Word(0), Word(2007), Word(0), Word(1), Cursor>>
      [] r.op = "delete" -> <<Word(0), Word(0), Word(2006), Word(0), Name(r.name), Word(r.flags)>> \o r.docs
      [] r.op = "more"   -> <<Word(r.id), Word(0), Word(2005), Word(0), Name(r.name), Word(r.number), Cursor>>
      [] r.op = "update" -> <<Word(0), Word(0), Word(2001), Word(0), Name(r.name), Word(r.flags)>> \o r.docs
      [] r.op = "insert" -> <<Word(0), Word(0), Word(2002), Word(r.flags), Name(r.name)>> \o r.docs

\* the documents, as many as the reply says, fill it exactly
Sum(lens) == FoldLeft(LAMBDA n, len : n + len, 0, lens)
Tiled(r) ==
    LET lens == SubSeq(r.lens, 1, r.number)
    IN  /\ Sum(lens) = r.size
        /\ \A i \in DOMAIN lens : lens[i] > 0
        /\ lens # <<>> => Last(lens) > 4

(* Every message of the driver begins with its exact length, never writes  *)
(* past the buffer, however long the collection's name, and holds the      *)
(* fields in the server's order (op_query ... op_insert).  A reply is      *)
(* taken exactly when its documents, by their own lengths, are as many as  *)
(* it says and fill it; the table then has them and no document of an      *)
(* earlier reply.  Without a table it is one document, or nothing          *)
(* (op_reply).                                                             *)
MongoMessages ==
    CASE req.op = "none" -> TRUE
      [] req.op = "reply" /\ (req.short \/ req.failed) -> out.res # "ok"
      [] req.op = "reply" /\ ~req.short /\ ~req.failed /\ req.table >= 0 ->
            /\ out.res = "ok" <=> Tiled(req)
            /\ out.res = "ok" =>
                 /\ out.tab = req.number
                 /\ out.docs = [i \in 1 .. req.number |-> Sum(SubSeq(req.lens, 1, i - 1))]
      [] req.op = "reply" /\ ~req.short /\ ~req.failed /\ req.table < 0 ->
            out.res = "ok" => req.size \in {0, req.lens[1]}
      [] OTHER ->
            /\ ~out.over
            /\ out.items = <<Word(SizeOf(out.items))>> \o Layout(req)
            /\ reply_length(out.items[1].int) = SizeOf(Tail(out.items))
=============================================================================
