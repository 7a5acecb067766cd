----------------------------- MODULE MCServices -----------------------------
(***************************************************************************)
(* The parts of the server that are checked for what may never happen,     *)
(* each by itself: the ring of a message queue, the handle table, the      *)
(* commands, memory accounting and snlua services of the kernel, the C     *)
(* services and the libraries services talk through.  A behaviour is one   *)
(* of one part; the ring has its own variables, the other parts share v1   *)
(* to v14, and what a part does not use stays empty.                       *)
(***************************************************************************)
EXTENDS MessageQueue, TLC

CONSTANT EmptySlot   \* no context

VARIABLES part, v1, v2, v3, v4, v5, v6, v7, v8, v9, v10, v11, v12, v13, v14

(* The variables from the n-th on, and that they are empty.                *)
from12  == <<v12, v13, v14>>
from10  == <<v10, v11, from12>>
from9   == <<v9, from10>>
from8   == <<v8, from9>>
from7   == <<v7, from8>>
from6   == <<v6, from7>>
from5   == <<v5, from6>>
from4   == <<v4, from5>>
from1   == <<v1, v2, v3, from4>>
Empty12 == v12 = << >> /\ v13 = << >> /\ v14 = << >>
Empty10 == v10 = << >> /\ v11 = << >> /\ Empty12
Empty9  == v9 = << >> /\ Empty10
Empty8  == v8 = << >> /\ Empty9
Empty7  == v7 = << >> /\ Empty8
Empty6  == v6 = << >> /\ Empty7
Empty5  == v5 = << >> /\ Empty6
Empty4  == v4 = << >> /\ Empty5
Empty1  == v1 = << >> /\ v2 = << >> /\ v3 = << >> /\ Empty4

serviceVars == <<part, mqVars, from1>>

-----------------------------------------------------------------------------
(* The instances.                                                          *)

(* The table: three contexts on two slots that grow to four, three handles *)
(* so that the index wraps; and two contexts and three names on an array   *)
(* of one.                                                                 *)
HT == INSTANCE SkynetHandle WITH
       Ctxs <- {"c1", "c2", "c3"}, Names <- {}, Nameable <- {1}, Launching <- 1,
       SlotSize <- 2, NameCap <- 1, HandleMask <- 3, None <- EmptySlot,
       slot <- v1, handle_index <- v2, handle <- v3, issued <- v4, name <- v5,
       name_cap <- v6, all <- v7, asserted <- v8

HN == INSTANCE SkynetHandle WITH
       Ctxs <- {"c1", "c2"}, Names <- 1..3, Nameable <- {1}, Launching <- 1,
       SlotSize <- 1, NameCap <- 1, HandleMask <- 3, None <- EmptySlot,
       slot <- v1, handle_index <- v2, handle <- v3, issued <- v4, name <- v5,
       name_cap <- v6, all <- v7, asserted <- v8

(* The operations that are used together in one behaviour.                 *)
CommandsTogether ==
  {{"send", "callback", "kill", "monitor"}, {"log", "kill"}, {"launch", "kill", "name"},
   {"launch", "send"}, {"env", "session", "error", "abort", "stat"}}

CM == INSTANCE SkynetCommand WITH
       MaxHandle <- 5, Names <- {"launcher"}, Keys <- {"e"},
       Modules <- {"snlua", "logger", "x"}, NoInit <- {"x"}, MaxModule <- 3, IntMax <- 2,
       MaxBuf <- 5, MaxFile <- 2, MaxOps <- 2, Dests <- 4..6, Mutual <- CommandsTogether,
       k <- v1, run <- v2, ops <- v3

MH == INSTANCE MallocHook WITH
       Threads <- 1..2, Handles <- {1, 3}, SLOT_SIZE <- 2, Sizes <- {1},
       LuaSizes <- {1, 3}, MemLimit <- 4, MaxBlock <- 2, MaxOps <- 3,
       blocks <- v1, total <- v2, stats <- v3, th <- v4, lua <- v5, ops <- v6

SN == INSTANCE Snlua WITH
       Cos <- 1..2, Main <- 9, Signallers <- {11}, Wrap <- 4, MaxSignal <- 2,
       MaxTick <- 2, MaxResume <- 2,
       trap <- v1, activeL <- v2, hook <- v3, stack <- v4, st <- v5, pc <- v6,
       sig <- v7, time <- v8, used <- v9

HB == INSTANCE Harbor WITH
       QueueSize <- 2, MaxSend <- 2, MaxFrag <- 4,
       h <- v1, net <- v2, link <- v3, owner <- v4, says <- v5, sent <- v6,
       got <- v7

SB == INSTANCE SocketBuffer WITH
       Bytes <- 0..1, Sep <- <<0, 1, 0>>, MaxPush <- 4, MaxMsg <- 2, PageNode <- 1,
       sb <- v1, pool <- v2, op <- v3

NP == INSTANCE Netpack WITH
       Fds <- 1..2, Base <- 2, HashSize <- 1, QueueSize <- 2,
       Packages <- {<< >>, <<7>>}, MaxPackage <- 2, MaxConn <- 2,
       input <- v1, arrived <- v2, conns <- v3, q <- v4, got <- v5

(* A package and one that is too long; an empty package and half a header; *)
(* nothing.                                                                *)
ClientSends ==
  4 :> <<0, 1, 7, 1, 1>> @@ 6 :> <<0, 0, 0>> @@ 7 :> << >>

GT == INSTANCE Gate WITH
       Conns <- {4, 6, 7}, Cap <- 2, HashMod <- 2, Base <- 2, TooLong <- 3,
       Sends <- ClientSends, Agents <- {"a"}, Watchdog <- "w", MaxFrag <- 2, MaxCtrl <- 1,
       g <- v1, hash <- v2, conn <- v3, mp <- v4, sock <- v5, out <- v6

TL == INSTANCE Tls WITH
       Versions <- {12, 13}, MaxMsg <- 2,
       ver <- v1, tls <- v2, net <- v3, early <- v4

DC == INSTANCE DebugChannel WITH
       MaxCmd <- 3,
       chan <- v1, at <- v2, read <- v3, wrote <- v4, broken <- v5

(* A request in two parts to a handle, and to a name a request in one part *)
(* and a push in two.                                                      *)
ClusterCalls ==
  {[addr |-> <<1>>, size |-> 3, push |-> FALSE]}
    \cup {[addr |-> <<64, 7>>, size |-> IF p THEN 2 ELSE 1, push |-> p] : p \in BOOLEAN}

CL == INSTANCE Cluster WITH
       MultiPart <- 2, MaxSession <- 2, Calls <- ClusterCalls, ReplySizes <- {3},
       MaxCalls <- 3, MaxBreaks <- 1, MaxChanges <- 1,
       sent <- v1, session <- v2, thread <- v3, data <- v4, result <- v5,
       hi <- v6, lo <- v7, rhi <- v8, rlo <- v9, conn <- v10, agents <- v11,
       delivered <- v12, replies <- v13, changes <- v14

MU == INSTANCE Multicast WITH
       Nodes <- 1..2, NodeOf <- <<1, 2, 2>>, Base <- 3, Wrap <- 6, MaxOps <- 4, MaxNew <- 1,
       channel <- v1, remote <- v2, nextchan <- v3, asking <- v4, raced <- v5,
       dbox <- v6, sbox <- v7, link <- v8, pkgs <- v9, svc <- v10, ops <- v11

(* Two services of one node, and one operation more.                       *)
ML == INSTANCE Multicast WITH
       Nodes <- 1..2, NodeOf <- <<1, 1>>, Base <- 3, Wrap <- 6, MaxOps <- 5, MaxNew <- 1,
       channel <- v1, remote <- v2, nextchan <- v3, asking <- v4, raced <- v5,
       dbox <- v6, sbox <- v7, link <- v8, pkgs <- v9, svc <- v10, ops <- v11

ST == INSTANCE Stm WITH
       Readers <- {"r1", "r2"}, Writer <- "w", MaxUpdate <- 2,
       obj <- v1, lock <- v2, copies <- v3, box <- v4, pc <- v5, arg <- v6,
       touched <- v7

SD == INSTANCE Sharedata WITH
       ClientOf <- <<1, 1>>, MaxObj <- 3,
       objs <- v1, pool <- v2, watch <- v3, inbox <- v4, cache <- v5,
       call <- v6, proxy <- v7, mon <- v8, garbage <- v9

(* A table with a cycle, one with a metatable, and a file that fails.      *)
SharedFiles ==
  LET Table(refs, kind) == [refs |-> refs, kind |-> kind] IN
  {[root |-> 1, node |-> <<Table(<<2>>, "plain"), Table(<<1>>, "plain")>>],
   [root |-> 1, node |-> <<Table(<<2>>, "plain"), Table(<< >>, "meta")>>],
   [root |-> 0, node |-> << >>]}

SH == INSTANCE ShareTable WITH
       Files <- {"f", "g"}, Clients <- {"a", "b"}, Pointers <- 1..3,
       Sources <- SharedFiles, MaxLoad <- 2, MaxCalls <- 2,
       state <- v1, files <- v2, matrix <- v3, held <- v4, client <- v5,
       mail <- v6, bound <- v7

ASSUME TableAssumption == HT!HandleAssumption /\ HN!HandleAssumption /\ ST!StmAssumption

-----------------------------------------------------------------------------
ServicesInit ==
  /\ MqInit
  /\ \/ part = "ring" /\ Empty1
     \/ part = "handles" /\ HT!Init /\ Empty9
     \/ part = "names" /\ HN!Init /\ Empty9
     \/ part = "command" /\ CM!CommandInit /\ Empty4
     \/ part = "malloc" /\ MH!MallocInit /\ Empty7
     \/ part = "snlua" /\ SN!SnluaInit /\ Empty10
     \/ part = "harbor" /\ HB!Init /\ Empty8
     \/ part = "buffer" /\ SB!Init /\ Empty4
     \/ part = "netpack" /\ NP!Init /\ Empty6
     \/ part = "gate" /\ GT!Init /\ Empty7
     \/ part = "tls" /\ TL!TlsInit /\ Empty5
     \/ part = "debug" /\ DC!ChannelInit /\ Empty6
     \/ part = "cluster" /\ CL!Init
     \/ part = "multicast" /\ MU!Init /\ Empty12
     \/ part = "local" /\ ML!Init /\ Empty12
     \/ part = "stm" /\ ST!Init /\ Empty8
     \/ part = "sharedata" /\ SD!Init /\ Empty10
     \/ part = "sharetable" /\ SH!ShareInit /\ Empty8

(* A step of a part that uses the variables before rest.                   *)
Alone(p, rest) == part = p /\ UNCHANGED <<part, mqVars, rest>>

ServicesNext ==
  \/ part = "ring" /\ MqNext /\ UNCHANGED <<part, from1>>
  \/ Alone("handles", from9) /\ HT!Next
  \/ Alone("names", from9) /\ HN!Next
  \/ Alone("command", from4) /\ CM!CommandNext
  \/ Alone("malloc", from7) /\ MH!MallocNext
  \/ Alone("snlua", from10) /\ SN!SnluaNext
  \/ Alone("harbor", from8) /\ HB!Next
  \/ Alone("buffer", from4) /\ SB!Next
  \/ Alone("netpack", from6) /\ NP!Next
  \/ Alone("gate", from7) /\ GT!Next
  \/ Alone("tls", from5) /\ TL!TlsNext
  \/ Alone("debug", from6) /\ DC!ChannelNext
  \/ Alone("cluster", << >>) /\ CL!Next
  \/ Alone("multicast", from12) /\ MU!Next
  \/ Alone("local", from12) /\ ML!Next
  \/ Alone("stm", from8) /\ ST!Next
  \/ Alone("sharedata", from10) /\ SD!Next
  \/ Alone("sharetable", from8) /\ SH!ShareNext

ServicesSpec == ServicesInit /\ [][ServicesNext]_serviceVars

-----------------------------------------------------------------------------
(* Messages arrive whole, in order and once.  The packages netpack hands   *)
(* to a Lua gate and those the C gate forwards are the ones the clients    *)
(* sent, in fragments of any size; a harbor keeps the order of messages    *)
(* that were queued before the handshake and queues only then; a request   *)
(* of a cluster reaches its service with the data it was sent with, though *)
(* parts of large ones come interleaved; the commands typed into a debug   *)
(* console are read in order.                                              *)
StreamsInOrder ==
  /\ part = "netpack" => NP!PackagesFound
  /\ part = "gate" => GT!PackagesForwarded
  /\ part = "harbor" => HB!InOrder /\ HB!QueueOnlyBefore
  /\ part = "cluster" => CL!ClusterDelivers
  /\ part = "debug" => DC!ChannelKept

(* Memory has one owner: nothing is freed twice, freed while its owners    *)
(* use it or left behind.  The nodes of socket buffers, the copies of an   *)
(* stm object, the packages of a multicast, the objects of sharedata and   *)
(* sharetable, message buffers and log files of contexts, and the contexts *)
(* themselves under the commands; and the accounts of memory are exact     *)
(* when no thread is inside an allocation.  Not claimed, since the code    *)
(* does otherwise: a line is logged to a file that another service's       *)
(* LOGOFF has closed, a launcher looks into its context after it gave up   *)
(* the reference, and a line without logger is not freed (SkynetCommand).  *)
MemoryOwned ==
  /\ part = "buffer" => SB!NodesKept
  /\ part = "stm" => ST!StmFreedOnce
  /\ part = "multicast" => MU!PackagesCounted
  /\ part = "local" => ML!PackagesCounted
  /\ part = "sharedata" => SD!RefExact
  /\ part = "sharetable" => SH!SharedStays
  /\ part = "command" => CM!BuffersOwned /\ CM!LogFilesOwned /\ CM!ContextsHeld
  /\ part = "malloc" => MH!MemoryCounted

(* Nobody is forgotten: each call of a cluster is answered or fails once,  *)
(* and waits only while something is on its way for it; subscribers of a   *)
(* channel get what is published; a client of shared data has the newest   *)
(* version or is told of it, but for those an update that fails has lost;  *)
(* a TLS connection is not stuck with bytes to send or to read; and a      *)
(* signal to a service is pending until a hook takes it.                   *)
NobodyForgotten ==
  /\ part = "cluster" => CL!ClusterAnswers /\ CL!CallsAccounted
  /\ part = "multicast" => MU!SubscribersServed
  /\ part = "local" => ML!SubscribersServed
  /\ part = "sharedata" => SD!WatcherNewest /\ SD!WatchersKept
  /\ part = "tls" => TL!TlsNotStuck
  /\ part = "snlua" => SN!SignalPending

(* Tables that say the same thing in two places agree: slots, handles and  *)
(* names of contexts across growth and wrap of the handle table, the       *)
(* gate's connections and their hash, and what LAUNCH leaves of a context  *)
(* that failed; the CPU time profile reports is the time that was used,    *)
(* though coroutines resume each other and the clock wraps.                *)
TablesAgree ==
  /\ part = "handles" => /\ HT!TypeOK /\ HT!NoAssertFails /\ HT!FoundByHandle
                         /\ HT!NamesFound /\ HT!RetireallComplete
  /\ part = "names" => /\ HN!TypeOK /\ HN!NoAssertFails /\ HN!FoundByHandle
                       /\ HN!NamesFound /\ HN!RetireallComplete
  /\ part = "gate" => GT!ConnectionTable
  /\ part = "command" => CM!LaunchOrderly
  /\ part = "snlua" => SN!ProfileExact

(* A context that leaves the handle table takes its names with it: none of *)
(* them leads to the next service that gets the handle.  And what a read   *)
(* of the socket library returns is the next of the stream, up to the size *)
(* asked for or the first separator, wherever the messages of the socket   *)
(* thread were cut.                                                        *)
ServiceSteps ==
  [][/\ part = "handles" => HT!NamesTaken
     /\ part = "names" => HN!NamesTaken
     /\ part = "buffer" => SB!ReadIsNext]_serviceVars
=============================================================================
