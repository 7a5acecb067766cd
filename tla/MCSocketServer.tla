--------------------------- MODULE MCSocketServer ---------------------------
EXTENDS SocketServer, TLC
CONSTANTS w1, w2
MCWorkers == {w1, w2}
WorkerSymmetry == Permutations(MCWorkers)

Tcp == [nslot |-> 1, nevent |-> 1, ids |-> 1, ncall |-> 4, nmove |-> 1,
        kinds |-> {"O"}, calls |-> {"D", "P", "K"}]
Peer == [Tcp EXCEPT !.ncall = 3, !.nmove = 3, !.kinds = {"O", "B"}, !.calls = {"D", "K", "X", "R", "S"}]
Datagrams == [Tcp EXCEPT !.kinds = {"U"}, !.calls = {"D", "A", "C", "K"}]
Accepts == [Tcp EXCEPT !.nslot = 2, !.nevent = 2, !.ids = 2, !.nmove = 3, !.kinds = {"L"},
                      !.calls = {"D", "R", "K", "exit"}]
Reuse == [Tcp EXCEPT !.ids = 2, !.nmove = 0, !.calls = {"D", "K"}]
Reused == [Tcp EXCEPT !.nevent = 2, !.ids = 2, !.ncall = 3, !.nmove = 3, !.calls = {"D", "K", "X"}]
ReusedScenes == {Reused}
MCScenes == {Tcp, Peer, Datagrams, Accepts, Reuse, Reused}
=============================================================================
