---------------------------- MODULE MCAdmission ----------------------------
(* Admission for TLC: four devices, the first two of them small ones. *)
EXTENDS Admission, TLC

CONSTANTS t1, t2, t3, net, disk, other

Gpu(count, floor) == [count |-> count, min_vram |-> floor]

Asks(resources, gpu, memory) ==
    [resources |-> resources, gpu |-> gpu, memory |-> memory, profiled |-> FALSE]

RankOf == net :> 1 @@ disk :> 2

LimitOf == net :> 1 @@ disk :> 1

Mixed == <<1, 1, 2, 2>>

\* Devices: two above a floor, one above it, any one with more memory than there is,
\* two above a floor no device reaches, all of them and more.
Pair       == Asks(<<>>, Gpu(2, 2), 0)
Big        == Asks(<<>>, Gpu(1, 2), 2)
AnyOne     == Asks(<<>>, Gpu(0, 0), 9)
TooBig     == Asks(<<>>, Gpu(2, 3), 1)
Everything == Asks(<<disk>>, Gpu(9, 0), 3)

\* Resources: the same two in opposite orders, and one without a semaphore.
NetDisk    == Asks(<<net, disk>>, None, 1)
DiskNet    == Asks(<<disk, net>>, None, 2)
OtherPair  == Asks(<<other>>, Gpu(2, 2), 1)

\* A profile that does not fit the memory budget.
Profiled == [Asks(<<net>>, None, 4) EXCEPT !.profiled = TRUE]

Three(a, b, c) == t1 :> a @@ t2 :> b @@ t3 :> c

Crowds == {Three(Pair, Big, Everything), Three(Pair, OtherPair, AnyOne), Three(Big, TooBig, Profiled),
           Three(NetDisk, DiskNet, Everything), Three(AnyOne, Everything, NetDisk)}
=============================================================================
