--------------------------- MODULE Configurations ---------------------------
(***************************************************************************)
(* The six configurations under which a program on secret shared numbers   *)
(* runs, each with the parameters and streams of its protocol:             *)
(*   aby3   three ranks with replicated shares,                            *)
(*   tfp    semi2k of three ranks, of which rank 0 is the dealer,          *)
(*   ttp    semi2k of two ranks, whose dealer is a server asked by rank 1, *)
(*   cheetah  two ranks and oblivious transfers,                           *)
(*   securenn  two ranks and a third that deals them correlated numbers,   *)
(*   spdz2k    two ranks whose shares carry MACs.                          *)
(*                                                                         *)
(* Each operator here is one of the parameters of Protocols.               *)
(***************************************************************************)
EXTENDS Values

CONSTANTS Prg(_, _),
          Shuffled(_, _),            \* of aby3 and semi2k: the random permutations
          OTBits, CompareRadix,      \* parameters of aby3 and of cheetah
          P,                         \* of securenn: the prime of its comparison
          GlobalKey,                 \* and of spdz2k: the key of its MACs
          Seeds                      \* the seeds the ranks have drawn

A3  == INSTANCE Aby3 WITH World <- 3
Tfp == INSTANCE Semi2k WITH World <- 3, AdjustRank <- 0, AskedByOwner <- FALSE
Ttp == INSTANCE Semi2k WITH World <- 2, AdjustRank <- 1, AskedByOwner <- TRUE
Chee == INSTANCE Cheetah WITH World <- 2
Snn == INSTANCE SecureNN WITH World <- 3
Spdz == INSTANCE Spdz2k WITH World <- 2

ASSUME PrimeAssumption ==
    /\ P \in Nat /\ P > K + 2          \* a sum of K bits and 2 is not a multiple
    /\ \A n \in 2..P-1 : P % n # 0
ASSUME KeyAssumption == GlobalKey \in Ring

Prots == {"aby3", "tfp", "ttp", "cheetah", "securenn", "spdz2k"}
ByProtocol(prot, aby3, tfp, ttp, cheetah, securenn, spdz2k) ==
    CASE prot = "aby3" -> aby3 [] prot = "tfp" -> tfp [] prot = "ttp" -> ttp
      [] prot = "cheetah" -> cheetah [] prot = "securenn" -> securenn
      [] prot = "spdz2k" -> spdz2k

RanksOf(prot) ==
    ByProtocol(prot, A3!Rank, Tfp!Rank, Ttp!Rank, Chee!Rank, Snn!Rank, Spdz!Rank)

\* The number that shares stand for.
NumberOf(prot, x) ==
    LET number == ByProtocol(prot, A3!fromShares(x), Tfp!fromShares(x), Ttp!fromShares(x),
                             Chee!fromShares(x), Snn!fromShares(x), Spdz!fromShares(x))
    IN  number

StreamsOf(prot) ==
    ByProtocol(prot, A3!InitStreams(Seeds), Tfp!InitStreams(Seeds), Ttp!InitStreams(Seeds),
               Chee!InitStreams(Seeds), Snn!InitStreams(Seeds), Spdz!Keyed(Seeds))

\* A secret number, and a secret truth value, as they enter the program by
\* io.cc; only aby3 has bits of its own there, the others seal a public one, and
\* spdz2k, which cannot seal a zero, adds a one to it.
SharesOf(prot, num) ==
    LET r == [i \in 0..3 |-> Prg(i, num)]
    IN  ByProtocol(prot, A3!toShares(num, r[1], r[2]), Tfp!toShares(num, r),
                   Ttp!toShares(num, r), Chee!toShares(num, r), Snn!toTwoShares(num, r[1]),
                   Spdz!toShares(num, r[1]))
BitSharesOf(prot, st, bit) ==
    LET r == [i \in 0..3 |-> Prg(i, bit)]
        public == Pub([i \in RanksOf(prot) |-> bit])
        one == Pub([i \in RanksOf(prot) |-> 1])
        sealed == Spdz!Hal!seal(st, one, TRUE)
    IN  ByProtocol(prot, [st |-> st, v |-> A3!makeBitSecret(bit, r[1], r[2])],
                   Tfp!Hal!seal(st, public, TRUE), Ttp!Hal!seal(st, public, TRUE),
                   Chee!Hal!seal(st, public, TRUE), Snn!Hal!seal(st, public, TRUE),
                   IF bit = 1 THEN sealed ELSE Spdz!Hal!xor(sealed.st, sealed.v, one))

\* One call of hal on the values x and y, a number and a rank.  (Behind a LET,
\* TLC's statistics do not unfold all protocols for each action of a program.)
CallOf(prot, st, op, x, y, n) ==
    LET result ==
            ByProtocol(prot, A3!Hal!call(st, op, x, y, n), Tfp!Hal!call(st, op, x, y, n),
                       Ttp!Hal!call(st, op, x, y, n), Chee!Hal!call(st, op, x, y, n),
                       Snn!Hal!call(st, op, x, y, n), Spdz!Hal!call(st, op, x, y, n))
    IN  result

\* One call on the columns of a table.
TableCallOf(prot, st, op, xs, how) ==
    LET result ==
            ByProtocol(prot, A3!Tables!callTable(st, op, xs, how),
                       Tfp!Tables!callTable(st, op, xs, how), Ttp!Tables!callTable(st, op, xs, how),
                       Chee!Tables!callTable(st, op, xs, how), Snn!Tables!callTable(st, op, xs, how),
                       Spdz!Tables!callTable(st, op, xs, how))
    IN  result

\* The streams of a context and of its fork, where all states can be forked.
Forks(prot) == prot \notin {"cheetah", "spdz2k"}
ForkOf(prot, st) ==
    CASE prot = "aby3" -> A3!fork(st) [] prot = "tfp" -> Tfp!fork(st)
      [] prot = "ttp" -> Ttp!fork(st) [] prot = "securenn" -> Snn!fork(st)

\* What the kernels ask of their operands: whether two values have a kernel
\* that compares them; whether a call of op has a kernel that takes x.
ComparesOf(prot, x, y) ==
    LET kernel == ByProtocol(prot, A3!Hal!HasEqual(x, y), Tfp!Hal!HasEqual(x, y),
                             Ttp!Hal!HasEqual(x, y), Chee!Hal!HasEqual(x, y),
                             Snn!Hal!HasEqual(x, y), Spdz!Hal!HasEqual(x, y))
    IN  kernel
Gives(prot, x) ==
    LET kernel == ByProtocol(prot, A3!Hal!CanS2V(x), Tfp!Hal!CanS2V(x), Ttp!Hal!CanS2V(x),
                             Chee!Hal!CanS2V(x), Snn!Hal!CanS2V(x), Spdz!Hal!CanS2V(x))
    IN  kernel
TakesOf(prot, op, x, n) ==
    LET kernel == CASE op = "s2v"     -> Gives(prot, x)
                    [] op = "arshift" -> (prot = "aby3" /\ IsB(x)) => A3!CanARShiftB(x)
                    [] op = "bitrev"  -> (prot = "spdz2k" /\ IsB(x)) => Spdz!CanBitrevB(x, n)
                    [] op = "fork"    -> Forks(prot)
                    [] op = "permute" -> prot \in {"aby3", "tfp", "ttp"}
    IN  kernel

\* Every copy of a replicated part is the same, and every MAC fits its number.
ConsistentOf(prot, x) ==
    LET copies == CASE prot = "aby3"   -> A3!Consistent(x)
                    [] prot = "spdz2k" -> Spdz!Consistent(x)
                    [] OTHER           -> TRUE
    IN  copies
\* The ranks have drawn equally often from every stream they share.
AlignedOf(prot, st) ==
    ByProtocol(prot, A3!Aligned(st), Tfp!Aligned(st), Ttp!Aligned(st), Chee!Aligned(st),
               Snn!Aligned(st), Spdz!Aligned(st))
=============================================================================
