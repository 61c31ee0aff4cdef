------------------------------- MODULE Parties -------------------------------
(***************************************************************************)
(* What every secret sharing protocol of libspu/mpc is built on: the ranks *)
(* of the link, the exchanges of Communicator (mpc/common/communicator.cc) *)
(* and the pseudo random streams of PrgState (mpc/common/prg_state.cc).    *)
(*                                                                         *)
(* A kernel runs on every rank at once.  It is an operator that takes the  *)
(* streams and its operands and returns a result [st, v]: the streams      *)
(* afterwards and the value of every rank.  The messages of one kernel     *)
(* carry tags of their own and are received in the kernel that sends them, *)
(* so that an exchange is a function of what the ranks hold.               *)
(*                                                                         *)
(* A stream is read at a seed and a counter that each rank keeps for       *)
(* itself: nothing makes two ranks read the same numbers but that both     *)
(* have drawn equally often.                                               *)
(***************************************************************************)
EXTENDS Values, Sequences

CONSTANTS World,        \* the number of ranks, two at least
          Prg(_, _)     \* the pseudo random function: seed and counter to Ring

Rank == 0..World-1
NextRank(i) == (i + 1) % World
PrevRank(i) == (i + World - 1) % World

Done(st, v) == [st |-> st, v |-> v]
Everywhere(v) == [i \in Rank |-> v]
OnlyAt(rank, v) == [i \in Rank |-> IF i = rank THEN v ELSE 0]
\* A kernel the protocol does not register: nobody may call it.
NoKernel(st, x) == CHOOSE r \in {} : TRUE
NoKernel2(st, x, y) == NoKernel(st, x)

\* vreduce: the first half is combined with the second, an odd one waits.
vreduce(st, shares, op(_, _, _)) ==
    LET level(acc) ==
            LET half == Len(acc.v) \div 2
                upto[n \in 0..half] ==
                    IF n = 0 THEN Done(acc.st, <<>>)
                    ELSE LET r == op(upto[n-1].st, acc.v[n], acc.v[half + n])
                         IN  Done(r.st, Append(upto[n-1].v, r.v))
                odd == IF Len(acc.v) % 2 = 1 THEN <<acc.v[Len(acc.v)]>> ELSE <<>>
            IN  Done(upto[half].st, upto[half].v \o odd)
        reduce[n \in 0..Len(shares)] ==
            IF n = 0 THEN Done(st, shares)
            ELSE LET prev == reduce[n-1] IN IF Len(prev.v) = 1 THEN prev ELSE level(prev)
        last == reduce[Len(shares)]
    IN  Done(last.st, last.v[1])

----------------------------------------------------------------------------
(* Communicator                                                            *)

SumOver(f) == Wrap(FoldFunction(+, 0, f))
XorOver(f) == FoldFunction(ring_xor, 0, f)

\* Send to the previous rank, receive from the next one.
rotate(f) == [i \in Rank |-> f[NextRank(i)]]
allReduceAdd(f) == Everywhere(SumOver(f))
allReduceXor(f) == Everywhere(XorOver(f))
bcast(f, root)  == Everywhere(f[root])

----------------------------------------------------------------------------
(* PrgState                                                                *)

\* The state after the constructor, where every rank has sent its own seed
\* to the previous rank: seeds.self[i] is the seed rank i drew.
InitStreams(seeds) ==
    [pub_seed  |-> Everywhere(SumOver(seeds.pub)),
     priv_seed |-> seeds.priv,
     self_seed |-> seeds.self,
     next_seed |-> rotate(seeds.self),
     pub |-> Everywhere(0), priv |-> Everywhere(0), prss |-> Everywhere(0),
     beaver_seed |-> seeds.beaver, tp_seed |-> seeds.beaver,
     beaver |-> Everywhere(0), local |-> 0,
     refused |-> FALSE,          \* a kernel has refused what it was called with
     atEdge |-> FALSE]           \* a kernel has met a number it does not provide for

\* fillPrssPair of numel elements: ctrl[i] says which of the pair rank i wants
\* ("Skip": rank i does not call at all).  What it does not ask for stays at
\* the zeros of the vector it would have filled.
Draws(seed, counter, numel) == [j \in 0..numel-1 |-> Prg(seed, counter + j)]
fillPrssPair(st, numel, ctrl) ==
    LET half(side, seed) ==
            [i \in Rank |-> IF ctrl[i] \in {"Both", side}
                              THEN Draws(seed[i], st.prss[i], numel)
                              ELSE [j \in 0..numel-1 |-> 0]]
    IN  [st |-> [st EXCEPT !.prss = Strict([i \in Rank |->
                    IF ctrl[i] = "Skip" THEN @[i] ELSE @[i] + numel])],
         r0 |-> half("First", st.self_seed),
         r1 |-> half("Second", st.next_seed)]

\* One element of each.
genPrssPair(st, ctrl) ==
    LET d == fillPrssPair(st, 1, ctrl)
    IN  [st |-> d.st, r0 |-> [i \in Rank |-> d.r0[i][0]],
                      r1 |-> [i \in Rank |-> d.r1[i][0]]]
BothEverywhere == Everywhere("Both")

\* A share of zero that no rank knows alone.
ZeroShare(st, minus(_, _)) ==
    LET d == genPrssPair(st, BothEverywhere)
    IN  Done(d.st, [i \in Rank |-> minus(d.r0[i], d.r1[i])])

genPubl(st) ==
    [st |-> [st EXCEPT !.pub = Strict([i \in Rank |-> @[i] + 1])],
     r |-> [i \in Rank |-> Prg(st.pub_seed[i], st.pub[i])]]
\* genPriv on the ranks of who; the others read nothing.
genPriv(st, who) ==
    [st |-> [st EXCEPT !.priv = Strict([i \in Rank |-> IF i \in who THEN @[i] + 1 ELSE @[i]])],
     r |-> [i \in Rank |-> IF i \in who THEN Prg(st.priv_seed[i], st.priv[i]) ELSE 0]]
\* SecureRandSeed and ring_rand: no stream that two ranks share.
freshRandom(st) == [st |-> [st EXCEPT !.local = @ + 1], r |-> Prg(0, 3 * st.local + 1)]

\* fork: the child takes its seeds from the streams of its parent, and counts
\* from zero.  A Beaver provider is spawned with seeds of its own.
fork(st) ==
    LET publ == genPubl(st)
        pair == genPrssPair(publ.st, BothEverywhere)
        priv == freshRandom(pair.st)
        beaver == freshRandom(priv.st)
        apart(r) == [i \in Rank |-> Wrap(r + 5 * i)]
        child == [InitStreams([pub |-> Everywhere(0), priv |-> apart(priv.r),
                               self |-> pair.r0, beaver |-> apart(beaver.r)])
                    EXCEPT !.pub_seed = Strict(publ.r), !.next_seed = Strict(pair.r1),
                           !.local = beaver.st.local, !.atEdge = st.atEdge]
    IN  [child |-> child, parent |-> beaver.st]

\* Every pair of ranks that shares a seed is at the same place of its stream,
\* and the trusted party at the place of all.
Aligned(st) ==
    /\ \A i, j \in Rank : st.pub_seed[i] = st.pub_seed[j] /\ st.pub[i] = st.pub[j]
    /\ \A i \in Rank : /\ st.next_seed[i] = st.self_seed[NextRank(i)]
                       /\ st.prss[i] = st.prss[NextRank(i)]
                       /\ st.tp_seed[i] = st.beaver_seed[i]
                       /\ st.beaver[i] = st.beaver[NextRank(i)]
=============================================================================
