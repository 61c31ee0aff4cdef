----------------------------- MODULE MCProtocols -----------------------------
(* Numbers of four bits, fixed seeds, and a table for the random function. *)
EXTENDS Configurations, Protocols, SequencesExt

H(s, c) == (((s*37 + c*101 + 17) * (c*13 + s*7 + 5)) \div 8) % 16
Table == [s \in 0..15 |-> [c \in 0..511 |-> H(s, c)]]
MCPrg(s, c) == Table[s][c % 512]

MCSeeds == [pub |-> [i \in 0..2 |-> 3 * i + 1], priv |-> [i \in 0..2 |-> i + 8],
            self |-> [i \in 0..2 |-> 2 * i + 2], beaver |-> [i \in 0..2 |-> i + 12]]

Op(kind, num) == [kind |-> kind, num |-> num, owner |-> -1]
Of(rank, num) == [kind |-> "V", num |-> num, owner |-> rank]
\* Every kind with every kind: one call.
Kinds == {Op("A", 0), Op("A", 3), Op("A", 13), Op("B", 1), Op("P", 2),
          Op("P", 13), Of(0, 1), Of(1, 14)}
Args == {Op("A", 3), Op("A", 13), Op("B", 1), Op("P", 2), Of(1, 14)}
Wide == [prot : Prots \ {"ttp", "spdz2k"}, acc : Kinds, arg : Args, calls : {1}]
           \cup [prot : {"ttp"}, acc : Args, arg : Args, calls : {1}]
           \cup [prot : {"spdz2k"}, acc : Kinds \ {Op("A", 0), Op("P", 13)},
                 arg : {Op("A", 3), Op("B", 1), Op("P", 2), Of(0, 1)}, calls : {1}]
\* Programs of two calls, on two numbers and on a truth value and a public
\* number.  ttp differs from tfp in who deals the triples only.
Deep == [prot : Prots \ {"ttp"}, acc : {Op("A", 14)}, arg : {Op("A", 3)}, calls : {2}]
           \cup [prot : {"aby3", "tfp", "cheetah"}, acc : {Op("B", 1)}, arg : {Op("P", 2)}, calls : {2}]
\* The random permutations: all of up to three positions.
OrdersOf == [n \in 1..3 |-> SetToSeq(Permutations(1..n))]
MCShuffled(n, r) == OrdersOf[n][(r % Len(OrdersOf[n])) + 1]
Column(kind, nums) == [j \in DOMAIN nums |-> Op(kind, nums[j])]
OwnedBy(rank, nums) == [j \in DOMAIN nums |-> Of(rank, nums[j])]
\* Keys that tie, of every kind, before a secret column and alone.
Tied == <<1, 15, 1>>
Payload == Column("A", <<3, 4, 5>>)
Secret == Column("A", Tied)
Keys == {Secret, Column("P", Tied), OwnedBy(1, Tied)}
Singles == {<<key>> : key \in Keys} \cup {<<key, Payload>> : key \in Keys}
\* Several keys that one rank knows, or two, or none.
Merges == {<<OwnedBy(0, Tied), Column("P", <<2, 1, 3>>), OwnedBy(0, <<1, 0, 2>>), Payload>>,
           <<OwnedBy(0, Tied), OwnedBy(1, <<1, 0, 2>>), Payload>>}
\* spdz2k refuses an opened zero: other numbers.
Distinct == Column("A", <<2, 1, 15>>)
MCTables == [prot : {"aby3", "tfp", "cheetah"}, columns : Singles, calls : {1}]
              \cup [prot : {"ttp", "securenn"}, columns : {<<Secret>>, <<Secret, Payload>>}, calls : {1}]
              \cup [prot : {"spdz2k"}, columns : {<<Distinct>>, <<Distinct, Payload>>}, calls : {1}]
              \cup [prot : {"aby3", "tfp", "ttp"}, columns : Merges, calls : {1}]
              \cup [prot : {"aby3"}, columns : {<<Secret>>}, calls : {2}]
MCStarts == Wide \cup Deep
=============================================================================
