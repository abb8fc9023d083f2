-------------------------- MODULE PrintBoardProofs --------------------------
(***************************************************************************)
(* What the board keeps for any cards, materials, lots and staff.  First   *)
(* the rows: no lot is overdrawn, an older lot is used up before a younger *)
(* one is opened, no card is printing unclaimed, no order leaves the state *)
(* machine.  The argument is the one a reviewer would give: what a         *)
(* transaction has read stays true while it holds the row, because two     *)
(* transactions never hold one row.  What it has read is CardSound,        *)
(* OrderSound and DrawSound; that nobody else holds it is Exclusive.       *)
(*                                                                         *)
(* Then the ledger, on top of that invariant: a card draws once and what   *)
(* its lines need, and the ledger explains the stock.  Last, what is true  *)
(* of the auto-advance while there is one request at a time.               *)
(***************************************************************************)
EXTENDS PrintBoard, Integers, FiniteSetTheorems, WellFoundedInduction, SequenceTheorems, TLAPS

-----------------------------------------------------------------------------
(* Sums of a function over a finite set: what the ledgers and the stock are *)
(* added up with (SumFunctionOnSet of Functions).  The library defines the   *)
(* sum by a choice of one element after the other; here it is shown to      *)
(* exist, to be the same whichever element goes first, to add up pointwise   *)
(* and to be monotone.  Each fact is proved on a smallest subset it would    *)
(* fail for.                                                               *)

First(s) == CHOOSE x \in s : TRUE

\* g is the running sum of f over the subsets of S.
Sums(f, S, g) ==
  g = [s \in SUBSET S |-> IF s = {} THEN 0 ELSE f[First(s)] + g[s \ {First(s)}]]

-----------------------------------------------------------------------------
(* A non-empty family of subsets of a finite set has a smallest member.    *)
LEMMA SmallestSubset ==
  ASSUME NEW S, IsFiniteSet(S), NEW Family \in SUBSET SUBSET S, Family # {}
  PROVE  \E T \in Family : \A U \in SUBSET T : U # T => U \notin Family
<1>1. Family \subseteq FiniteSubsetsOf(S)
  BY FS_FiniteSubsetsOfFinite
<1>2. PICK T \in Family : \A U \in Family : <<U, T>> \notin StrictSubsetOrdering(S)
  BY <1>1, WFMin, FS_StrictSubsetOrderingWellFounded
<1>3. ASSUME NEW U \in SUBSET T, U # T, U \in Family PROVE FALSE
  BY <1>2, <1>3 DEF StrictSubsetOrdering
<1> QED
  BY <1>2, <1>3

LEMMA FirstIsMember == ASSUME NEW s, s # {} PROVE First(s) \in s
BY DEF First

\* Running sums agree wherever both are defined.
LEMMA SumsAgree ==
  ASSUME NEW S, IsFiniteSet(S), NEW U, NEW V, S \subseteq U, S \subseteq V, NEW f, NEW g, NEW h,
         Sums(f, U, g), Sums(f, V, h)
  PROVE  g[S] = h[S]
<1> SUFFICES ASSUME g[S] # h[S] PROVE FALSE
  OBVIOUS
<1> DEFINE Family == {s \in SUBSET S : g[s] # h[s]}
<1>0. Family \in SUBSET SUBSET S /\ S \in Family
  OBVIOUS
<1>1. PICK T \in Family : \A s \in SUBSET T : s # T => s \notin Family
  <2> HIDE DEF Family
  <2> QED
    BY <1>0, SmallestSubset
<1>2. g[T] = (IF T = {} THEN 0 ELSE f[First(T)] + g[T \ {First(T)}])
  BY DEF Sums
<1>3. h[T] = (IF T = {} THEN 0 ELSE f[First(T)] + h[T \ {First(T)}])
  BY DEF Sums
<1>4. T # {}
  BY <1>2, <1>3
<1>5. T \ {First(T)} \in SUBSET T /\ T \ {First(T)} # T
  BY <1>4, FirstIsMember
<1>6. g[T \ {First(T)}] = h[T \ {First(T)}]
  BY <1>1, <1>5
<1> QED
  BY <1>2, <1>3, <1>4, <1>6

Chosen(f, S) == CHOOSE g : Sums(f, S, g)

\* The running sum over a finite set exists.
LEMMA SumsExist ==
  ASSUME NEW S, IsFiniteSet(S), NEW f
  PROVE  Sums(f, S, Chosen(f, S))
<1> SUFFICES ASSUME ~ \E g : Sums(f, S, g) PROVE FALSE
  BY DEF Chosen
<1> DEFINE Family == {s \in SUBSET S : ~ \E g : Sums(f, s, g)}
<1>0. Family \in SUBSET SUBSET S /\ S \in Family
  OBVIOUS
<1>1. PICK T \in Family : \A s \in SUBSET T : s # T => s \notin Family
  <2> HIDE DEF Family
  <2> QED
    BY <1>0, SmallestSubset
<1> DEFINE G == [s \in SUBSET T |-> IF s = {} THEN 0
                                    ELSE f[First(s)] + Chosen(f, s \ {First(s)})[s \ {First(s)}]]
<1>2. ASSUME NEW s \in SUBSET T, s # T PROVE Sums(f, s, Chosen(f, s))
  <2>1. s \in SUBSET S /\ s \notin Family
    BY <1>1, <1>2
  <2> QED
    BY <2>1 DEF Chosen
<1>3. ASSUME NEW s \in SUBSET T, s # {}
      PROVE  G[s \ {First(s)}] = Chosen(f, s \ {First(s)})[s \ {First(s)}]
  <2> DEFINE r == s \ {First(s)}
  <2>1. r \in SUBSET T /\ r # T
    BY <1>3, FirstIsMember
  <2>2. Sums(f, r, Chosen(f, r)) /\ r \in SUBSET r
    BY <2>1, <1>2
  <2>3. Chosen(f, r)[r] = IF r = {} THEN 0 ELSE f[First(r)] + Chosen(f, r)[r \ {First(r)}]
    BY <2>2 DEF Sums
  <2>4. ASSUME r # {} PROVE Chosen(f, r)[r \ {First(r)}] = Chosen(f, r \ {First(r)})[r \ {First(r)}]
    <3>1. r \ {First(r)} \in SUBSET T /\ r \ {First(r)} # T
      BY <2>1, <2>4, FirstIsMember
    <3>2. Sums(f, r \ {First(r)}, Chosen(f, r \ {First(r)}))
      BY <3>1, <1>2
    <3>3. IsFiniteSet(r \ {First(r)})
      BY <3>1, FS_Subset
    <3> QED
      BY <2>2, <3>2, <3>3, SumsAgree
  <2> QED
    BY <2>1, <2>3, <2>4
<1>4. Sums(f, T, G)
  <2>1. \A s \in SUBSET T : G[s] = IF s = {} THEN 0 ELSE f[First(s)] + G[s \ {First(s)}]
    BY <1>3
  <2> HIDE DEF G
  <2>2. G = [s \in SUBSET T |-> G[s]]
    BY DEF G
  <2> QED
    BY <2>1, <2>2 DEF Sums
<1> QED
  BY <1>1, <1>4

-----------------------------------------------------------------------------
(* The sum.                                                                *)
LEMMA SumIsChosen == \A f, S : SumFunctionOnSet(f, S) = Chosen(f, S)[S]
BY DEF SumFunctionOnSet, FoldFunctionOnSet, MapThenFoldSet, Chosen, Sums, First

\* By its definition: the first element and the sum of the rest.
LEMMA SumOfFirst ==
  ASSUME NEW S, IsFiniteSet(S), NEW f
  PROVE  SumFunctionOnSet(f, S)
           = IF S = {} THEN 0 ELSE f[First(S)] + SumFunctionOnSet(f, S \ {First(S)})
<1>1. Sums(f, S, Chosen(f, S))
  BY SumsExist
<1>2. Chosen(f, S)[S] = IF S = {} THEN 0 ELSE f[First(S)] + Chosen(f, S)[S \ {First(S)}]
  BY <1>1 DEF Sums
<1>3. Chosen(f, S)[S \ {First(S)}] = Chosen(f, S \ {First(S)})[S \ {First(S)}]
  <2>1. IsFiniteSet(S \ {First(S)})
    BY FS_Subset
  <2>2. Sums(f, S \ {First(S)}, Chosen(f, S \ {First(S)}))
    BY <2>1, SumsExist
  <2> QED
    BY <1>1, <2>1, <2>2, SumsAgree
<1> QED
  BY <1>2, <1>3, SumIsChosen

LEMMA SumOfNothing == \A f : SumFunctionOnSet(f, {}) = 0
BY SumOfFirst, FS_EmptySet

LEMMA SumType ==
  ASSUME NEW S, IsFiniteSet(S), NEW f, \A x \in S : f[x] \in Int
  PROVE  SumFunctionOnSet(f, S) \in Int
<1> SUFFICES ASSUME SumFunctionOnSet(f, S) \notin Int PROVE FALSE
  OBVIOUS
<1> DEFINE Family == {s \in SUBSET S : SumFunctionOnSet(f, s) \notin Int}
<1>0. Family \in SUBSET SUBSET S /\ S \in Family
  OBVIOUS
<1>1. PICK T \in Family : \A s \in SUBSET T : s # T => s \notin Family
  <2> HIDE DEF Family
  <2> QED
    BY <1>0, SmallestSubset
<1>2. IsFiniteSet(T)
  BY FS_Subset
<1>3. T # {}
  BY SumOfNothing
<1>4. T \ {First(T)} \in SUBSET T /\ T \ {First(T)} # T /\ First(T) \in S
  BY <1>3, FirstIsMember
<1>5. SumFunctionOnSet(f, T \ {First(T)}) \in Int
  BY <1>1, <1>4
<1>6. f[First(T)] \in Int
  BY <1>4
<1>7. SumFunctionOnSet(f, T) = f[First(T)] + SumFunctionOnSet(f, T \ {First(T)})
  BY <1>2, <1>3, SumOfFirst
<1> QED
  BY <1>5, <1>6, <1>7

\* Any element may go first.
LEMMA SumTakeOut ==
  ASSUME NEW S, IsFiniteSet(S), NEW f, \A x \in S : f[x] \in Int, NEW a \in S
  PROVE  SumFunctionOnSet(f, S) = f[a] + SumFunctionOnSet(f, S \ {a})
<1> DEFINE Splits(s) == \A y \in s : SumFunctionOnSet(f, s) = f[y] + SumFunctionOnSet(f, s \ {y})
<1> SUFFICES ASSUME ~ Splits(S) PROVE FALSE
  OBVIOUS
<1> DEFINE Family == {s \in SUBSET S : ~ Splits(s)}
<1>0. Family \in SUBSET SUBSET S /\ S \in Family
  OBVIOUS
<1>1. PICK T \in Family : \A s \in SUBSET T : s # T => s \notin Family
  <2> HIDE DEF Family
  <2> QED
    BY <1>0, SmallestSubset
<1>2. PICK y \in T : SumFunctionOnSet(f, T) # f[y] + SumFunctionOnSet(f, T \ {y})
  OBVIOUS
<1>3. PICK x : x = First(T)
  OBVIOUS
<1>4. IsFiniteSet(T) /\ T \in SUBSET S /\ x \in T
  BY <1>2, <1>3, FirstIsMember, FS_Subset
<1>5. SumFunctionOnSet(f, T) = f[x] + SumFunctionOnSet(f, T \ {x})
  BY <1>2, <1>3, <1>4, SumOfFirst
<1>6. x # y
  BY <1>2, <1>5
<1>7. \A s \in SUBSET T : s # T => Splits(s)
  BY <1>1, <1>4
<1> HIDE DEF Family
<1>8. SumFunctionOnSet(f, T \ {x}) = f[y] + SumFunctionOnSet(f, (T \ {x}) \ {y})
  <2>1. T \ {x} \in SUBSET T /\ T \ {x} # T /\ y \in T \ {x}
    BY <1>4, <1>6
  <2> QED
    BY <1>7, <2>1
<1>9. SumFunctionOnSet(f, T \ {y}) = f[x] + SumFunctionOnSet(f, (T \ {y}) \ {x})
  <2>1. T \ {y} \in SUBSET T /\ T \ {y} # T /\ x \in T \ {y}
    BY <1>2, <1>4, <1>6
  <2> QED
    BY <1>7, <2>1
<1>10. SumFunctionOnSet(f, (T \ {x}) \ {y}) = SumFunctionOnSet(f, (T \ {y}) \ {x})
  <2>1. (T \ {x}) \ {y} = (T \ {y}) \ {x}
    OBVIOUS
  <2> QED
    BY <2>1
<1>11. f[x] \in Int /\ f[y] \in Int /\ SumFunctionOnSet(f, (T \ {x}) \ {y}) \in Int
  <2>1. IsFiniteSet((T \ {x}) \ {y}) /\ (T \ {x}) \ {y} \subseteq S
    BY <1>4, FS_Subset
  <2> QED
    BY <1>2, <1>4, <2>1, SumType
<1>12. PICK rest \in Int : rest = SumFunctionOnSet(f, (T \ {x}) \ {y})
  BY <1>11
<1>13. SumFunctionOnSet(f, T) = f[x] + (f[y] + rest) /\ SumFunctionOnSet(f, T \ {y}) = f[x] + rest
  BY <1>5, <1>8, <1>9, <1>10, <1>12
<1> QED
  BY <1>2, <1>11, <1>13

\* Sums add up pointwise.
LEMMA SumAdds ==
  ASSUME NEW S, IsFiniteSet(S), NEW f, NEW g, NEW h,
         \A x \in S : f[x] \in Int /\ g[x] \in Int /\ h[x] = f[x] + g[x]
  PROVE  SumFunctionOnSet(h, S) = SumFunctionOnSet(f, S) + SumFunctionOnSet(g, S)
<1> DEFINE Adds(s) == SumFunctionOnSet(h, s) = SumFunctionOnSet(f, s) + SumFunctionOnSet(g, s)
<1> SUFFICES ASSUME ~ Adds(S) PROVE FALSE
  OBVIOUS
<1> DEFINE Family == {s \in SUBSET S : ~ Adds(s)}
<1>0. Family \in SUBSET SUBSET S /\ S \in Family
  OBVIOUS
<1>1. PICK T \in Family : \A s \in SUBSET T : s # T => s \notin Family
  <2> HIDE DEF Family
  <2> QED
    BY <1>0, SmallestSubset
<1>2. T # {}
  BY SumOfNothing
<1>3. PICK x, R : x = First(T) /\ R = T \ {x}
  OBVIOUS
<1>4. IsFiniteSet(T) /\ IsFiniteSet(R) /\ R \in SUBSET T /\ R # T /\ T \in SUBSET S /\ x \in S
  BY <1>2, <1>3, FirstIsMember, FS_Subset
<1>5. Adds(R)
  BY <1>1, <1>4
<1>6. /\ SumFunctionOnSet(f, T) = f[x] + SumFunctionOnSet(f, R)
      /\ SumFunctionOnSet(g, T) = g[x] + SumFunctionOnSet(g, R)
      /\ SumFunctionOnSet(h, T) = h[x] + SumFunctionOnSet(h, R)
  BY <1>2, <1>3, <1>4, SumOfFirst
<1>7. SumFunctionOnSet(f, R) \in Int /\ SumFunctionOnSet(g, R) \in Int
  BY <1>4, SumType
<1>8. ~ Adds(T)
  OBVIOUS
<1> QED
  BY <1>4, <1>5, <1>6, <1>7, <1>8

\* A sum of larger terms is larger.
LEMMA SumMonotone ==
  ASSUME NEW S, IsFiniteSet(S), NEW f, NEW g,
         \A x \in S : f[x] \in Int /\ g[x] \in Int /\ f[x] <= g[x]
  PROVE  SumFunctionOnSet(f, S) <= SumFunctionOnSet(g, S)
<1> DEFINE Below(s) == SumFunctionOnSet(f, s) <= SumFunctionOnSet(g, s)
<1> SUFFICES ASSUME ~ Below(S) PROVE FALSE
  OBVIOUS
<1> DEFINE Family == {s \in SUBSET S : ~ Below(s)}
<1>0. Family \in SUBSET SUBSET S /\ S \in Family
  OBVIOUS
<1>1. PICK T \in Family : \A s \in SUBSET T : s # T => s \notin Family
  <2> HIDE DEF Family
  <2> QED
    BY <1>0, SmallestSubset
<1>2. T # {}
  BY SumOfNothing
<1>3. PICK x, R : x = First(T) /\ R = T \ {x}
  OBVIOUS
<1>4. IsFiniteSet(T) /\ IsFiniteSet(R) /\ R \in SUBSET T /\ R # T /\ T \in SUBSET S /\ x \in S
  BY <1>2, <1>3, FirstIsMember, FS_Subset
<1>5. Below(R)
  BY <1>1, <1>4
<1>6. /\ SumFunctionOnSet(f, T) = f[x] + SumFunctionOnSet(f, R)
      /\ SumFunctionOnSet(g, T) = g[x] + SumFunctionOnSet(g, R)
  BY <1>2, <1>3, <1>4, SumOfFirst
<1>7. SumFunctionOnSet(f, R) \in Int /\ SumFunctionOnSet(g, R) \in Int
  BY <1>4, SumType
<1>8. ~ Below(T)
  OBVIOUS
<1> QED
  BY <1>4, <1>5, <1>6, <1>7, <1>8

\* A sum looks at the function on the set only.
LEMMA SumDependsOnSet ==
  ASSUME NEW S, IsFiniteSet(S), NEW f, NEW g, \A x \in S : f[x] \in Int /\ f[x] = g[x]
  PROVE  SumFunctionOnSet(f, S) = SumFunctionOnSet(g, S)
<1>1. \A x \in S : f[x] \in Int /\ g[x] \in Int /\ f[x] <= g[x] /\ g[x] <= f[x]
  OBVIOUS
<1>2. SumFunctionOnSet(f, S) \in Int /\ SumFunctionOnSet(g, S) \in Int
  BY <1>1, SumType
<1>3. SumFunctionOnSet(f, S) <= SumFunctionOnSet(g, S) /\ SumFunctionOnSet(g, S) <= SumFunctionOnSet(f, S)
  BY <1>1, SumMonotone
<1> QED
  BY <1>2, <1>3

LEMMA SumOfZeros ==
  ASSUME NEW S, IsFiniteSet(S), NEW f, \A x \in S : f[x] = 0
  PROVE  SumFunctionOnSet(f, S) = 0
<1>1. \A x \in S : f[x] \in Int /\ f[x] = f[x] + f[x]
  OBVIOUS
<1>2. SumFunctionOnSet(f, S) = SumFunctionOnSet(f, S) + SumFunctionOnSet(f, S)
  BY <1>1, SumAdds
<1>3. SumFunctionOnSet(f, S) \in Int
  BY <1>1, SumType
<1>4. \A n \in Int : n = n + n => n = 0
  OBVIOUS
<1> QED
  BY <1>2, <1>3, <1>4

LEMMA SumOfNaturals ==
  ASSUME NEW S, IsFiniteSet(S), NEW f, \A x \in S : f[x] \in Nat
  PROVE  SumFunctionOnSet(f, S) \in Nat
<1> DEFINE zero == [x \in S |-> 0]
<1>1. \A x \in S : zero[x] \in Int /\ f[x] \in Int /\ zero[x] <= f[x]
  OBVIOUS
<1>2. SumFunctionOnSet(zero, S) = 0
  BY SumOfZeros
<1>3. SumFunctionOnSet(zero, S) <= SumFunctionOnSet(f, S)
  <2> HIDE DEF zero
  <2> QED
    BY <1>1, SumMonotone
<1>4. SumFunctionOnSet(f, S) \in Int
  BY <1>1, SumType
<1> QED
  BY <1>2, <1>3, <1>4

-----------------------------------------------------------------------------
(* The rows.                                                               *)

Typed ==
    /\ status \in [Orders -> Statuses]
    /\ board  \in [Cards -> CardRow \cup { NoCard }]
    /\ stock  \in [Lots -> Int]
    /\ tx     \in [Requests -> { Idle } \cup BusyTx]

Exclusive == \A q, r \in Requests : q # r => tx[q].locks \cap tx[r].locks = {}

\* The card of a move exists, and a claimed one stays claimed until it is written.
CardSound(t) ==
    /\ t.pc \in { "begun", "readback", "count", "advance" } => IsMove(t.req)
    /\ t.card.stage = "PRINTING" => t.card.deducted
    /\ IsMove(t.req) =>
          /\ board[t.req.card] \in CardRow
          /\ t.pc = "readback" => board[t.req.card].deducted
          /\ t.req.card \in t.locks =>
                t.card \in CardRow /\ (board[t.req.card].deducted => t.card.deducted)

\* An order about to be advanced is locked, and may be advanced.
OrderSound(t) ==
    t.advance => /\ IsMove(t.req)
                 /\ OrderOf[t.req.card] \in t.locks
                 /\ <<status[OrderOf[t.req.card]], "PRINTING">> \in AllowedEdges

\* Draws are of locked materials, of what is there, and of the oldest lot.
DrawSound(t) ==
    /\ \A l \in Lots : /\ t.drawn[l] <= stock[l]
                       /\ t.drawn[l] > 0 => LotMaterial[l] \in t.locks
    /\ \A k, l \in Lots :
          LotMaterial[k] = LotMaterial[l] /\ k < l /\ stock[l] - t.drawn[l] < LotQty[l]
              => stock[k] = t.drawn[k]

TxSound == \A r \in Requests : Busy(r) => CardSound(tx[r]) /\ OrderSound(tx[r]) /\ DrawSound(tx[r])

\* A card comes with the payment of its order.
Confirmed == \A c \in Cards : board[c] # NoCard => status[OrderOf[c]] # "PENDING_CONFIRM"

BoardInv ==
    /\ Typed /\ Exclusive /\ TxSound /\ Confirmed
    /\ NoOverdraw /\ OldestLotFirst /\ PrintingWasClaimed

-----------------------------------------------------------------------------
(* The constants.                                                          *)

LEMMA ReqKinds ==
  ASSUME NEW req \in Moves \cup Scraps
  PROVE  /\ IsMove(req) => req \in Moves /\ req.card \in Cards /\ req.stage \in Stages
                           /\ OrderOf[req.card] \in Orders
         /\ ~ IsMove(req) => req \in Scraps
         /\ req \in Moves => IsMove(req)
         /\ DrawsOf(req) \in Seq([material : Materials, qty : Nat])
<1>1. CASE req \in Moves
  <2>1. IsMove(req) /\ req.card \in Cards /\ req.stage \in DropTargets
    BY <1>1 DEF Moves, IsMove
  <2>2. Lines[req.card] \in Seq([material : Materials, qty : Nat \ { 0 }])
    BY <2>1, BoardAssumption
  <2>3. [material : Materials, qty : Nat \ { 0 }] \subseteq [material : Materials, qty : Nat]
    OBVIOUS
  <2>4. Lines[req.card] \in Seq([material : Materials, qty : Nat])
    BY <2>2, <2>3, SeqMonotonic
  <2> QED
    BY <1>1, <2>1, <2>4, BoardAssumption DEF DrawsOf
<1>2. CASE req \in Scraps
  <2>1. ~ IsMove(req) /\ req \in [material : Materials, qty : Nat]
    BY <1>2, BoardAssumption DEF Scraps, IsMove
  <2>2. << req >> \in Seq([material : Materials, qty : Nat])
    BY <2>1
  <2>3. req \notin Moves
    BY <2>1 DEF Moves, IsMove
  <2> QED
    BY <1>2, <2>1, <2>2, <2>3 DEF DrawsOf
<1> QED
  BY <1>1, <1>2

LEMMA LotFacts ==
  /\ Lots \subseteq Int
  /\ \A l \in Lots : LotMaterial[l] \in Materials /\ LotQty[l] \in Nat
  /\ \A m : LotsOf(m) \subseteq Lots /\ \A l \in Lots : l \in LotsOf(m) <=> LotMaterial[l] = m
<1>1. Lots = 1 .. Len(LotQty) /\ Len(LotQty) \in Nat /\ Len(LotMaterial) = Len(LotQty)
  BY BoardAssumption DEF Lots
<1>2. \A l \in Lots : LotMaterial[l] \in Materials
  BY <1>1, BoardAssumption
<1>3. \A l \in Lots : LotQty[l] \in Nat
  BY <1>1, BoardAssumption
<1> QED
  BY <1>1, <1>2, <1>3 DEF LotsOf

LEMMA CardRows == /\ NoCard \notin CardRow /\ NewCard \in CardRow
                  /\ NoCard.stage # "PRINTING" /\ NewCard.stage # "PRINTING"
BY DEF NoCard, NewCard, CardRow, Stages

LEMMA BusyFacts ==
  ASSUME BoardInv, NEW r \in Requests, Busy(r)
  PROVE  /\ tx[r] \in BusyTx /\ CardSound(tx[r]) /\ OrderSound(tx[r]) /\ DrawSound(tx[r])
         /\ tx[r].drawn \in [Lots -> Nat] /\ tx[r].req \in Moves \cup Scraps
<1>1. tx[r] \in BusyTx
  BY DEF BoardInv, Typed, Busy, Idle
<1> QED
  BY <1>1 DEF BoardInv, TxSound, BusyTx

-----------------------------------------------------------------------------
(* A statement: one transaction goes on, nothing is committed.             *)

LEMMA StatementStep ==
  ASSUME BoardInv, NEW r \in Requests, NEW t \in BusyTx,
         tx' = [tx EXCEPT ![r] = t], Unchanged,
         CardSound(t), OrderSound(t), DrawSound(t),
         \A q \in Requests \ { r } : t.locks \cap tx[q].locks = {}
  PROVE  BoardInv'
<1>1. /\ tx' \in [Requests -> { Idle } \cup BusyTx] /\ tx'[r] = t
      /\ \A q \in Requests \ { r } : tx'[q] = tx[q]
  BY DEF BoardInv, Typed
<1>2. Typed'
  BY <1>1 DEF BoardInv, Typed, Unchanged
<1>3. Exclusive'
  BY <1>1 DEF BoardInv, Exclusive
<1>4. TxSound'
  <2> SUFFICES ASSUME NEW q \in Requests, Busy(q)'
               PROVE  (CardSound(tx[q]) /\ OrderSound(tx[q]) /\ DrawSound(tx[q]))'
    BY DEF TxSound
  <2>1. PICK u : u = tx'[q]
    OBVIOUS
  <2>2. CardSound(u) /\ OrderSound(u) /\ DrawSound(u)
    <3>1. CASE q = r
      BY <1>1, <2>1, <3>1
    <3>2. CASE q # r
      BY <1>1, <2>1, <3>2 DEF BoardInv, TxSound, Busy
    <3> QED
      BY <3>1, <3>2
  <2>3. (CardSound(u) /\ OrderSound(u) /\ DrawSound(u))'
    BY <2>2 DEF CardSound, OrderSound, DrawSound, Unchanged
  <2> QED
    BY <2>1, <2>3
<1>5. (Confirmed /\ NoOverdraw /\ OldestLotFirst /\ PrintingWasClaimed)'
  BY DEF BoardInv, Confirmed, NoOverdraw, OldestLotFirst, PrintingWasClaimed, Unchanged
<1> QED
  BY <1>2, <1>3, <1>4, <1>5 DEF BoardInv

\* A request begins with nothing read.
LEMMA BeginStep ==
  ASSUME BoardInv, NEW r \in Requests, ReceiveMove(r) \/ ReceiveScrap(r)
  PROVE  BoardInv'
<1>1. PICK pc \in { "begun", "drawing" }, req \in Moves \cup Scraps :
        /\ Begin(r, pc, req)
        /\ req \in Moves => board[req.card] # NoCard
        /\ pc = "begun" => req \in Moves
        /\ req \in Scraps => pc = "drawing"
  BY DEF ReceiveMove, ReceiveScrap, Moves, Scraps
<1>2. PICK t : t = [ pc |-> pc, req |-> req, locks |-> {}, line |-> 1,
                     card |-> NoCard, drawn |-> NoDraw, advance |-> FALSE ]
  OBVIOUS
<1>3. t \in BusyTx
  BY <1>2 DEF BusyTx, NoDraw
<1>4. CardSound(t)
  <2>1. IsMove(req) => req \in Moves /\ board[req.card] \in CardRow
    BY <1>1, ReqKinds DEF BoardInv, Typed
  <2> QED
    BY <1>1, <1>2, <2>1, ReqKinds, CardRows DEF CardSound
<1>5. OrderSound(t)
  BY <1>2 DEF OrderSound
<1>6. DrawSound(t)
  <2>1. \A l \in Lots : t.drawn[l] = 0 /\ stock[l] \in Int /\ stock[l] >= 0
    BY <1>2 DEF NoDraw, BoardInv, Typed, NoOverdraw
  <2>2. ASSUME NEW k \in Lots, NEW l \in Lots, LotMaterial[k] = LotMaterial[l], k < l, stock[l] < LotQty[l]
        PROVE  stock[k] = 0
    BY <2>2, LotFacts DEF BoardInv, OldestLotFirst
  <2> QED
    BY <2>1, <2>2 DEF DrawSound
<1> QED
  BY <1>1, <1>2, <1>3, <1>4, <1>5, <1>6, StatementStep DEF Begin, Unchanged

-----------------------------------------------------------------------------
(* A statement that writes a card: it leaves the draws and the order alone. *)

LEMMA Unblocked ==
  ASSUME BoardInv, NEW r \in Requests, ~ Blocked(r)
  PROVE  \A q \in Requests \ { r } : (tx[r].locks \cup Wanted(r)) \cap tx[q].locks = {}
BY DEF Blocked, WaitsFor, BoardInv, Exclusive

LEMMA CardStatement ==
  ASSUME BoardInv, NEW r \in Requests, Busy(r), NEW t \in BusyTx,
         t.drawn = tx[r].drawn, t.advance = tx[r].advance, t.req = tx[r].req,
         tx[r].locks \subseteq t.locks,
         \A q \in Requests \ { r } : t.locks \cap tx[q].locks = {},
         tx' = [tx EXCEPT ![r] = t], CardSound(t), Unchanged
  PROVE  BoardInv'
<1>1. OrderSound(t)
  BY BusyFacts DEF OrderSound
<1>2. DrawSound(t)
  BY BusyFacts DEF DrawSound
<1> QED
  BY <1>1, <1>2, StatementStep

LEMMA ClaimStep ==
  ASSUME BoardInv, NEW r \in Requests, Claim(r) PROVE BoardInv'
<1> DEFINE c == tx[r].req.card
<1>1. Busy(r)
  BY DEF Claim, Busy
<1>2. tx[r] \in BusyTx /\ CardSound(tx[r]) /\ IsMove(tx[r].req) /\ c \in Cards
  BY <1>1, BusyFacts, ReqKinds DEF Claim, CardSound
<1>3. CASE board[c].deducted
  <2>1. PICK t : t = [tx[r] EXCEPT !.pc = "readback"]
    OBVIOUS
  <2>2. t \in BusyTx /\ t.locks = tx[r].locks /\ CardSound(t)
        /\ t.drawn = tx[r].drawn /\ t.advance = tx[r].advance /\ t.req = tx[r].req
    BY <1>2, <1>3, <2>1 DEF BusyTx, CardSound
  <2>3. tx' = [tx EXCEPT ![r] = t]
    BY <1>3, <2>1 DEF Claim
  <2>4. \A q \in Requests \ { r } : t.locks \cap tx[q].locks = {}
    BY <2>2 DEF BoardInv, Exclusive
  <2> QED
    BY <1>1, <2>2, <2>3, <2>4, CardStatement DEF Claim
<1>4. CASE ~ board[c].deducted
  <2>1. PICK t : t = [tx[r] EXCEPT !.pc = "drawing", !.locks = @ \cup { c },
                                   !.card = [ stage |-> "PRINTING", deducted |-> TRUE ]]
    OBVIOUS
  <2>2. [ stage |-> "PRINTING", deducted |-> TRUE ] \in CardRow
    BY DEF CardRow, Stages
  <2>3. t \in BusyTx /\ t.locks = tx[r].locks \cup { c } /\ CardSound(t)
        /\ t.drawn = tx[r].drawn /\ t.advance = tx[r].advance /\ t.req = tx[r].req
    BY <1>2, <2>1, <2>2 DEF BusyTx, CardSound
  <2>4. tx' = [tx EXCEPT ![r] = t]
    BY <1>4, <2>1 DEF Claim
  <2>5. Wanted(r) = { c }
    BY <1>4 DEF Wanted, CardWanted, Claim
  <2>6. \A q \in Requests \ { r } : t.locks \cap tx[q].locks = {}
    BY <2>3, <2>5, Unblocked DEF Claim
  <2> QED
    BY <1>1, <2>3, <2>4, <2>6, CardStatement DEF Claim
<1> QED
  BY <1>3, <1>4

LEMMA NudgeStep ==
  ASSUME BoardInv, NEW r \in Requests, Nudge(r) PROVE BoardInv'
<1> DEFINE c == tx[r].req.card
<1>1. Busy(r)
  BY DEF Nudge, Busy
<1>2. tx[r] \in BusyTx /\ CardSound(tx[r]) /\ IsMove(tx[r].req) /\ c \in Cards
      /\ board[c] \in CardRow /\ board[c].deducted
  BY <1>1, BusyFacts, ReqKinds DEF Nudge, CardSound
<1>3. CASE board[c].stage = "PRINTING"
  <2>1. PICK t : t = [tx[r] EXCEPT !.pc = "count"]
    OBVIOUS
  <2>2. t \in BusyTx /\ t.locks = tx[r].locks /\ CardSound(t)
        /\ t.drawn = tx[r].drawn /\ t.advance = tx[r].advance /\ t.req = tx[r].req
    BY <1>2, <2>1 DEF BusyTx, CardSound
  <2>3. tx' = [tx EXCEPT ![r] = t]
    BY <1>3, <2>1 DEF Nudge
  <2>4. \A q \in Requests \ { r } : t.locks \cap tx[q].locks = {}
    BY <2>2 DEF BoardInv, Exclusive
  <2> QED
    BY <1>1, <2>2, <2>3, <2>4, CardStatement DEF Nudge
<1>4. CASE board[c].stage # "PRINTING"
  <2>1. PICK t : t = [tx[r] EXCEPT !.pc = "count", !.locks = @ \cup { c },
                                   !.card = [ board[c] EXCEPT !.stage = "PRINTING" ]]
    OBVIOUS
  <2>2. [ board[c] EXCEPT !.stage = "PRINTING" ] \in CardRow
        /\ [ board[c] EXCEPT !.stage = "PRINTING" ].deducted
    BY <1>2 DEF CardRow, Stages
  <2>3. t \in BusyTx /\ t.locks = tx[r].locks \cup { c } /\ CardSound(t)
        /\ t.drawn = tx[r].drawn /\ t.advance = tx[r].advance /\ t.req = tx[r].req
    BY <1>2, <2>1, <2>2 DEF BusyTx, CardSound
  <2>4. tx' = [tx EXCEPT ![r] = t]
    BY <1>4, <2>1 DEF Nudge
  <2>5. Wanted(r) = { c }
    BY <1>4 DEF Wanted, CardWanted, Nudge
  <2>6. \A q \in Requests \ { r } : t.locks \cap tx[q].locks = {}
    BY <2>3, <2>5, Unblocked DEF Nudge
  <2> QED
    BY <1>1, <2>3, <2>4, <2>6, CardStatement DEF Nudge
<1> QED
  BY <1>3, <1>4

LEMMA AdvancePrintStageStep ==
  ASSUME BoardInv, NEW r \in Requests, AdvancePrintStage(r) PROVE BoardInv'
<1> DEFINE c == tx[r].req.card
<1>1. Busy(r)
  BY DEF AdvancePrintStage, Busy
<1>2. tx[r] \in BusyTx /\ CardSound(tx[r]) /\ IsMove(tx[r].req) /\ c \in Cards
      /\ board[c] \in CardRow /\ tx[r].req.stage \in Stages
  BY <1>1, BusyFacts, ReqKinds DEF AdvancePrintStage, CardSound
<1>3. PICK card : card = [ board[c] EXCEPT !.stage = tx[r].req.stage ]
  OBVIOUS
<1>4. card \in CardRow /\ card.stage # "PRINTING" /\ card.deducted = board[c].deducted
  BY <1>2, <1>3 DEF CardRow, AdvancePrintStage
<1>5. PICK t : t = [tx[r] EXCEPT !.pc = "count", !.locks = @ \cup { c }, !.card = card]
  OBVIOUS
<1>6. t \in BusyTx /\ t.locks = tx[r].locks \cup { c }
      /\ t.drawn = tx[r].drawn /\ t.advance = tx[r].advance /\ t.req = tx[r].req
      /\ t.card = card /\ t.pc = "count"
  BY <1>2, <1>4, <1>5 DEF BusyTx
<1>7. CardSound(t)
  BY <1>2, <1>4, <1>6 DEF CardSound
<1>8. tx' = [tx EXCEPT ![r] = t]
  BY <1>3, <1>5 DEF AdvancePrintStage
<1>9. Wanted(r) = { c }
  BY DEF Wanted, CardWanted, AdvancePrintStage
<1>10. \A q \in Requests \ { r } : t.locks \cap tx[q].locks = {}
  BY <1>6, <1>9, Unblocked DEF AdvancePrintStage
<1> QED
  BY <1>1, <1>6, <1>7, <1>8, <1>10, CardStatement DEF AdvancePrintStage

LEMMA StraightStatementStep ==
  ASSUME BoardInv, NEW r \in Requests, DrawsDone(r) \/ CountNeedPrint(r)
  PROVE  BoardInv'
<1>1. Busy(r)
  BY DEF DrawsDone, CountNeedPrint, Busy
<1>2. tx[r] \in BusyTx /\ CardSound(tx[r])
  BY <1>1, BusyFacts
<1>3. PICK pc \in { "count", "ready", "advance" } :
        /\ tx' = [tx EXCEPT ![r].pc = pc]
        /\ pc \in { "count", "advance" } => IsMove(tx[r].req)
  BY <1>2 DEF DrawsDone, CountNeedPrint, CardSound
<1>4. PICK t : t = [tx[r] EXCEPT !.pc = pc]
  OBVIOUS
<1>5. t \in BusyTx /\ t.locks = tx[r].locks /\ CardSound(t)
      /\ t.drawn = tx[r].drawn /\ t.advance = tx[r].advance /\ t.req = tx[r].req
  BY <1>2, <1>3, <1>4 DEF BusyTx, CardSound
<1>6. tx' = [tx EXCEPT ![r] = t]
  BY <1>3, <1>4
<1>7. \A q \in Requests \ { r } : t.locks \cap tx[q].locks = {}
  BY <1>5 DEF BoardInv, Exclusive
<1>8. Unchanged
  BY DEF DrawsDone, CountNeedPrint
<1> QED
  BY <1>1, <1>5, <1>6, <1>7, <1>8, CardStatement

-----------------------------------------------------------------------------
(* The auto-advance and the draws.                                         *)

LEMMA AutoAdvanceStep ==
  ASSUME BoardInv, NEW r \in Requests, AutoAdvance(r) PROVE BoardInv'
<1> DEFINE o == OrderOf[tx[r].req.card]
<1>1. Busy(r)
  BY DEF AutoAdvance, Busy
<1>2. tx[r] \in BusyTx /\ CardSound(tx[r]) /\ DrawSound(tx[r]) /\ IsMove(tx[r].req) /\ o \in Orders
  BY <1>1, BusyFacts, ReqKinds DEF AutoAdvance, CardSound
<1>3. PICK advance \in BOOLEAN : advance = (<<status[o], "PRINTING">> \in AllowedEdges)
  <2>1. CASE <<status[o], "PRINTING">> \in AllowedEdges
    <3>1. TRUE = (<<status[o], "PRINTING">> \in AllowedEdges)
      BY <2>1
    <3> QED
      BY <3>1, Zenon
  <2>2. CASE <<status[o], "PRINTING">> \notin AllowedEdges
    <3>1. FALSE = (<<status[o], "PRINTING">> \in AllowedEdges)
      BY <2>2
    <3> QED
      BY <3>1, Zenon
  <2> QED
    BY <2>1, <2>2
<1>4. PICK t : t = [tx[r] EXCEPT !.pc = "ready", !.locks = @ \cup { o }, !.advance = advance]
  OBVIOUS
<1>5. t \in BusyTx
  BY <1>2, <1>4 DEF BusyTx
<1>6. /\ t.locks = tx[r].locks \cup { o } /\ t.pc = "ready"
      /\ t.drawn = tx[r].drawn /\ t.card = tx[r].card /\ t.req = tx[r].req
  BY <1>2, <1>4 DEF BusyTx
<1>7. t.advance = advance
  BY <1>2, <1>4 DEF BusyTx
<1>8. CardSound(t)
  <2>1. o # tx[r].req.card
    BY <1>1, <1>2, BusyFacts, ReqKinds, BoardAssumption
  <2> QED
    BY <1>2, <1>6, <2>1 DEF CardSound
<1>9. OrderSound(t)
  BY <1>2, <1>3, <1>6, <1>7 DEF OrderSound
<1>10. DrawSound(t)
  BY <1>2, <1>6 DEF DrawSound
<1>11. tx' = [tx EXCEPT ![r] = t]
  BY <1>3, <1>4 DEF AutoAdvance
<1>12. Wanted(r) = { o }
  BY DEF Wanted, AutoAdvance
<1>13. \A q \in Requests \ { r } : t.locks \cap tx[q].locks = {}
  BY <1>6, <1>12, Unblocked DEF AutoAdvance
<1> QED
  BY <1>5, <1>8, <1>9, <1>10, <1>11, <1>13, StatementStep DEF AutoAdvance

\* What fifoDraw takes keeps the draws of a transaction sound.
LEMMA TakeSound ==
  ASSUME BoardInv, NEW r \in Requests, Busy(r), NEW m \in Materials, NEW need \in Nat,
         NEW take \in FifoTake(r, m, need), NEW t,
         t.drawn = [ l \in Lots |-> tx[r].drawn[l] + take[l] ],
         tx[r].locks \subseteq t.locks, OpenLots(r, m) # {} => m \in t.locks
  PROVE  DrawSound(t) /\ t.drawn \in [Lots -> Nat]
<1>1. /\ DrawSound(tx[r]) /\ tx[r].drawn \in [Lots -> Nat] /\ stock \in [Lots -> Int]
  BY BusyFacts DEF BoardInv, Typed
<1>2. /\ take \in [Lots -> 0 .. need]
      /\ \A l \in Lots : take[l] <= stock[l] - tx[r].drawn[l] /\ (LotMaterial[l] # m => take[l] = 0)
      /\ \A k, l \in Lots : LotMaterial[k] = m /\ LotMaterial[l] = m /\ k < l /\ take[l] > 0
            => take[k] = stock[k] - tx[r].drawn[k]
  BY LotFacts DEF FifoTake, Remaining
<1>3. \A l \in Lots : take[l] \in Nat /\ tx[r].drawn[l] \in Nat /\ stock[l] \in Int
                      /\ LotQty[l] \in Int /\ l \in Int
  <2>1. \A l \in Lots : take[l] \in Nat
    BY <1>2
  <2>2. \A l \in Lots : tx[r].drawn[l] \in Nat /\ stock[l] \in Int
    BY <1>1
  <2>3. \A l \in Lots : LotQty[l] \in Int /\ l \in Int
    BY LotFacts
  <2> QED
    BY ONLY <2>1, <2>2, <2>3
<1>4. \A l \in Lots : t.drawn[l] = tx[r].drawn[l] + take[l]
  OBVIOUS
<1>5. ASSUME NEW l \in Lots
      PROVE  t.drawn[l] <= stock[l] /\ (t.drawn[l] > 0 => LotMaterial[l] \in t.locks)
  <2>1. t.drawn[l] <= stock[l]
    BY <1>2, <1>3, <1>4
  <2>2. CASE take[l] > 0
    <3>1. LotMaterial[l] = m
      BY <1>2, <1>3, <2>2
    <3>2. l \in OpenLots(r, m)
      BY <1>2, <1>3, <2>2, <3>1, LotFacts DEF OpenLots, Remaining
    <3> QED
      BY <2>1, <3>1, <3>2
  <2>3. CASE ~ take[l] > 0
    BY <1>1, <1>3, <1>4, <2>1, <2>3 DEF DrawSound
  <2> QED
    BY <2>2, <2>3
<1>6. ASSUME NEW k \in Lots, NEW l \in Lots, LotMaterial[k] = LotMaterial[l], k < l,
             stock[l] - t.drawn[l] < LotQty[l]
      PROVE  stock[k] = t.drawn[k]
  <2>1. CASE take[l] > 0
    <3>1. LotMaterial[l] = m
      BY <1>2, <1>3, <2>1
    <3> QED
      BY <1>2, <1>3, <1>4, <1>6, <2>1, <3>1
  <2>2. CASE ~ take[l] > 0
    <3>1. stock[l] - tx[r].drawn[l] < LotQty[l]
      BY <1>3, <1>4, <1>6, <2>2
    <3>2. stock[k] = tx[r].drawn[k]
      BY <1>1, <1>6, <3>1 DEF DrawSound
    <3> QED
      BY <1>2, <1>3, <1>4, <3>2
  <2> QED
    BY <2>1, <2>2
<1>7. t.drawn \in [Lots -> Nat]
  BY <1>3
<1> QED
  BY <1>5, <1>6, <1>7 DEF DrawSound

LEMMA DecrementStep ==
  ASSUME BoardInv, NEW r \in Requests, Decrement(r) PROVE BoardInv'
<1>1. Busy(r)
  BY DEF Decrement, Busy
<1>2. tx[r] \in BusyTx /\ CardSound(tx[r]) /\ OrderSound(tx[r])
      /\ tx[r].line \in Nat \ { 0 } /\ DrawsOf(tx[r].req) \in Seq([material : Materials, qty : Nat])
  BY <1>1, BusyFacts, ReqKinds DEF BusyTx
<1>3. PICK take \in FifoTake(r, DrawLine(r).material, DrawLine(r).qty) :
        tx' = [tx EXCEPT ![r].line  = @ + 1,
                         ![r].locks = @ \cup Wanted(r),
                         ![r].drawn = [ l \in Lots |-> @[l] + take[l] ]]
  BY DEF Decrement
<1>4. PICK t : t = [tx[r] EXCEPT !.line  = @ + 1,
                                 !.locks = @ \cup Wanted(r),
                                 !.drawn = [ l \in Lots |-> tx[r].drawn[l] + take[l] ]]
  OBVIOUS
<1>5. /\ t.locks = tx[r].locks \cup Wanted(r) /\ t.line = tx[r].line + 1
      /\ t.drawn = [ l \in Lots |-> tx[r].drawn[l] + take[l] ]
      /\ t.pc = tx[r].pc /\ t.req = tx[r].req /\ t.card = tx[r].card /\ t.advance = tx[r].advance
  BY <1>2, <1>4 DEF BusyTx
<1>6. DrawLine(r).material \in Materials /\ DrawLine(r).qty \in Nat
  <2>1. tx[r].line \in 1 .. Len(DrawsOf(tx[r].req))
    BY <1>2, LenProperties DEF Decrement, MoreDraws
  <2>2. DrawLine(r) \in [material : Materials, qty : Nat]
    BY <1>2, <2>1, ElementOfSeq DEF DrawLine
  <2> QED
    BY <2>2
<1>7. /\ Wanted(r) \subseteq { DrawLine(r).material }
      /\ OpenLots(r, DrawLine(r).material) # {} => DrawLine(r).material \in Wanted(r)
  BY DEF Wanted, Decrement
<1>8. DrawSound(t) /\ t.drawn \in [Lots -> Nat]
  BY <1>1, <1>5, <1>6, <1>7, TakeSound
<1>9. t \in BusyTx
  <2>1. t.locks \in SUBSET (Cards \cup Materials \cup Orders)
    BY <1>2, <1>5, <1>6, <1>7 DEF BusyTx
  <2>2. t.line \in Nat \ { 0 }
    BY <1>2, <1>5
  <2> QED
    BY <1>2, <1>4, <1>5, <1>8, <2>1, <2>2 DEF BusyTx
<1>10. CardSound(t)
  <2>1. IsMove(tx[r].req) => tx[r].req.card \notin Wanted(r)
    BY <1>1, <1>6, <1>7, BusyFacts, ReqKinds, BoardAssumption
  <2> QED
    BY <1>2, <1>5, <2>1 DEF CardSound
<1>11. OrderSound(t)
  BY <1>2, <1>5 DEF OrderSound
<1>12. tx' = [tx EXCEPT ![r] = t]
  BY <1>3, <1>4
<1>13. \A q \in Requests \ { r } : t.locks \cap tx[q].locks = {}
  BY <1>5, Unblocked DEF Decrement
<1> QED
  BY <1>8, <1>9, <1>10, <1>11, <1>12, <1>13, StatementStep DEF Decrement

-----------------------------------------------------------------------------
(* The end of a transaction: what it wrote was its own to write.           *)

LEMMA RollBackStep ==
  ASSUME BoardInv, NEW r \in Requests, RollBack(r) PROVE BoardInv'
<1>1. /\ tx' \in [Requests -> { Idle } \cup BusyTx] /\ tx'[r] = Idle
      /\ \A q \in Requests \ { r } : tx'[q] = tx[q]
  BY DEF BoardInv, Typed, RollBack
<1>2. Typed'
  BY <1>1 DEF BoardInv, Typed, RollBack, Unchanged
<1>3. Exclusive'
  BY <1>1 DEF BoardInv, Exclusive, Idle
<1>4. TxSound'
  <2> SUFFICES ASSUME NEW q \in Requests, Busy(q)'
               PROVE  (CardSound(tx[q]) /\ OrderSound(tx[q]) /\ DrawSound(tx[q]))'
    BY DEF TxSound
  <2>1. PICK u : u = tx[q]
    OBVIOUS
  <2>2. q # r /\ u = tx'[q] /\ Busy(q)
    BY <1>1, <2>1 DEF Busy, Idle
  <2>3. CardSound(u) /\ OrderSound(u) /\ DrawSound(u)
    BY <2>1, <2>2, BusyFacts
  <2>4. (CardSound(u) /\ OrderSound(u) /\ DrawSound(u))'
    BY <2>3 DEF CardSound, OrderSound, DrawSound, RollBack, Unchanged
  <2> QED
    BY <2>2, <2>4
<1>5. (Confirmed /\ NoOverdraw /\ OldestLotFirst /\ PrintingWasClaimed)'
  BY DEF BoardInv, Confirmed, NoOverdraw, OldestLotFirst, PrintingWasClaimed, RollBack, Unchanged
<1> QED
  BY <1>2, <1>3, <1>4, <1>5 DEF BoardInv

\* The rows a commit writes, one by one.
LEMMA CommitRows ==
  ASSUME BoardInv, NEW r \in Requests, Commit(r)
  PROVE  /\ Busy(r)
         /\ \A c \in Cards :
               \/ board'[c] = board[c]
               \/ IsMove(tx[r].req) /\ c = tx[r].req.card /\ c \in tx[r].locks
                  /\ board'[c] = tx[r].card
         /\ \A o \in Orders :
               \/ status'[o] = status[o]
               \/ tx[r].advance /\ o = OrderOf[tx[r].req.card] /\ status'[o] = "PRINTING"
         /\ \A l \in Lots : stock'[l] = stock[l] - tx[r].drawn[l]
         /\ tx'[r] = Idle /\ \A q \in Requests \ { r } : tx'[q] = tx[q]
         /\ tx' \in [Requests -> { Idle } \cup BusyTx]
         /\ board' \in [Cards -> CardRow \cup { NoCard }]
         /\ status' \in [Orders -> Statuses] /\ stock' \in [Lots -> Int]
<1>1. Busy(r)
  BY DEF Commit, Busy
<1>2. /\ tx[r] \in BusyTx /\ CardSound(tx[r]) /\ OrderSound(tx[r])
      /\ tx[r].drawn \in [Lots -> Nat] /\ tx[r].req \in Moves \cup Scraps
  BY <1>1, BusyFacts
<1>3. PICK payer : payer = IF IsMove(tx[r].req) THEN tx[r].req.card ELSE Scrap
  OBVIOUS
<1>4. ~ IsMove(tx[r].req) => payer \notin Cards
  BY <1>3, BoardAssumption DEF Scrap
<1>5. board' = IF payer \in tx[r].locks THEN [board EXCEPT ![payer] = tx[r].card] ELSE board
  BY <1>3 DEF Commit
<1>6. \A c \in Cards :
        \/ board'[c] = board[c]
        \/ IsMove(tx[r].req) /\ c = tx[r].req.card /\ c \in tx[r].locks /\ board'[c] = tx[r].card
  BY <1>3, <1>4, <1>5 DEF BoardInv, Typed
<1>7. board' \in [Cards -> CardRow \cup { NoCard }]
  <2>1. tx[r].card \in CardRow \cup { NoCard }
    BY <1>2 DEF BusyTx
  <2> QED
    BY <1>5, <2>1 DEF BoardInv, Typed
<1>8. status' = IF tx[r].advance THEN [status EXCEPT ![OrderOf[payer]] = "PRINTING"] ELSE status
  BY <1>3 DEF Commit
<1>9. tx[r].advance => payer = tx[r].req.card
  BY <1>2, <1>3 DEF OrderSound
<1>10. status' \in [Orders -> Statuses]
  BY <1>8 DEF BoardInv, Typed, Statuses
<1>11. \A o \in Orders :
        \/ status'[o] = status[o]
        \/ tx[r].advance /\ o = OrderOf[tx[r].req.card] /\ status'[o] = "PRINTING"
  BY <1>8, <1>9 DEF BoardInv, Typed
<1>12. stock' = [l \in Lots |-> stock[l] - tx[r].drawn[l]]
  BY DEF Commit
<1>13. stock' \in [Lots -> Int]
  BY <1>2, <1>12 DEF BoardInv, Typed
<1>14. /\ tx'[r] = Idle /\ \A q \in Requests \ { r } : tx'[q] = tx[q]
       /\ tx' \in [Requests -> { Idle } \cup BusyTx]
  BY DEF BoardInv, Typed, Commit
<1> QED
  BY <1>1, <1>6, <1>7, <1>10, <1>11, <1>12, <1>13, <1>14

\* What the others have read is not what a commit writes.
LEMMA CommitLeavesOthers ==
  ASSUME BoardInv, NEW r \in Requests, Commit(r), NEW q \in Requests, q # r, Busy(q),
         NEW t, t = tx[q]
  PROVE  (CardSound(t) /\ OrderSound(t) /\ DrawSound(t))'
<1>1. CardSound(t) /\ OrderSound(t) /\ DrawSound(t) /\ t.req \in Moves \cup Scraps
      /\ t.drawn \in [Lots -> Nat]
  BY BusyFacts
<1>2. Busy(r) /\ CardSound(tx[r]) /\ OrderSound(tx[r]) /\ DrawSound(tx[r])
      /\ tx[r].drawn \in [Lots -> Nat] /\ tx[r].req \in Moves \cup Scraps
  BY CommitRows, BusyFacts
<1>3. tx[r].locks \cap t.locks = {}
  BY DEF BoardInv, Exclusive
<1>4. CardSound(t)'
  <2>1. SUFFICES ASSUME IsMove(t.req)
                 PROVE  /\ board'[t.req.card] \in CardRow
                        /\ t.pc = "readback" => board'[t.req.card].deducted
                        /\ t.req.card \in t.locks =>
                             t.card \in CardRow /\ (board'[t.req.card].deducted => t.card.deducted)
    BY <1>1 DEF CardSound
  <2>2. t.req.card \in Cards
    BY <1>1, <2>1, ReqKinds
  <2>3. CASE board'[t.req.card] = board[t.req.card]
    BY <1>1, <2>1, <2>3 DEF CardSound
  <2>4. CASE board'[t.req.card] # board[t.req.card]
    <3>1. /\ IsMove(tx[r].req) /\ t.req.card = tx[r].req.card /\ t.req.card \in tx[r].locks
          /\ board'[t.req.card] = tx[r].card
      BY <2>2, <2>4, CommitRows
    <3>2. t.req.card \notin t.locks
      BY <1>3, <3>1
    <3>3. tx[r].card \in CardRow /\ (board[t.req.card].deducted => tx[r].card.deducted)
      BY <1>2, <3>1 DEF CardSound
    <3> QED
      BY <1>1, <2>1, <3>1, <3>2, <3>3 DEF CardSound
  <2> QED
    BY <2>3, <2>4
<1>5. OrderSound(t)'
  <2>1. SUFFICES ASSUME t.advance
                 PROVE  /\ IsMove(t.req) /\ OrderOf[t.req.card] \in t.locks
                        /\ <<status'[OrderOf[t.req.card]], "PRINTING">> \in AllowedEdges
    BY DEF OrderSound
  <2>2. /\ IsMove(t.req) /\ OrderOf[t.req.card] \in t.locks
        /\ <<status[OrderOf[t.req.card]], "PRINTING">> \in AllowedEdges
    BY <1>1, <2>1 DEF OrderSound
  <2>3. OrderOf[t.req.card] \in Orders
    BY <1>1, <2>2, ReqKinds
  <2>4. status'[OrderOf[t.req.card]] = status[OrderOf[t.req.card]]
    BY <1>2, <1>3, <2>2, <2>3, CommitRows DEF OrderSound
  <2> QED
    BY <2>2, <2>4
<1>6. DrawSound(t)'
  <2>1. \A l \in Lots : /\ t.drawn[l] \in Nat /\ tx[r].drawn[l] \in Nat /\ stock[l] \in Int
                        /\ LotQty[l] \in Int /\ stock'[l] = stock[l] - tx[r].drawn[l]
    BY <1>1, <1>2, LotFacts, CommitRows DEF BoardInv, Typed
  <2>2. \A l \in Lots : t.drawn[l] = 0 \/ LotMaterial[l] \in t.locks
    BY <1>1, <2>1 DEF DrawSound
  <2>3. \A l \in Lots : tx[r].drawn[l] = 0 \/ LotMaterial[l] \notin t.locks
    BY <1>2, <1>3, <2>1 DEF DrawSound
  <2>4. \A l \in Lots : t.drawn[l] <= stock'[l]
    BY <1>1, <1>2, <2>1, <2>2, <2>3 DEF DrawSound
  <2>5. ASSUME NEW k \in Lots, NEW l \in Lots, LotMaterial[k] = LotMaterial[l], k < l,
               stock'[l] - t.drawn[l] < LotQty[l]
        PROVE  stock'[k] = t.drawn[k]
    <3>1. CASE LotMaterial[l] \in t.locks
      <4>1. tx[r].drawn[k] = 0 /\ tx[r].drawn[l] = 0
        BY <2>3, <2>5, <3>1
      <4>2. stock[l] - t.drawn[l] < LotQty[l]
        BY <2>1, <2>5, <4>1
      <4>3. stock[k] = t.drawn[k]
        BY <1>1, <2>5, <4>2 DEF DrawSound
      <4> QED
        BY <2>1, <4>1, <4>3
    <3>2. CASE LotMaterial[l] \notin t.locks
      <4>1. t.drawn[k] = 0 /\ t.drawn[l] = 0
        BY <2>2, <2>5, <3>2
      <4>2. stock[l] - tx[r].drawn[l] < LotQty[l]
        BY <2>1, <2>5, <4>1
      <4>3. stock[k] = tx[r].drawn[k]
        BY <1>2, <2>5, <4>2 DEF DrawSound
      <4> QED
        BY <2>1, <4>1, <4>3
    <3> QED
      BY <3>1, <3>2
  <2>6. \A l \in Lots : t.drawn[l] > 0 => LotMaterial[l] \in t.locks
    BY <1>1 DEF DrawSound
  <2> QED
    BY <2>4, <2>5, <2>6 DEF DrawSound
<1> QED
  BY <1>4, <1>5, <1>6

LEMMA CommitStep ==
  ASSUME BoardInv, NEW r \in Requests, Commit(r) PROVE BoardInv'
<1>1. Busy(r) /\ CardSound(tx[r]) /\ OrderSound(tx[r]) /\ DrawSound(tx[r])
      /\ tx[r].drawn \in [Lots -> Nat] /\ tx[r].req \in Moves \cup Scraps
  BY CommitRows, BusyFacts
<1>2. Typed'
  BY CommitRows DEF Typed
<1>3. Exclusive'
  BY CommitRows DEF BoardInv, Exclusive, Idle
<1>4. TxSound'
  <2> SUFFICES ASSUME NEW q \in Requests, Busy(q)'
               PROVE  (CardSound(tx[q]) /\ OrderSound(tx[q]) /\ DrawSound(tx[q]))'
    BY DEF TxSound
  <2>1. PICK t : t = tx[q]
    OBVIOUS
  <2>2. q # r /\ t = tx'[q] /\ Busy(q)
    BY <2>1, CommitRows DEF Busy, Idle
  <2>3. (CardSound(t) /\ OrderSound(t) /\ DrawSound(t))'
    BY <2>1, <2>2, CommitLeavesOthers
  <2> QED
    BY <2>2, <2>3
<1>5. Confirmed'
  <2> SUFFICES ASSUME NEW c \in Cards, board'[c] # NoCard
               PROVE  status'[OrderOf[c]] # "PENDING_CONFIRM"
    BY DEF Confirmed
  <2>1. board[c] # NoCard
    BY <1>1, CommitRows, CardRows DEF CardSound
  <2>2. status[OrderOf[c]] # "PENDING_CONFIRM" /\ OrderOf[c] \in Orders
    BY <2>1, BoardAssumption DEF BoardInv, Confirmed
  <2> QED
    BY <2>2, CommitRows
<1>6. \A l \in Lots : /\ tx[r].drawn[l] \in Nat /\ stock[l] \in Int
                      /\ LotQty[l] \in Int /\ stock'[l] = stock[l] - tx[r].drawn[l]
  BY <1>1, LotFacts, CommitRows DEF BoardInv, Typed
<1>7. NoOverdraw'
  BY <1>1, <1>6 DEF DrawSound, NoOverdraw
<1>8. OldestLotFirst'
  BY <1>1, <1>6, LotFacts DEF DrawSound, OldestLotFirst
<1>9. PrintingWasClaimed'
  BY <1>1, CommitRows DEF BoardInv, CardSound, PrintingWasClaimed
<1> QED
  BY <1>2, <1>3, <1>4, <1>5, <1>7, <1>8, <1>9 DEF BoardInv

-----------------------------------------------------------------------------
(* The orders side writes an order nobody holds and cards that were not there. *)

LEMMA OrderStep ==
  ASSUME BoardInv, NEW o \in Orders, OrderUnlocked(o),
         NEW to \in Statuses \ { "PENDING_CONFIRM" }, status' = [status EXCEPT ![o] = to],
         board' \in [Cards -> CardRow \cup { NoCard }],
         \A c \in Cards : board'[c] = board[c] \/ (board[c] = NoCard /\ board'[c] = NewCard /\ OrderOf[c] = o),
         UNCHANGED <<stock, ledger, tx>>
  PROVE  BoardInv'
<1>1. \A p \in Orders : status'[p] = status[p] \/ (p = o /\ status'[p] = to)
  BY DEF BoardInv, Typed
<1>2. Typed'
  BY DEF BoardInv, Typed
<1>3. Exclusive'
  BY DEF BoardInv, Exclusive
<1>4. TxSound'
  <2> SUFFICES ASSUME NEW q \in Requests, Busy(q)'
               PROVE  (CardSound(tx[q]) /\ OrderSound(tx[q]) /\ DrawSound(tx[q]))'
    BY DEF TxSound
  <2>1. PICK t : t = tx[q]
    OBVIOUS
  <2>2. t = tx'[q] /\ Busy(q)
    BY <2>1 DEF Busy
  <2>3. CardSound(t) /\ OrderSound(t) /\ DrawSound(t) /\ t.req \in Moves \cup Scraps
    BY <2>1, <2>2, BusyFacts
  <2>4. CardSound(t)'
    <3>1. IsMove(t.req) => t.req.card \in Cards /\ board[t.req.card] \in CardRow
      BY <2>3, ReqKinds DEF CardSound
    <3>2. IsMove(t.req) => board'[t.req.card] = board[t.req.card]
      BY <3>1, CardRows
    <3> QED
      BY <2>3, <3>2 DEF CardSound
  <2>5. OrderSound(t)'
    <3>1. t.advance => OrderOf[t.req.card] \in Orders /\ OrderOf[t.req.card] # o
      BY <2>1, <2>3, ReqKinds DEF OrderSound, OrderUnlocked
    <3>2. t.advance => status'[OrderOf[t.req.card]] = status[OrderOf[t.req.card]]
      BY <1>1, <3>1
    <3> QED
      BY <2>3, <3>2 DEF OrderSound
  <2>6. DrawSound(t)'
    BY <2>3 DEF DrawSound
  <2> QED
    BY <2>2, <2>4, <2>5, <2>6
<1>5. Confirmed'
  BY <1>1, BoardAssumption DEF BoardInv, Typed, Confirmed
<1>6. (NoOverdraw /\ OldestLotFirst)'
  BY DEF BoardInv, NoOverdraw, OldestLotFirst
<1>7. PrintingWasClaimed'
  BY CardRows DEF BoardInv, PrintingWasClaimed
<1> QED
  BY <1>2, <1>3, <1>4, <1>5, <1>6, <1>7 DEF BoardInv

LEMMA ConfirmPaymentStep ==
  ASSUME BoardInv, NEW o \in Orders, ConfirmPayment(o) PROVE BoardInv'
<1>1. status[o] = "PENDING_CONFIRM"
  BY DEF ConfirmPayment, AllowedEdges
<1>2. \A c \in CardsOf(o) : board[c] = NoCard
  BY <1>1 DEF BoardInv, Confirmed, CardsOf
<1>3. \A c \in Cards : board'[c] = board[c] \/ (board[c] = NoCard /\ board'[c] = NewCard /\ OrderOf[c] = o)
  BY <1>2 DEF ConfirmPayment, CardsOf
<1>4. board' \in [Cards -> CardRow \cup { NoCard }]
  BY CardRows DEF ConfirmPayment, BoardInv, Typed
<1>5. "PAID" \in Statuses \ { "PENDING_CONFIRM" }
  BY DEF Statuses
<1> QED
  BY <1>3, <1>4, <1>5, OrderStep DEF ConfirmPayment

LEMMA TransitionOrderStep ==
  ASSUME BoardInv, NEW o \in Orders, TransitionOrder(o) PROVE BoardInv'
<1>1. PICK to \in Successors(status[o]) \ { "PAID" } : status' = [status EXCEPT ![o] = to]
  BY DEF TransitionOrder
<1>2. to \in Statuses \ { "PENDING_CONFIRM" }
  BY <1>1 DEF Successors, Statuses, AllowedEdges
<1> QED
  BY <1>1, <1>2, OrderStep DEF TransitionOrder, BoardInv, Typed

-----------------------------------------------------------------------------
(* The theorems.                                                           *)

LEMMA InitBoardInv == Init => BoardInv
<1> SUFFICES ASSUME Init PROVE BoardInv
  OBVIOUS
<1>1. Typed
  <2>1. stock \in [Lots -> Int]
    BY LotFacts, BoardAssumption DEF Init, Lots
  <2> QED
    BY <2>1 DEF Init, Typed, Statuses
<1>2. Exclusive /\ TxSound
  BY DEF Init, Exclusive, TxSound, Busy, Idle
<1>3. Confirmed /\ PrintingWasClaimed
  BY CardRows DEF Init, Confirmed, PrintingWasClaimed
<1>4. NoOverdraw
  BY LotFacts DEF Init, NoOverdraw
<1>5. OldestLotFirst
  <2>1. \A l \in Lots : ~ stock[l] < LotQty[l]
    BY LotFacts DEF Init
  <2> QED
    BY <2>1, LotFacts DEF OldestLotFirst
<1> QED
  BY <1>1, <1>2, <1>3, <1>4, <1>5 DEF BoardInv

LEMMA NextBoardInv == BoardInv /\ [Next]_vars => BoardInv'
<1> SUFFICES ASSUME BoardInv, [Next]_vars PROVE BoardInv'
  OBVIOUS
<1>1. ASSUME NEW r \in Requests, ReceiveMove(r) \/ ReceiveScrap(r) PROVE BoardInv'
  BY <1>1, BeginStep
<1>2. ASSUME NEW r \in Requests, Waiting(r) PROVE BoardInv'
  BY <1>2, ClaimStep, NudgeStep, AdvancePrintStageStep, DecrementStep, AutoAdvanceStep DEF Waiting
<1>3. ASSUME NEW r \in Requests, Straight(r) PROVE BoardInv'
  BY <1>3, StraightStatementStep, CommitStep, RollBackStep DEF Straight, DeadlockVictim
<1>4. ASSUME NEW r \in Requests, Abort(r) PROVE BoardInv'
  BY <1>4, RollBackStep DEF Abort
<1>5. ASSUME NEW o \in Orders, ConfirmPayment(o) \/ TransitionOrder(o) PROVE BoardInv'
  BY <1>5, ConfirmPaymentStep, TransitionOrderStep
<1>6. CASE UNCHANGED vars
  <2>1. Typed'
    BY <1>6 DEF vars, BoardInv, Typed
  <2>2. Exclusive'
    BY <1>6 DEF vars, BoardInv, Exclusive
  <2>3. TxSound'
    BY <1>6 DEF vars, BoardInv, TxSound, Busy, CardSound, OrderSound, DrawSound
  <2>4. (Confirmed /\ NoOverdraw /\ OldestLotFirst /\ PrintingWasClaimed)'
    BY <1>6 DEF vars, BoardInv, Confirmed, NoOverdraw, OldestLotFirst, PrintingWasClaimed
  <2> QED
    BY <2>1, <2>2, <2>3, <2>4 DEF BoardInv
<1> QED
  BY <1>1, <1>2, <1>3, <1>4, <1>5, <1>6 DEF Next

\* The invariant of the board, for any number of cards, lots and requests.
THEOREM BoardInvariant == Spec => []BoardInv
BY InitBoardInv, NextBoardInv, PTL DEF Spec

\* However many staff draw one filament at once (AdvancePrintJobStage, the
\* scrap handler), no lot goes below zero.
THEOREM StockNeverNegative == Spec => []NoOverdraw
<1>1. BoardInv => NoOverdraw
  BY DEF BoardInv
<1> QED
  BY BoardInvariant, <1>1, PTL

\* Decrement's FIFO order survives every interleaving: a lot is opened only
\* after every older lot of its material is used up.
THEOREM LotsAreUsedInOrder == Spec => []OldestLotFirst
<1>1. BoardInv => OldestLotFirst
  BY DEF BoardInv
<1> QED
  BY BoardInvariant, <1>1, PTL

\* No interleaving of moves and nudges brings a card to PRINTING that
\* ClaimPrintForPrinting did not claim.
THEOREM NothingPrintsUnclaimed == Spec => []PrintingWasClaimed
<1>1. BoardInv => PrintingWasClaimed
  BY DEF BoardInv
<1> QED
  BY BoardInvariant, <1>1, PTL

LEMMA AllowedStep ==
  ASSUME BoardInv, [Next]_vars, NEW o \in Orders, status'[o] # status[o]
  PROVE  <<status[o], status'[o]>> \in AllowedEdges
<1>1. ASSUME NEW r \in Requests, Commit(r) PROVE <<status[o], status'[o]>> \in AllowedEdges
  <2>1. tx[r].advance /\ o = OrderOf[tx[r].req.card] /\ status'[o] = "PRINTING"
    BY <1>1, CommitRows
  <2>2. OrderSound(tx[r])
    BY <1>1, CommitRows, BusyFacts
  <2> QED
    BY <2>1, <2>2 DEF OrderSound
<1>2. ASSUME NEW p \in Orders, ConfirmPayment(p) PROVE <<status[o], status'[o]>> \in AllowedEdges
  <2>1. o = p /\ status'[o] = "PAID"
    BY <1>2 DEF ConfirmPayment, BoardInv, Typed
  <2> QED
    BY <1>2, <2>1 DEF ConfirmPayment
<1>3. ASSUME NEW p \in Orders, TransitionOrder(p) PROVE <<status[o], status'[o]>> \in AllowedEdges
  BY <1>3 DEF TransitionOrder, Successors, BoardInv, Typed
<1>4. ASSUME NEW r \in Requests,
             \/ ReceiveMove(r) \/ ReceiveScrap(r) \/ Waiting(r)
             \/ DrawsDone(r) \/ CountNeedPrint(r) \/ DeadlockVictim(r) \/ Abort(r)
      PROVE  FALSE
  BY <1>4 DEF ReceiveMove, ReceiveScrap, Begin, Waiting, Claim, Nudge, AdvancePrintStage, Decrement,
              AutoAdvance, DrawsDone, CountNeedPrint, DeadlockVictim, Abort, RollBack, Unchanged
<1> QED
  BY <1>1, <1>2, <1>3, <1>4 DEF Next, Straight, vars

\* The auto-advance of the last card racing a payment, a cancellation or a
\* refund never takes an order along an edge the state machine refuses.
THEOREM BoardKeepsTheEdges == Spec => OnlyAllowedEdges
<1>1. BoardInv /\ [Next]_vars
        => [\A o \in Orders : status'[o] # status[o] => <<status[o], status'[o]>> \in AllowedEdges]_vars
  BY AllowedStep
<1> QED
  BY BoardInvariant, <1>1, PTL DEF Spec, OnlyAllowedEdges

-----------------------------------------------------------------------------
(***************************************************************************)
(* The ledger.  What a transaction has drawn follows its lines: never more *)
(* than the lines so far ask for, and less only where the lots are empty.  *)
(* A move draws only for a card it has claimed, that is locked and not yet *)
(* deducted on the board; so what a commit adds to the ledger is all that  *)
(* a card ever draws.                                                      *)
(***************************************************************************)
Asks(req, m) == OfMaterial(DrawsOf(req), m)

DrawnSoFar(t, m) == SumFunctionOnSet(t.drawn, LotsOf(m))
AskedSoFar(t, m) == SumFunctionOnSet(Asks(t.req, m), 1 .. (t.line - 1))

DrawnAsAsked(t) ==
    \A m \in Materials :
        /\ DrawnSoFar(t, m) <= AskedSoFar(t, m)
        /\ DrawnSoFar(t, m) = AskedSoFar(t, m) \/ \A l \in LotsOf(m) : t.drawn[l] = stock[l]

Claimed(t) == t.req.card \in t.locks /\ ~ board[t.req.card].deducted /\ t.card.deducted

DrawsForClaim(t) ==
    /\ t.line <= Len(DrawsOf(t.req)) + 1
    /\ t.pc \in { "begun", "readback" } => t.line = 1 /\ t.req.card \notin t.locks
    /\ IsMove(t.req) /\ t.pc = "drawing" => Claimed(t)
    /\ IsMove(t.req) /\ t.pc # "drawing" => IF Claimed(t) THEN t.line = Len(DrawsOf(t.req)) + 1
                                           ELSE t.line = 1

LinesSound == \A r \in Requests : Busy(r) => DrawsForClaim(tx[r]) /\ DrawnAsAsked(tx[r])

LedgerTyped == ledger \in [Cards \cup { Scrap } -> [Materials -> Nat]]

LedgerInv == LedgerTyped /\ LinesSound /\ DrawnOnce /\ LedgerExplainsStock

LEMMA FiniteLots == \A m : IsFiniteSet(LotsOf(m))
<1>1. IsFiniteSet(Lots)
  <2>1. Lots = 1 .. Len(LotQty) /\ Len(LotQty) \in Int
    BY BoardAssumption DEF Lots
  <2> QED
    BY <2>1, FS_Interval
<1> QED
  BY <1>1, FS_Subset DEF LotsOf

\* The lines of a request, one after the other.
LEMMA AskedByLines ==
  ASSUME NEW req \in Moves \cup Scraps, NEW m \in Materials
  PROVE  /\ Len(DrawsOf(req)) \in Nat /\ DOMAIN DrawsOf(req) = 1 .. Len(DrawsOf(req))
         /\ DOMAIN Asks(req, m) = 1 .. Len(DrawsOf(req))
         /\ \A i \in 1 .. Len(DrawsOf(req)) : Asks(req, m)[i] \in Nat
         /\ \A n \in 0 .. Len(DrawsOf(req)) : SumFunctionOnSet(Asks(req, m), 1 .. n) \in Nat
         /\ \A n \in 1 .. Len(DrawsOf(req)) :
               SumFunctionOnSet(Asks(req, m), 1 .. n)
                 = Asks(req, m)[n] + SumFunctionOnSet(Asks(req, m), 1 .. (n - 1))
         /\ SumFunctionOnSet(Asks(req, m), 1 .. 0) = 0
<1> DEFINE d == DrawsOf(req)
           G == Asks(req, m)
<1>1. d \in Seq([material : Materials, qty : Nat])
  BY ReqKinds
<1>2. Len(d) \in Nat /\ DOMAIN d = 1 .. Len(d)
  BY <1>1, LenProperties
<1>3. \A i \in 1 .. Len(d) : d[i].qty \in Nat
  <2> SUFFICES ASSUME NEW i \in 1 .. Len(d) PROVE d[i].qty \in Nat
    OBVIOUS
  <2> HIDE DEF d
  <2>1. d[i] \in [material : Materials, qty : Nat]
    BY <1>1, ElementOfSeq
  <2> QED
    BY <2>1
<1>4. DOMAIN G = 1 .. Len(d) /\ \A i \in 1 .. Len(d) : G[i] \in Nat
  BY <1>2, <1>3 DEF Asks, OfMaterial
<1> HIDE DEF d, G
<1>5. \A n \in 0 .. Len(d) : IsFiniteSet(1 .. n) /\ \A i \in 1 .. n : G[i] \in Nat
  BY <1>2, <1>4, FS_Interval
<1>6. \A n \in 0 .. Len(d) : SumFunctionOnSet(G, 1 .. n) \in Nat
  BY <1>5, SumOfNaturals
<1>7. ASSUME NEW n \in 1 .. Len(d)
      PROVE  SumFunctionOnSet(G, 1 .. n) = G[n] + SumFunctionOnSet(G, 1 .. (n - 1))
  <2>1. IsFiniteSet(1 .. n) /\ n \in 1 .. n /\ \A i \in 1 .. n : G[i] \in Int
    BY <1>2, <1>5
  <2>2. (1 .. n) \ { n } = 1 .. (n - 1)
    BY <1>2
  <2>3. SumFunctionOnSet(G, 1 .. n) = G[n] + SumFunctionOnSet(G, (1 .. n) \ { n })
    BY <2>1, SumTakeOut
  <2> QED
    BY <2>2, <2>3
<1>8. SumFunctionOnSet(G, 1 .. 0) = 0
  <2>1. 1 .. 0 = {}
    OBVIOUS
  <2> QED
    BY <2>1, SumOfNothing
<1> QED
  BY <1>2, <1>4, <1>6, <1>7, <1>8 DEF d, G

LEMMA DrawnType ==
  ASSUME NEW f \in [Lots -> Nat], NEW m
  PROVE  SumFunctionOnSet(f, LotsOf(m)) \in Nat
<1>1. \A l \in LotsOf(m) : f[l] \in Nat
  BY LotFacts
<1> QED
  BY <1>1, FiniteLots, SumOfNaturals

-----------------------------------------------------------------------------
(* A statement of one transaction leaves the ledger and the others alone.  *)
LEMMA StatementLedger ==
  ASSUME LedgerInv, NEW r \in Requests, NEW t, tx \in [Requests -> { Idle } \cup BusyTx],
         tx' = [tx EXCEPT ![r] = t], Unchanged, DrawsForClaim(t), DrawnAsAsked(t)
  PROVE  LedgerInv'
<1>1. (LedgerTyped /\ DrawnOnce /\ LedgerExplainsStock)'
  BY DEF LedgerInv, LedgerTyped, DrawnOnce, LedgerExplainsStock, Unchanged
<1>2. LinesSound'
  <2> SUFFICES ASSUME NEW q \in Requests, Busy(q)'
               PROVE  (DrawsForClaim(tx[q]) /\ DrawnAsAsked(tx[q]))'
    BY DEF LinesSound
  <2>1. PICK u : u = tx'[q]
    OBVIOUS
  <2>2. DrawsForClaim(u) /\ DrawnAsAsked(u)
    <3>1. CASE q = r
      BY <2>1, <3>1
    <3>2. CASE q # r
      BY <2>1, <3>2 DEF LedgerInv, LinesSound, Busy
    <3> QED
      BY <3>1, <3>2
  <2>3. (DrawsForClaim(u) /\ DrawnAsAsked(u))'
    BY <2>2 DEF DrawsForClaim, Claimed, DrawnAsAsked, Unchanged
  <2> QED
    BY <2>1, <2>3
<1> QED
  BY <1>1, <1>2 DEF LedgerInv

\* One that draws nothing.
LEMMA QuietLedger ==
  ASSUME BoardInv, LedgerInv, NEW r \in Requests, Busy(r), NEW t,
         t.drawn = tx[r].drawn, t.req = tx[r].req, t.line = tx[r].line,
         tx' = [tx EXCEPT ![r] = t], Unchanged, DrawsForClaim(t)
  PROVE  LedgerInv'
<1>1. DrawnAsAsked(tx[r])
  BY DEF LedgerInv, LinesSound
<1>2. DrawnAsAsked(t)
  BY <1>1 DEF DrawnAsAsked, DrawnSoFar, AskedSoFar
<1> QED
  BY <1>2, StatementLedger DEF BoardInv, Typed

LEMMA BeginLedger ==
  ASSUME BoardInv, LedgerInv, NEW r \in Requests, ReceiveMove(r) \/ ReceiveScrap(r)
  PROVE  LedgerInv'
<1>1. PICK pc \in { "begun", "drawing" }, req \in Moves \cup Scraps :
        /\ Begin(r, pc, req)
        /\ req \in Moves => pc = "begun"
  <2>1. CASE ReceiveMove(r)
    BY <2>1 DEF ReceiveMove
  <2>2. CASE ReceiveScrap(r)
    <3>1. PICK req \in Scraps : Begin(r, "drawing", req)
      BY <2>2 DEF ReceiveScrap
    <3>2. req \notin Moves
      BY BoardAssumption DEF Scraps, Moves
    <3> QED
      BY <3>1, <3>2
  <2> QED
    BY <2>1, <2>2
<1>2. PICK t : t = [ pc |-> pc, req |-> req, locks |-> {}, line |-> 1,
                     card |-> NoCard, drawn |-> NoDraw, advance |-> FALSE ]
  OBVIOUS
<1>3. DrawsForClaim(t)
  <2>1. IsMove(req) => req \in Moves
    BY ReqKinds
  <2>2. Len(DrawsOf(req)) \in Nat
    BY ReqKinds, LenProperties
  <2> QED
    BY <1>1, <1>2, <2>1, <2>2 DEF DrawsForClaim, Claimed
<1>4. DrawnAsAsked(t)
  <2> SUFFICES ASSUME NEW m \in Materials PROVE DrawnSoFar(t, m) = 0 /\ AskedSoFar(t, m) = 0
    BY DEF DrawnAsAsked
  <2>1. \A l \in LotsOf(m) : t.drawn[l] = 0
    BY <1>2, LotFacts DEF NoDraw
  <2>2. DrawnSoFar(t, m) = 0
    BY <2>1, FiniteLots, SumOfZeros DEF DrawnSoFar
  <2>3. t.line - 1 = 0 /\ t.req = req
    BY <1>2
  <2> QED
    BY <2>2, <2>3, AskedByLines DEF AskedSoFar
<1> QED
  BY <1>1, <1>2, <1>3, <1>4, StatementLedger DEF Begin, Unchanged, BoardInv, Typed

LEMMA BusyLines ==
  ASSUME BoardInv, LedgerInv, NEW r \in Requests, Busy(r)
  PROVE  /\ tx[r] \in BusyTx /\ CardSound(tx[r]) /\ DrawsForClaim(tx[r]) /\ DrawnAsAsked(tx[r])
         /\ tx[r].req \in Moves \cup Scraps /\ tx[r].line \in Nat \ { 0 } /\ tx[r].drawn \in [Lots -> Nat]
         /\ Len(DrawsOf(tx[r].req)) \in Nat
<1>1. tx[r] \in BusyTx /\ CardSound(tx[r])
  BY BusyFacts
<1>2. DrawsForClaim(tx[r]) /\ DrawnAsAsked(tx[r])
  BY DEF LedgerInv, LinesSound
<1>3. tx[r].req \in Moves \cup Scraps /\ tx[r].line \in Nat \ { 0 } /\ tx[r].drawn \in [Lots -> Nat]
  BY <1>1 DEF BusyTx
<1>4. Len(DrawsOf(tx[r].req)) \in Nat
  BY <1>3, ReqKinds, LenProperties
<1> QED
  BY <1>1, <1>2, <1>3, <1>4

LEMMA ClaimLedger ==
  ASSUME BoardInv, LedgerInv, NEW r \in Requests, Claim(r) PROVE LedgerInv'
<1> DEFINE c == tx[r].req.card
<1>1. Busy(r)
  BY DEF Claim, Busy
<1>2. /\ tx[r] \in BusyTx /\ DrawsForClaim(tx[r]) /\ tx[r].pc = "begun"
      /\ tx[r].line = 1 /\ c \notin tx[r].locks /\ Len(DrawsOf(tx[r].req)) \in Nat
  BY <1>1, BusyLines DEF Claim, DrawsForClaim
<1>3. CASE board[c].deducted
  <2>1. PICK t : t = [tx[r] EXCEPT !.pc = "readback"]
    OBVIOUS
  <2>2. /\ t.pc = "readback" /\ t.locks = tx[r].locks
        /\ t.drawn = tx[r].drawn /\ t.line = tx[r].line /\ t.req = tx[r].req
    BY <1>2, <2>1 DEF BusyTx
  <2>3. DrawsForClaim(t)
    BY <1>2, <2>2 DEF DrawsForClaim, Claimed
  <2>4. tx' = [tx EXCEPT ![r] = t]
    BY <1>3, <2>1 DEF Claim
  <2> QED
    BY <1>1, <2>2, <2>3, <2>4, QuietLedger DEF Claim
<1>4. CASE ~ board[c].deducted
  <2>1. PICK t : t = [tx[r] EXCEPT !.pc = "drawing", !.locks = @ \cup { c },
                                   !.card = [ stage |-> "PRINTING", deducted |-> TRUE ]]
    OBVIOUS
  <2>2. /\ t.pc = "drawing" /\ t.locks = tx[r].locks \cup { c } /\ t.card.deducted
        /\ t.drawn = tx[r].drawn /\ t.line = tx[r].line /\ t.req = tx[r].req
    BY <1>2, <2>1 DEF BusyTx
  <2>3. DrawsForClaim(t)
    BY <1>2, <1>4, <2>2 DEF DrawsForClaim, Claimed
  <2>4. tx' = [tx EXCEPT ![r] = t]
    BY <1>4, <2>1 DEF Claim
  <2> QED
    BY <1>1, <2>2, <2>3, <2>4, QuietLedger DEF Claim
<1> QED
  BY <1>3, <1>4

LEMMA NudgeLedger ==
  ASSUME BoardInv, LedgerInv, NEW r \in Requests, Nudge(r) PROVE LedgerInv'
<1> DEFINE c == tx[r].req.card
<1>1. Busy(r)
  BY DEF Nudge, Busy
<1>2. /\ tx[r] \in BusyTx /\ tx[r].pc = "readback" /\ board[c].deducted
      /\ tx[r].line = 1 /\ Len(DrawsOf(tx[r].req)) \in Nat
  BY <1>1, BusyLines DEF Nudge, DrawsForClaim, CardSound
<1>3. PICK t : /\ tx' = [tx EXCEPT ![r] = t]
               /\ t.pc = "count" /\ t.drawn = tx[r].drawn /\ t.line = tx[r].line /\ t.req = tx[r].req
  <2>1. CASE board[c].stage = "PRINTING"
    <3>1. PICK t : t = [tx[r] EXCEPT !.pc = "count"]
      OBVIOUS
    <3>2. t.pc = "count" /\ t.drawn = tx[r].drawn /\ t.line = tx[r].line /\ t.req = tx[r].req
      BY <1>2, <3>1 DEF BusyTx
    <3> QED
      BY <2>1, <3>1, <3>2 DEF Nudge
  <2>2. CASE board[c].stage # "PRINTING"
    <3>1. PICK t : t = [tx[r] EXCEPT !.pc = "count", !.locks = @ \cup { c },
                                     !.card = [ board[c] EXCEPT !.stage = "PRINTING" ]]
      OBVIOUS
    <3>2. t.pc = "count" /\ t.drawn = tx[r].drawn /\ t.line = tx[r].line /\ t.req = tx[r].req
      BY <1>2, <3>1 DEF BusyTx
    <3> QED
      BY <2>2, <3>1, <3>2 DEF Nudge
  <2> QED
    BY <2>1, <2>2
<1>4. DrawsForClaim(t)
  BY <1>2, <1>3 DEF DrawsForClaim, Claimed
<1> QED
  BY <1>1, <1>3, <1>4, QuietLedger DEF Nudge

LEMMA AdvancePrintStageLedger ==
  ASSUME BoardInv, LedgerInv, NEW r \in Requests, AdvancePrintStage(r) PROVE LedgerInv'
<1> DEFINE c == tx[r].req.card
<1>1. Busy(r)
  BY DEF AdvancePrintStage, Busy
<1>2. /\ tx[r] \in BusyTx /\ tx[r].pc = "begun" /\ board[c] \in CardRow
      /\ tx[r].line = 1 /\ Len(DrawsOf(tx[r].req)) \in Nat
  BY <1>1, BusyLines DEF AdvancePrintStage, DrawsForClaim, CardSound
<1>3. PICK t : t = [tx[r] EXCEPT !.pc = "count", !.locks = @ \cup { c },
                                 !.card = [ board[c] EXCEPT !.stage = tx[r].req.stage ]]
  OBVIOUS
<1>4. /\ t.pc = "count" /\ t.card = [ board[c] EXCEPT !.stage = tx[r].req.stage ]
      /\ t.drawn = tx[r].drawn /\ t.line = tx[r].line /\ t.req = tx[r].req
  BY <1>2, <1>3 DEF BusyTx
<1>5. t.card.deducted = board[c].deducted
  BY <1>2, <1>4 DEF CardRow
<1>6. DrawsForClaim(t)
  BY <1>2, <1>4, <1>5 DEF DrawsForClaim, Claimed
<1>7. tx' = [tx EXCEPT ![r] = t]
  BY <1>3 DEF AdvancePrintStage
<1> QED
  BY <1>1, <1>4, <1>6, <1>7, QuietLedger DEF AdvancePrintStage

LEMMA StraightLedger ==
  ASSUME BoardInv, LedgerInv, NEW r \in Requests, DrawsDone(r) \/ CountNeedPrint(r)
  PROVE  LedgerInv'
<1>1. Busy(r)
  BY DEF DrawsDone, CountNeedPrint, Busy
<1>2. /\ tx[r] \in BusyTx /\ CardSound(tx[r]) /\ DrawsForClaim(tx[r])
      /\ tx[r].line \in Nat /\ Len(DrawsOf(tx[r].req)) \in Nat
  BY <1>1, BusyLines
<1>3. PICK pc \in { "count", "ready", "advance" } : tx' = [tx EXCEPT ![r].pc = pc]
  BY <1>2 DEF DrawsDone, CountNeedPrint
<1>4. PICK t : t = [tx[r] EXCEPT !.pc = pc]
  OBVIOUS
<1>5. /\ t.pc = pc /\ t.locks = tx[r].locks /\ t.card = tx[r].card
      /\ t.drawn = tx[r].drawn /\ t.line = tx[r].line /\ t.req = tx[r].req
  BY <1>2, <1>4 DEF BusyTx
<1>6. Claimed(t) <=> Claimed(tx[r])
  BY <1>5 DEF Claimed
<1>7. IsMove(t.req) => IF Claimed(t) THEN t.line = Len(DrawsOf(t.req)) + 1 ELSE t.line = 1
  BY <1>2, <1>5, <1>6 DEF DrawsForClaim, DrawsDone, MoreDraws, CountNeedPrint
<1>8. DrawsForClaim(t)
  BY <1>2, <1>5, <1>7 DEF DrawsForClaim
<1>9. tx' = [tx EXCEPT ![r] = t]
  BY <1>3, <1>4
<1>10. Unchanged
  BY DEF DrawsDone, CountNeedPrint
<1> QED
  BY <1>1, <1>5, <1>8, <1>9, <1>10, QuietLedger

LEMMA AutoAdvanceLedger ==
  ASSUME BoardInv, LedgerInv, NEW r \in Requests, AutoAdvance(r) PROVE LedgerInv'
<1> DEFINE o == OrderOf[tx[r].req.card]
<1>1. Busy(r)
  BY DEF AutoAdvance, Busy
<1>2. tx[r] \in BusyTx /\ DrawsForClaim(tx[r]) /\ IsMove(tx[r].req) /\ tx[r].pc = "advance"
  BY <1>1, BusyLines DEF AutoAdvance, CardSound
<1>3. o # tx[r].req.card
  BY <1>1, <1>2, BusyLines, ReqKinds, BoardAssumption
<1>4. PICK advance : advance = (<<status[o], "PRINTING">> \in AllowedEdges)
  OBVIOUS
<1>5. PICK t : t = [tx[r] EXCEPT !.pc = "ready", !.locks = @ \cup { o }, !.advance = advance]
  OBVIOUS
<1>6. /\ t.pc = "ready" /\ t.locks = tx[r].locks \cup { o } /\ t.card = tx[r].card
      /\ t.drawn = tx[r].drawn /\ t.line = tx[r].line /\ t.req = tx[r].req
  BY <1>2, <1>5 DEF BusyTx
<1>7. DrawsForClaim(t)
  BY <1>2, <1>3, <1>6 DEF DrawsForClaim, Claimed
<1>8. tx' = [tx EXCEPT ![r] = t]
  BY <1>4, <1>5 DEF AutoAdvance
<1> QED
  BY <1>1, <1>6, <1>7, <1>8, QuietLedger DEF AutoAdvance

\* The next line draws what it asks for, or empties the lots of its material.
LEMMA DecrementDraws ==
  ASSUME BoardInv, LedgerInv, NEW r \in Requests, Busy(r), tx[r].line \in 1 .. Len(DrawsOf(tx[r].req)),
         NEW take \in FifoTake(r, DrawLine(r).material, DrawLine(r).qty), NEW t,
         t.drawn = [ l \in Lots |-> tx[r].drawn[l] + take[l] ],
         t.line = tx[r].line + 1, t.req = tx[r].req
  PROVE  DrawnAsAsked(t)
<1> SUFFICES ASSUME NEW m \in Materials
             PROVE  /\ DrawnSoFar(t, m) <= AskedSoFar(t, m)
                    /\ DrawnSoFar(t, m) = AskedSoFar(t, m) \/ \A l \in LotsOf(m) : t.drawn[l] = stock[l]
  BY DEF DrawnAsAsked
<1> DEFINE n == tx[r].line
           drawn == tx[r].drawn
           x == DrawLine(r).material
           need == DrawLine(r).qty
           got == SumFunctionOnSet(take, LotsOf(m))
           asked == Asks(tx[r].req, m)[n]
<1>1. /\ tx[r].req \in Moves \cup Scraps /\ drawn \in [Lots -> Nat] /\ DrawnAsAsked(tx[r])
      /\ n \in Nat /\ Len(DrawsOf(tx[r].req)) \in Nat
  BY BusyLines
<1>2. asked = IF x = m THEN need ELSE 0
  BY <1>1, AskedByLines DEF DrawLine, Asks, OfMaterial
<1>3. asked \in Nat
  BY <1>1, AskedByLines
<1>4. AskedSoFar(t, m) = asked + AskedSoFar(tx[r], m) /\ AskedSoFar(tx[r], m) \in Nat
  <2>1. t.line - 1 = n /\ n - 1 \in 0 .. Len(DrawsOf(tx[r].req))
    BY <1>1
  <2> QED
    BY <1>1, <2>1, AskedByLines DEF AskedSoFar
<1>5. /\ take \in [Lots -> 0 .. need]
      /\ \A l \in Lots : take[l] <= stock[l] - drawn[l] /\ (l \notin LotsOf(x) => take[l] = 0)
      /\ \/ SumFunctionOnSet(take, LotsOf(x)) = need
         \/ SumFunctionOnSet(take, LotsOf(x)) < need /\ \A l \in LotsOf(x) : take[l] = stock[l] - drawn[l]
  BY DEF FifoTake, Remaining
<1>6. \A l \in Lots : take[l] \in Nat /\ drawn[l] \in Nat /\ stock[l] \in Int /\ t.drawn[l] = drawn[l] + take[l]
  <2>1. \A l \in Lots : take[l] \in Int /\ take[l] >= 0
    BY <1>5
  <2>2. \A l \in Lots : stock[l] \in Int /\ drawn[l] \in Nat
    BY <1>1 DEF BoardInv, Typed
  <2> QED
    BY <2>1, <2>2
<1>7. LotsOf(m) \subseteq Lots /\ IsFiniteSet(LotsOf(m))
  BY LotFacts, FiniteLots
<1> HIDE DEF n, drawn, x, need, asked
<1>8. DrawnSoFar(t, m) = DrawnSoFar(tx[r], m) + got
  <2>1. PICK d, e, of : d = drawn /\ e = t.drawn /\ of = LotsOf(m)
    OBVIOUS
  <2>2. IsFiniteSet(of) /\ \A l \in of : d[l] \in Int /\ take[l] \in Int /\ e[l] = d[l] + take[l]
    BY <1>6, <1>7, <2>1
  <2>3. SumFunctionOnSet(e, of) = SumFunctionOnSet(d, of) + SumFunctionOnSet(take, of)
    BY <2>2, SumAdds
  <2> QED
    BY <2>1, <2>3 DEF DrawnSoFar, drawn
<1>9. got \in Nat /\ DrawnSoFar(tx[r], m) \in Nat
  <2>1. \A l \in LotsOf(m) : take[l] \in Nat
    BY <1>6, <1>7
  <2> QED
    BY <1>1, <1>7, <2>1, SumOfNaturals, DrawnType DEF DrawnSoFar, drawn
<1>10. got <= asked /\ (got = asked \/ \A l \in LotsOf(m) : t.drawn[l] = stock[l])
  <2>1. CASE x = m
    <3>1. \A l \in LotsOf(m) : take[l] = stock[l] - drawn[l] => t.drawn[l] = stock[l]
      BY <1>6, <1>7
    <3>2. asked = need
      BY <1>2, <2>1
    <3>3. CASE got = need
      BY <1>3, <3>2, <3>3
    <3>4. CASE got < need /\ \A l \in LotsOf(m) : take[l] = stock[l] - drawn[l]
      BY <1>3, <1>9, <3>1, <3>2, <3>4
    <3> QED
      BY <1>5, <2>1, <3>3, <3>4 DEF got
  <2>2. CASE x # m
    <3>1. \A l \in LotsOf(m) : take[l] = 0
      BY <1>5, <1>7, <2>2 DEF LotsOf
    <3>2. got = 0
      BY <1>7, <3>1, SumOfZeros
    <3> QED
      BY <1>2, <2>2, <3>2
  <2> QED
    BY <2>1, <2>2
<1>11. ASSUME \A l \in LotsOf(m) : drawn[l] = stock[l]
       PROVE  got = 0 /\ \A l \in LotsOf(m) : t.drawn[l] = stock[l]
  <2>1. \A l \in LotsOf(m) : take[l] = 0
    BY <1>5, <1>6, <1>7, <1>11
  <2>2. got = 0
    BY <1>7, <2>1, SumOfZeros
  <2> QED
    BY <1>6, <1>7, <1>11, <2>1, <2>2
<1>12. /\ DrawnSoFar(tx[r], m) <= AskedSoFar(tx[r], m)
       /\ DrawnSoFar(tx[r], m) = AskedSoFar(tx[r], m) \/ \A l \in LotsOf(m) : drawn[l] = stock[l]
  BY <1>1 DEF DrawnAsAsked, drawn
<1> HIDE DEF got
<1>13. DrawnSoFar(t, m) <= AskedSoFar(t, m)
  BY ONLY <1>3, <1>4, <1>8, <1>9, <1>10, <1>12
<1>14. DrawnSoFar(t, m) = AskedSoFar(t, m) \/ \A l \in LotsOf(m) : t.drawn[l] = stock[l]
  <2>1. CASE \A l \in LotsOf(m) : drawn[l] = stock[l]
    BY <1>11, <2>1
  <2>2. CASE ~ \A l \in LotsOf(m) : drawn[l] = stock[l]
    BY <1>4, <1>8, <1>9, <1>10, <1>12, <1>3, <2>2
  <2> QED
    BY <2>1, <2>2
<1> QED
  BY <1>13, <1>14

LEMMA DecrementLedger ==
  ASSUME BoardInv, LedgerInv, NEW r \in Requests, Decrement(r) PROVE LedgerInv'
<1>1. Busy(r)
  BY DEF Decrement, Busy
<1>2. /\ tx[r] \in BusyTx /\ DrawsForClaim(tx[r]) /\ tx[r].pc = "drawing"
      /\ tx[r].line \in Nat \ { 0 } /\ Len(DrawsOf(tx[r].req)) \in Nat
  BY <1>1, BusyLines DEF Decrement
<1>3. PICK take \in FifoTake(r, DrawLine(r).material, DrawLine(r).qty) :
        tx' = [tx EXCEPT ![r].line  = @ + 1,
                         ![r].locks = @ \cup Wanted(r),
                         ![r].drawn = [ l \in Lots |-> @[l] + take[l] ]]
  BY DEF Decrement
<1>4. PICK t : t = [tx[r] EXCEPT !.line  = @ + 1,
                                 !.locks = @ \cup Wanted(r),
                                 !.drawn = [ l \in Lots |-> tx[r].drawn[l] + take[l] ]]
  OBVIOUS
<1>5. /\ t.locks = tx[r].locks \cup Wanted(r) /\ t.line = tx[r].line + 1
      /\ t.drawn = [ l \in Lots |-> tx[r].drawn[l] + take[l] ]
      /\ t.pc = "drawing" /\ t.req = tx[r].req /\ t.card = tx[r].card
  BY <1>2, <1>4 DEF BusyTx
<1>6. tx[r].line \in 1 .. Len(DrawsOf(tx[r].req))
  BY <1>2 DEF Decrement, MoreDraws
<1>7. DrawnAsAsked(t)
  BY <1>1, <1>5, <1>6, DecrementDraws
<1>8. DrawsForClaim(t)
  BY <1>2, <1>5, <1>6 DEF DrawsForClaim, Claimed
<1>9. tx' = [tx EXCEPT ![r] = t]
  BY <1>3, <1>4
<1> QED
  BY <1>7, <1>8, <1>9, StatementLedger DEF Decrement, BoardInv, Typed

-----------------------------------------------------------------------------
(* The end of a transaction, and the orders side.                          *)

LEMMA RollBackLedger ==
  ASSUME BoardInv, LedgerInv, NEW r \in Requests, RollBack(r) PROVE LedgerInv'
<1>1. (LedgerTyped /\ DrawnOnce /\ LedgerExplainsStock)'
  BY DEF RollBack, LedgerInv, LedgerTyped, DrawnOnce, LedgerExplainsStock, Unchanged
<1>2. LinesSound'
  <2> SUFFICES ASSUME NEW q \in Requests, Busy(q)'
               PROVE  (DrawsForClaim(tx[q]) /\ DrawnAsAsked(tx[q]))'
    BY DEF LinesSound
  <2>1. PICK u : u = tx[q]
    OBVIOUS
  <2>2. u = tx'[q] /\ Busy(q)
    BY <2>1 DEF RollBack, Busy, Idle, BoardInv, Typed
  <2>3. DrawsForClaim(u) /\ DrawnAsAsked(u)
    BY <2>1, <2>2, BusyLines
  <2>4. (DrawsForClaim(u) /\ DrawnAsAsked(u))'
    BY <2>3 DEF RollBack, DrawsForClaim, Claimed, DrawnAsAsked, Unchanged
  <2> QED
    BY <2>2, <2>4
<1> QED
  BY <1>1, <1>2 DEF LedgerInv

\* Of the rows the others rely on, a commit touches none they have locked.
LEMMA CommitLeavesLines ==
  ASSUME BoardInv, BoardInv', LedgerInv, NEW r \in Requests, Commit(r),
         NEW q \in Requests, q # r, Busy(q), NEW t, t = tx[q]
  PROVE  (DrawsForClaim(t) /\ DrawnAsAsked(t))'
<1>1. DrawsForClaim(t) /\ DrawnAsAsked(t) /\ t.req \in Moves \cup Scraps /\ t.drawn \in [Lots -> Nat]
  BY BusyLines
<1>2. IsMove(t.req) => (Claimed(t) <=> Claimed(t)')
  <2>1. SUFFICES ASSUME IsMove(t.req), t.req.card \in t.locks
                 PROVE  board'[t.req.card] = board[t.req.card]
    BY DEF Claimed
  <2>2. t.req.card \in Cards /\ t.req.card \notin tx[r].locks
    BY <1>1, <2>1, ReqKinds DEF BoardInv, Exclusive
  <2> QED
    BY <2>2, CommitRows
<1>3. DrawsForClaim(t)'
  BY <1>1, <1>2 DEF DrawsForClaim
<1>4. DrawnAsAsked(t)'
  <2>1. \A l \in Lots : t.drawn[l] = stock[l] => t.drawn[l] = stock'[l]
    <3> SUFFICES ASSUME NEW l \in Lots, t.drawn[l] = stock[l] PROVE t.drawn[l] = stock'[l]
      OBVIOUS
    <3>1. stock'[l] = stock[l] - tx[r].drawn[l] /\ tx[r].drawn[l] \in Nat /\ stock[l] \in Int
      BY CommitRows, BusyFacts DEF BoardInv, Typed
    <3>2. t.drawn[l] <= stock'[l]
      <4>1. Busy(q)' /\ tx'[q] = t
        BY CommitRows DEF Busy
      <4>2. DrawSound(tx[q])'
        BY <4>1 DEF BoardInv, TxSound
      <4> QED
        BY <4>1, <4>2 DEF DrawSound
    <3> QED
      BY <3>1, <3>2
  <2> QED
    BY <1>1, <2>1, LotFacts DEF DrawnAsAsked
<1> QED
  BY <1>3, <1>4

\* What a commit adds to the ledger.
LEMMA CommitDraws ==
  ASSUME BoardInv, LedgerInv, NEW r \in Requests, Commit(r), NEW m \in Materials
  PROVE  /\ Drawn(r, m) \in Nat
         /\ \A x \in Cards \cup { Scrap } :
               ledger'[x][m] = ledger[x][m]
                                 + IF x = (IF IsMove(tx[r].req) THEN tx[r].req.card ELSE Scrap)
                                   THEN Drawn(r, m) ELSE 0
         /\ IsMove(tx[r].req) => tx[r].req.card \in Cards
<1> DEFINE payer == IF IsMove(tx[r].req) THEN tx[r].req.card ELSE Scrap
<1>1. Busy(r) /\ tx[r].req \in Moves \cup Scraps /\ tx[r].drawn \in [Lots -> Nat]
  BY CommitRows, BusyLines
<1>2. IsMove(tx[r].req) => tx[r].req.card \in Cards
  BY <1>1, ReqKinds
<1>3. Drawn(r, m) \in Nat
  BY <1>1, DrawnType DEF Drawn
<1>4. ledger' = [ledger EXCEPT ![payer] = [k \in Materials |-> @[k] + Drawn(r, k)]]
  BY DEF Commit
<1> HIDE DEF payer
<1>5. ASSUME NEW x \in Cards \cup { Scrap }
      PROVE  ledger'[x][m] = ledger[x][m] + IF x = payer THEN Drawn(r, m) ELSE 0
  <2>1. ledger[x][m] \in Nat
    BY DEF LedgerInv, LedgerTyped
  <2>2. CASE x = payer
    <3>1. ledger'[x] = [k \in Materials |-> ledger[x][k] + Drawn(r, k)]
      BY <1>4, <2>2 DEF LedgerInv, LedgerTyped
    <3> QED
      BY <2>2, <3>1
  <2>3. CASE x # payer
    <3>1. ledger'[x] = ledger[x]
      BY <1>4, <2>3 DEF LedgerInv, LedgerTyped
    <3> QED
      BY <2>1, <2>3, <3>1
  <2> QED
    BY <2>2, <2>3
<1> QED
  BY <1>2, <1>3, <1>5 DEF payer

\* What the lines of a card need is what its claim asks for.
LEMMA NeedIsAsked ==
  ASSUME NEW req \in Moves \cup Scraps, IsMove(req), NEW m \in Materials
  PROVE  /\ Need(req.card, m) = SumFunctionOnSet(Asks(req, m), 1 .. Len(DrawsOf(req)))
         /\ Need(req.card, m) \in Nat
<1>1. DrawsOf(req) = Lines[req.card]
  BY DEF DrawsOf
<1>2. /\ DOMAIN Asks(req, m) = 1 .. Len(DrawsOf(req)) /\ Len(DrawsOf(req)) \in Nat
      /\ \A n \in 0 .. Len(DrawsOf(req)) : SumFunctionOnSet(Asks(req, m), 1 .. n) \in Nat
  BY AskedByLines
<1>3. SumFunction(Asks(req, m)) = SumFunctionOnSet(Asks(req, m), DOMAIN Asks(req, m))
  BY DEF SumFunction, SumFunctionOnSet, FoldFunction
<1>4. Need(req.card, m) = SumFunctionOnSet(Asks(req, m), 1 .. Len(DrawsOf(req)))
  BY <1>1, <1>2, <1>3 DEF Need, Asks
<1>5. Len(DrawsOf(req)) \in 0 .. Len(DrawsOf(req))
  BY <1>2
<1> QED
  BY <1>2, <1>4, <1>5

\* A card's filament is drawn by the commit that first marks it deducted.
LEMMA CommitDrawsOnce ==
  ASSUME BoardInv, LedgerInv, NEW r \in Requests, Commit(r), NEW c \in Cards, NEW m \in Materials
  PROVE  ledger'[c][m] <= (IF board'[c].deducted THEN Need(c, m) ELSE 0)
<1> DEFINE req == tx[r].req
           drawn == Drawn(r, m)
<1>1. /\ Busy(r) /\ tx[r].pc = "ready" /\ req \in Moves \cup Scraps /\ CardSound(tx[r])
      /\ DrawsForClaim(tx[r]) /\ DrawnAsAsked(tx[r]) /\ Len(DrawsOf(req)) \in Nat
  BY CommitRows, BusyLines DEF Commit
<1>2. ledger[c][m] \in Nat /\ ledger[c][m] <= (IF board[c].deducted THEN Need(c, m) ELSE 0)
  BY DEF LedgerInv, LedgerTyped, DrawnOnce
<1>3. CASE ~ (IsMove(req) /\ c = req.card)
  <2>1. ledger'[c][m] = ledger[c][m]
    <3>1. c # IF IsMove(req) THEN req.card ELSE Scrap
      BY <1>3, BoardAssumption DEF Scrap
    <3>2. ledger'[c][m] = ledger[c][m] + 0
      BY <3>1, CommitDraws
    <3> QED
      BY <1>2, <3>2
  <2>2. board'[c] = board[c]
    BY <1>3, CommitRows
  <2> QED
    BY <1>2, <2>1, <2>2
<1>4. CASE IsMove(req) /\ c = req.card
  <2>1. ledger'[c][m] = ledger[c][m] + drawn /\ drawn \in Nat
    BY <1>4, CommitDraws
  <2>2. drawn <= AskedSoFar(tx[r], m)
    BY <1>1 DEF DrawnAsAsked, DrawnSoFar, Drawn
  <2>3. Need(c, m) \in Nat /\ Need(c, m) = SumFunctionOnSet(Asks(req, m), 1 .. Len(DrawsOf(req)))
    BY <1>1, <1>4, NeedIsAsked
  <2>4. board'[c] = IF c \in tx[r].locks THEN tx[r].card ELSE board[c]
    BY <1>4 DEF Commit, BoardInv, Typed
  <2>5. CASE Claimed(tx[r])
    <3>1. ~ board[c].deducted /\ board'[c].deducted
      BY <1>4, <2>4, <2>5 DEF Claimed
    <3>2. tx[r].line - 1 = Len(DrawsOf(req))
      BY <1>1, <1>4, <2>5 DEF DrawsForClaim
    <3>3. drawn <= Need(c, m)
      BY <2>2, <2>3, <3>2 DEF AskedSoFar
    <3> HIDE DEF drawn
    <3> QED
      BY <1>2, <2>1, <3>1, <3>3
  <2>6. CASE ~ Claimed(tx[r])
    <3>1. tx[r].line - 1 = 0
      BY <1>1, <1>4, <2>6 DEF DrawsForClaim
    <3>2. drawn <= 0
      BY <1>1, <2>2, <3>1, AskedByLines DEF AskedSoFar
    <3>3. board[c].deducted => board'[c].deducted
      BY <1>1, <1>4, <2>4 DEF CardSound
    <3> HIDE DEF drawn
    <3>4. ledger'[c][m] = ledger[c][m]
      BY <1>2, <2>1, <3>2
    <3> QED
      BY <1>2, <2>3, <3>3, <3>4
  <2> QED
    BY <2>5, <2>6
<1> QED
  BY <1>3, <1>4

\* What left the lots is what the ledger gained.
LEMMA CommitBalances ==
  ASSUME BoardInv, LedgerInv, NEW r \in Requests, Commit(r), NEW m \in Materials
  PROVE  SumFunctionOnSet([ l \in Lots |-> LotQty[l] - stock'[l] ], LotsOf(m))
            = SumFunction([ x \in Cards \cup { Scrap } |-> ledger'[x][m] ])
<1>1. PICK payer : payer = IF IsMove(tx[r].req) THEN tx[r].req.card ELSE Scrap
  OBVIOUS
<1>2. PICK accounts, of, d : accounts = Cards \cup { Scrap } /\ of = LotsOf(m) /\ d = tx[r].drawn
  OBVIOUS
<1>out. PICK out : out = [ l \in Lots |-> LotQty[l] - stock[l] ]
  OBVIOUS
<1>out2. PICK out2 : out2 = [ l \in Lots |-> LotQty[l] - stock'[l] ]
  OBVIOUS
<1>owed. PICK owed : owed = [ x \in accounts |-> ledger[x][m] ]
  OBVIOUS
<1>owed2. PICK owed2 : owed2 = [ x \in accounts |-> ledger'[x][m] ]
  OBVIOUS
<1>paid. PICK paid : paid = [ x \in accounts |-> IF x = payer THEN Drawn(r, m) ELSE 0 ]
  OBVIOUS
<1>3. /\ Drawn(r, m) \in Nat /\ payer \in accounts
      /\ \A x \in accounts : owed2[x] = owed[x] + paid[x] /\ owed[x] \in Int /\ paid[x] \in Int
  <2>1. \A x \in accounts : ledger[x][m] \in Nat
    BY <1>2 DEF LedgerInv, LedgerTyped
  <2> QED
    BY <1>1, <1>2, <1>owed, <1>owed2, <1>paid, <2>1, CommitDraws
<1>4. IsFiniteSet(accounts)
  BY <1>2, BoardAssumption, FS_AddElement
<1>5. SumFunctionOnSet(owed2, accounts) = SumFunctionOnSet(owed, accounts) + SumFunctionOnSet(paid, accounts)
  BY <1>3, <1>4, SumAdds
<1>6. SumFunctionOnSet(paid, accounts) = Drawn(r, m)
  <2>1. SumFunctionOnSet(paid, accounts) = paid[payer] + SumFunctionOnSet(paid, accounts \ { payer })
    BY <1>3, <1>4, SumTakeOut
  <2>2. \A x \in accounts \ { payer } : paid[x] = 0
    BY <1>paid
  <2>3. SumFunctionOnSet(paid, accounts \ { payer }) = 0
    BY <1>4, <2>2, FS_Subset, SumOfZeros
  <2>4. paid[payer] = Drawn(r, m)
    BY <1>3, <1>paid
  <2> QED
    BY <1>3, <2>1, <2>3, <2>4
<1>7. SumFunctionOnSet(out2, of) = SumFunctionOnSet(out, of) + SumFunctionOnSet(d, of)
  <2>1. \A l \in Lots : d[l] \in Nat /\ stock[l] \in Int /\ LotQty[l] \in Nat /\ stock'[l] = stock[l] - d[l]
    BY <1>2, LotFacts, CommitRows, BusyFacts DEF BoardInv, Typed
  <2>2. \A l \in of : l \in Lots
    BY <1>2, LotFacts
  <2>4. \A l \in of : out[l] = LotQty[l] - stock[l] /\ out2[l] = LotQty[l] - stock'[l]
    BY <1>out, <1>out2, <2>2
  <2>5. \A l \in of : out[l] \in Int /\ d[l] \in Int /\ out2[l] = out[l] + d[l]
    BY <2>1, <2>2, <2>4
  <2>3. IsFiniteSet(of)
    BY <1>2, FiniteLots
  <2> QED
    BY <2>3, <2>5, SumAdds
<1>8. SumFunctionOnSet(d, of) = Drawn(r, m)
  BY <1>2 DEF Drawn
<1>9. SumFunctionOnSet(out, of) = SumFunction(owed)
  BY <1>2, <1>out, <1>owed DEF LedgerInv, LedgerExplainsStock
<1>10. SumFunction(owed) = SumFunctionOnSet(owed, accounts) /\ SumFunction(owed2) = SumFunctionOnSet(owed2, accounts)
  <2>1. DOMAIN owed = accounts /\ DOMAIN owed2 = accounts
    BY <1>owed, <1>owed2
  <2> QED
    BY <2>1 DEF SumFunction, SumFunctionOnSet, FoldFunction
<1>11. SumFunctionOnSet(out2, of) = SumFunction(owed2)
  BY <1>5, <1>6, <1>7, <1>8, <1>9, <1>10
<1> QED
  BY <1>2, <1>out2, <1>owed2, <1>11

LEMMA CommitLedger ==
  ASSUME BoardInv, BoardInv', LedgerInv, NEW r \in Requests, Commit(r) PROVE LedgerInv'
<1>1. LedgerTyped'
  <2>1. PICK payer : payer = IF IsMove(tx[r].req) THEN tx[r].req.card ELSE Scrap
    OBVIOUS
  <2>2. ledger' = [ledger EXCEPT ![payer] = [m \in Materials |-> @[m] + Drawn(r, m)]]
    BY <2>1 DEF Commit
  <2>3. payer \in Cards \cup { Scrap } => [m \in Materials |-> ledger[payer][m] + Drawn(r, m)] \in [Materials -> Nat]
    BY CommitDraws DEF LedgerInv, LedgerTyped
  <2> QED
    BY <2>2, <2>3 DEF LedgerInv, LedgerTyped
<1>2. LinesSound'
  <2> SUFFICES ASSUME NEW q \in Requests, Busy(q)'
               PROVE  (DrawsForClaim(tx[q]) /\ DrawnAsAsked(tx[q]))'
    BY DEF LinesSound
  <2>1. PICK t : t = tx[q]
    OBVIOUS
  <2>2. q # r /\ t = tx'[q] /\ Busy(q)
    BY <2>1, CommitRows DEF Busy, Idle
  <2>3. (DrawsForClaim(t) /\ DrawnAsAsked(t))'
    BY <2>1, <2>2, CommitLeavesLines
  <2> QED
    BY <2>2, <2>3
<1>3. DrawnOnce'
  BY CommitDrawsOnce DEF DrawnOnce
<1>4. LedgerExplainsStock'
  BY CommitBalances DEF LedgerExplainsStock
<1> QED
  BY <1>1, <1>2, <1>3, <1>4 DEF LedgerInv

\* The orders side writes no card a move has read, and draws nothing.
LEMMA OrdersLedger ==
  ASSUME BoardInv, LedgerInv, UNCHANGED <<stock, ledger, tx>>,
         \A c \in Cards : board'[c] = board[c] \/ (board[c] = NoCard /\ board'[c] = NewCard)
  PROVE  LedgerInv'
<1>1. (LedgerTyped /\ LedgerExplainsStock)'
  BY DEF LedgerInv, LedgerTyped, LedgerExplainsStock
<1>0. ASSUME NEW c \in Cards PROVE board'[c].deducted = board[c].deducted
  <2>1. NoCard.deducted = NewCard.deducted
    BY DEF NoCard, NewCard
  <2>2. CASE board'[c] = board[c]
    BY <2>2
  <2>3. CASE board[c] = NoCard /\ board'[c] = NewCard
    BY <2>1, <2>3
  <2> QED
    BY <2>2, <2>3
<1>2. DrawnOnce'
  BY <1>0 DEF LedgerInv, DrawnOnce
<1>3. LinesSound'
  <2> SUFFICES ASSUME NEW q \in Requests, Busy(q)'
               PROVE  (DrawsForClaim(tx[q]) /\ DrawnAsAsked(tx[q]))'
    BY DEF LinesSound
  <2>1. PICK t : t = tx[q]
    OBVIOUS
  <2>2. t = tx'[q] /\ Busy(q)
    BY <2>1 DEF Busy
  <2>3. DrawsForClaim(t) /\ DrawnAsAsked(t) /\ CardSound(t) /\ t.req \in Moves \cup Scraps
    BY <2>1, <2>2, BusyLines
  <2>4. IsMove(t.req) => board'[t.req.card].deducted = board[t.req.card].deducted
    <3>1. IsMove(t.req) => t.req.card \in Cards
      BY <2>3, ReqKinds
    <3> QED
      BY <1>0, <3>1
  <2>5. IsMove(t.req) => (Claimed(t) <=> Claimed(t)')
    BY <2>4 DEF Claimed
  <2>6. DrawsForClaim(t)'
    BY <2>3, <2>5 DEF DrawsForClaim
  <2>7. DrawnAsAsked(t)'
    BY <2>3 DEF DrawnAsAsked
  <2> QED
    BY <2>2, <2>6, <2>7
<1> QED
  BY <1>1, <1>2, <1>3 DEF LedgerInv

LEMMA ConfirmPaymentLedger ==
  ASSUME BoardInv, LedgerInv, NEW o \in Orders, ConfirmPayment(o) PROVE LedgerInv'
<1>1. status[o] = "PENDING_CONFIRM"
  BY DEF ConfirmPayment, AllowedEdges
<1>2. \A c \in CardsOf(o) : board[c] = NoCard
  BY <1>1 DEF BoardInv, Confirmed, CardsOf
<1>3. \A c \in Cards : board'[c] = board[c] \/ (board[c] = NoCard /\ board'[c] = NewCard)
  BY <1>2 DEF ConfirmPayment, CardsOf
<1> QED
  BY <1>3, OrdersLedger DEF ConfirmPayment

LEMMA InitLedger == Init => LedgerInv
<1> SUFFICES ASSUME Init PROVE LedgerInv
  OBVIOUS
<1>1. LedgerTyped
  BY DEF Init, LedgerTyped
<1>2. LinesSound
  BY DEF Init, LinesSound, Busy, Idle
<1>3. DrawnOnce
  BY DEF Init, DrawnOnce, NoCard
<1>4. ASSUME NEW m \in Materials
      PROVE  SumFunctionOnSet([ l \in Lots |-> LotQty[l] - stock[l] ], LotsOf(m))
                = SumFunction([ x \in Cards \cup { Scrap } |-> ledger[x][m] ])
  <2>1. PICK out : out = [ l \in Lots |-> LotQty[l] - stock[l] ]
    OBVIOUS
  <2>2. PICK owed : owed = [ x \in Cards \cup { Scrap } |-> ledger[x][m] ]
    OBVIOUS
  <2>3. \A l \in LotsOf(m) : out[l] = 0
    <3>1. \A l \in Lots : out[l] = LotQty[l] - LotQty[l] /\ LotQty[l] \in Nat
      BY <2>1, LotFacts DEF Init
    <3>2. \A l \in Lots : out[l] = 0
      BY <3>1
    <3> QED
      BY <3>2, LotFacts
  <2>4. SumFunctionOnSet(out, LotsOf(m)) = 0
    BY <2>3, FiniteLots, SumOfZeros
  <2>5. \A x \in Cards \cup { Scrap } : owed[x] = 0
    BY <2>2 DEF Init
  <2>6. IsFiniteSet(Cards \cup { Scrap })
    BY BoardAssumption, FS_AddElement
  <2>7. SumFunctionOnSet(owed, Cards \cup { Scrap }) = 0
    BY <2>5, <2>6, SumOfZeros
  <2>8. DOMAIN owed = Cards \cup { Scrap }
    BY <2>2
  <2>9. SumFunction(owed) = SumFunctionOnSet(owed, Cards \cup { Scrap })
    BY <2>8 DEF SumFunction, SumFunctionOnSet, FoldFunction
  <2> QED
    BY <2>1, <2>2, <2>4, <2>7, <2>9
<1>5. LedgerExplainsStock
  BY <1>4 DEF LedgerExplainsStock
<1> QED
  BY <1>1, <1>2, <1>3, <1>5 DEF LedgerInv

LEMMA NextLedger == BoardInv /\ BoardInv' /\ LedgerInv /\ [Next]_vars => LedgerInv'
<1> SUFFICES ASSUME BoardInv, BoardInv', LedgerInv, [Next]_vars PROVE LedgerInv'
  OBVIOUS
<1>1. ASSUME NEW r \in Requests, ReceiveMove(r) \/ ReceiveScrap(r) PROVE LedgerInv'
  BY <1>1, BeginLedger
<1>2. ASSUME NEW r \in Requests, Waiting(r) PROVE LedgerInv'
  BY <1>2, ClaimLedger, NudgeLedger, AdvancePrintStageLedger, DecrementLedger, AutoAdvanceLedger DEF Waiting
<1>3. ASSUME NEW r \in Requests, Straight(r) PROVE LedgerInv'
  BY <1>3, StraightLedger, CommitLedger, RollBackLedger DEF Straight, DeadlockVictim
<1>4. ASSUME NEW r \in Requests, Abort(r) PROVE LedgerInv'
  BY <1>4, RollBackLedger DEF Abort
<1>5. ASSUME NEW o \in Orders, ConfirmPayment(o) PROVE LedgerInv'
  BY <1>5, ConfirmPaymentLedger
<1>6. ASSUME NEW o \in Orders, TransitionOrder(o) PROVE LedgerInv'
  BY <1>6, OrdersLedger DEF TransitionOrder
<1>7. CASE UNCHANGED vars
  BY <1>7, OrdersLedger DEF vars
<1> QED
  BY <1>1, <1>2, <1>3, <1>4, <1>5, <1>6, <1>7 DEF Next

\* The ledger's invariant, for any number of cards, lots and requests.
THEOREM LedgerInvariant == Spec => []LedgerInv
<1>1. Spec => []BoardInv
  BY BoardInvariant
<1> QED
  BY <1>1, InitLedger, NextLedger, PTL DEF Spec

\* The type of the whole board, the ledger included.
THEOREM BoardTypes == Spec => []TypeOK
<1>1. BoardInv /\ LedgerInv => TypeOK
  BY DEF BoardInv, Typed, LedgerInv, LedgerTyped, TypeOK
<1> QED
  BY BoardInvariant, LedgerInvariant, <1>1, PTL

\* ClaimPrintForPrinting's WHERE filament_deducted_at IS NULL is enough: however
\* often and by however many staff a card is dragged, and whatever rolls back in
\* between, a card draws no more than its lines need, and nothing unclaimed.
THEOREM FilamentIsDrawnOnce == Spec => []DrawnOnce
<1>1. LedgerInv => DrawnOnce
  BY DEF LedgerInv
<1> QED
  BY LedgerInvariant, <1>1, PTL

\* filament_batches.qty_remaining is what the consumption ledger says it is,
\* for every material, whichever draws race, are clamped or are rolled back.
THEOREM StockIsTheLedgers == Spec => []LedgerExplainsStock
<1>1. LedgerInv => LedgerExplainsStock
  BY DEF LedgerInv
<1> QED
  BY LedgerInvariant, <1>1, PTL

\* The commit that marks a card deducted pays its whole need, or emptied the lots.
LEMMA CommitShort ==
  ASSUME BoardInv, LedgerInv, NEW r \in Requests, Commit(r), NEW c \in Cards, NEW m \in Materials,
         ~ board[c].deducted, board'[c].deducted
  PROVE  ledger'[c][m] = Need(c, m) \/ \A l \in LotsOf(m) : stock'[l] = 0
<1> DEFINE req == tx[r].req
<1>1. IsMove(req) /\ c = req.card /\ c \in tx[r].locks /\ board'[c] = tx[r].card
  BY CommitRows
<1>2. Claimed(tx[r])
  BY <1>1 DEF Claimed
<1>3. /\ Busy(r) /\ tx[r].pc = "ready" /\ req \in Moves \cup Scraps /\ tx[r].drawn \in [Lots -> Nat]
      /\ DrawsForClaim(tx[r]) /\ DrawnAsAsked(tx[r]) /\ Len(DrawsOf(req)) \in Nat
  BY CommitRows, BusyLines DEF Commit
<1>4. tx[r].line - 1 = Len(DrawsOf(req))
  BY <1>1, <1>2, <1>3 DEF DrawsForClaim
<1>5. AskedSoFar(tx[r], m) = Need(c, m)
  BY <1>1, <1>3, <1>4, NeedIsAsked DEF AskedSoFar
<1>6. ledger'[c][m] = Drawn(r, m)
  <2>1. ledger[c][m] = 0
    <3>1. ledger[c][m] \in Nat /\ ledger[c][m] <= 0
      BY DEF LedgerInv, LedgerTyped, DrawnOnce
    <3> QED
      BY <3>1
  <2>2. ledger'[c][m] = ledger[c][m] + Drawn(r, m) /\ Drawn(r, m) \in Nat
    BY <1>1, CommitDraws
  <2> QED
    BY <2>1, <2>2
<1>7. CASE Drawn(r, m) = AskedSoFar(tx[r], m)
  BY <1>5, <1>6, <1>7
<1>8. CASE \A l \in LotsOf(m) : tx[r].drawn[l] = stock[l]
  <2>1. \A l \in Lots : stock'[l] = stock[l] - tx[r].drawn[l] /\ stock[l] \in Int
    BY CommitRows DEF BoardInv, Typed
  <2>2. \A l \in LotsOf(m) : l \in Lots
    BY LotFacts
  <2>3. \A l \in LotsOf(m) : stock'[l] = 0
    BY <1>8, <2>1, <2>2
  <2> QED
    BY <2>3
<1> QED
  BY <1>3, <1>7, <1>8 DEF DrawnAsAsked, DrawnSoFar, Drawn

\* A card is deducted by a commit, and by nothing else.
LEMMA DeductedByCommit ==
  ASSUME BoardInv, [Next]_vars, NEW c \in Cards, ~ board[c].deducted, board'[c].deducted
  PROVE  \E r \in Requests : Commit(r)
<1>1. ASSUME NEW o \in Orders, ConfirmPayment(o) PROVE FALSE
  BY <1>1 DEF ConfirmPayment, NewCard
<1>2. ASSUME NEW o \in Orders, TransitionOrder(o) PROVE FALSE
  BY <1>2 DEF TransitionOrder
<1>3. ASSUME NEW r \in Requests,
             \/ ReceiveMove(r) \/ ReceiveScrap(r) \/ Waiting(r)
             \/ DrawsDone(r) \/ CountNeedPrint(r) \/ DeadlockVictim(r) \/ Abort(r)
      PROVE  FALSE
  BY <1>3 DEF ReceiveMove, ReceiveScrap, Begin, Waiting, Claim, Nudge, AdvancePrintStage, Decrement,
              AutoAdvance, DrawsDone, CountNeedPrint, DeadlockVictim, Abort, RollBack, Unchanged
<1> QED
  BY <1>1, <1>2, <1>3 DEF Next, Straight, vars

\* A claim is recorded short of its need only when the material ran out: the
\* clamp of fifoDraw never leaves filament on a lot that the print used.
THEOREM ShortOnlyIfRunOut == Spec => ShortOnlyWhenEmpty
<1>1. BoardInv /\ LedgerInv /\ [Next]_vars
        => [\A c \in Cards : ~ board[c].deducted /\ board'[c].deducted =>
              \A m \in Materials :
                 \/ ledger'[c][m] = Need(c, m)
                 \/ \A l \in LotsOf(m) : stock'[l] = 0]_vars
  BY DeductedByCommit, CommitShort
<1> QED
  BY BoardInvariant, LedgerInvariant, <1>1, PTL DEF Spec, ShortOnlyWhenEmpty

-----------------------------------------------------------------------------
(***************************************************************************)
(* One move at a time.  With a single request the count of a move is still *)
(* the truth when it commits, so an order whose last card has left         *)
(* NEED_PRINT does not stay PAID.  (With two, it may: the Race run.)       *)
(***************************************************************************)
OneAtATime == \A q, r \in Requests : q = r

StageSeen(t, c) == IF c \in t.locks THEN t.card.stage ELSE board[c].stage

\* A move that is ready to commit advances its order, or has counted a card
\* still at NEED_PRINT; the only card it writes is its own.
CountSound(t) ==
    /\ \A c \in t.locks \cap Cards : IsMove(t.req) /\ c = t.req.card
    /\ IsMove(t.req) /\ t.pc = "ready" =>
          \/ t.advance
          \/ status[OrderOf[t.req.card]] # "PAID"
          \/ \E c \in CardsOf(OrderOf[t.req.card]) : StageSeen(t, c) = "NEED_PRINT"

Unstarted == \A o \in Orders : status[o] = "PAID" => \E c \in CardsOf(o) : board[c].stage = "NEED_PRINT"

SerialInv == Unstarted /\ \A r \in Requests : Busy(r) => CountSound(tx[r])

LEMMA StatementSerial ==
  ASSUME BoardInv, SerialInv, NEW r \in Requests, NEW t,
         tx' = [tx EXCEPT ![r] = t], Unchanged, CountSound(t)
  PROVE  SerialInv'
<1>1. Unstarted'
  BY DEF SerialInv, Unstarted, Unchanged
<1>2. ASSUME NEW q \in Requests, Busy(q)' PROVE CountSound(tx[q])'
  <2>1. PICK u : u = tx'[q]
    OBVIOUS
  <2>2. CountSound(u)
    <3>1. CASE q = r
      BY <2>1, <3>1 DEF BoardInv, Typed
    <3>2. CASE q # r
      BY <1>2, <2>1, <3>2 DEF SerialInv, Busy
    <3> QED
      BY <3>1, <3>2
  <2>3. CountSound(u)'
    BY <2>2 DEF CountSound, StageSeen, Unchanged
  <2> QED
    BY <2>1, <2>3
<1> QED
  BY <1>1, <1>2 DEF SerialInv

\* A statement before the transaction is ready: it has locked what is its own.
LEMMA EarlySerial ==
  ASSUME BoardInv, SerialInv, NEW r \in Requests, Busy(r), NEW t, tx' = [tx EXCEPT ![r] = t], Unchanged,
         t.req = tx[r].req, IsMove(t.req) => t.pc # "ready",
         \A c \in t.locks \cap Cards : c \in tx[r].locks \/ (IsMove(t.req) /\ c = t.req.card)
  PROVE  SerialInv'
<1>1. CountSound(tx[r])
  BY DEF SerialInv
<1>2. CountSound(t)
  BY <1>1 DEF CountSound
<1> QED
  BY <1>2, StatementSerial

LEMMA BeginSerial ==
  ASSUME BoardInv, SerialInv, NEW r \in Requests, ReceiveMove(r) \/ ReceiveScrap(r)
  PROVE  SerialInv'
<1>1. \E pc \in { "begun", "drawing" } : \E req : Begin(r, pc, req)
  BY DEF ReceiveMove, ReceiveScrap
<1>2. PICK pc \in { "begun", "drawing" } : \E req : Begin(r, pc, req)
  BY <1>1
<1>3. PICK req : Begin(r, pc, req)
  BY <1>2
<1>4. PICK t : t = [ pc |-> pc, req |-> req, locks |-> {}, line |-> 1,
                     card |-> NoCard, drawn |-> NoDraw, advance |-> FALSE ]
  OBVIOUS
<1>5. CountSound(t)
  BY <1>4 DEF CountSound
<1> QED
  BY <1>3, <1>4, <1>5, StatementSerial DEF Begin, Unchanged

\* The statements on the card, each up to the count.
LEMMA CardSerial ==
  ASSUME BoardInv, SerialInv, NEW r \in Requests, Claim(r) \/ Nudge(r) \/ AdvancePrintStage(r)
  PROVE  SerialInv'
<1> DEFINE c == tx[r].req.card
<1>1. /\ Busy(r) /\ Unchanged
      /\ \E pc \in { "readback", "drawing", "count" } : \E card :
            \/ tx' = [tx EXCEPT ![r].pc = pc]
            \/ tx' = [tx EXCEPT ![r].pc = pc, ![r].locks = @ \cup { c }, ![r].card = card]
  BY DEF Claim, Nudge, AdvancePrintStage, Busy
<1>2. /\ tx[r] \in BusyTx /\ IsMove(tx[r].req)
  <2>1. CardSound(tx[r]) /\ tx[r].pc \in { "begun", "readback" }
    BY <1>1, BusyFacts DEF Claim, Nudge, AdvancePrintStage
  <2> QED
    BY <1>1, <2>1, BusyFacts DEF CardSound
<1>3. PICK pc \in { "readback", "drawing", "count" } :
         \E card :
            \/ tx' = [tx EXCEPT ![r].pc = pc]
            \/ tx' = [tx EXCEPT ![r].pc = pc, ![r].locks = @ \cup { c }, ![r].card = card]
  BY <1>1
<1>4. PICK card :
         \/ tx' = [tx EXCEPT ![r].pc = pc]
         \/ tx' = [tx EXCEPT ![r].pc = pc, ![r].locks = @ \cup { c }, ![r].card = card]
  BY <1>3
<1>5. CASE tx' = [tx EXCEPT ![r].pc = pc]
  <2>1. PICK t : t = [tx[r] EXCEPT !.pc = pc]
    OBVIOUS
  <2>2. t.req = tx[r].req /\ t.locks = tx[r].locks /\ t.pc = pc
    BY <1>2, <2>1 DEF BusyTx
  <2>3. tx' = [tx EXCEPT ![r] = t]
    BY <1>5, <2>1
  <2> QED
    BY <1>1, <2>2, <2>3, EarlySerial
<1>6. CASE tx' = [tx EXCEPT ![r].pc = pc, ![r].locks = @ \cup { c }, ![r].card = card]
  <2>1. PICK t : t = [tx[r] EXCEPT !.pc = pc, !.locks = @ \cup { c }, !.card = card]
    OBVIOUS
  <2>2. t.req = tx[r].req /\ t.locks = tx[r].locks \cup { c } /\ t.pc = pc
    BY <1>2, <2>1 DEF BusyTx
  <2>3. tx' = [tx EXCEPT ![r] = t]
    BY <1>6, <2>1
  <2> QED
    BY <1>1, <1>2, <2>2, <2>3, EarlySerial
<1> QED
  BY <1>4, <1>5, <1>6

LEMMA DecrementSerial ==
  ASSUME BoardInv, SerialInv, NEW r \in Requests, Decrement(r) PROVE SerialInv'
<1>1. Busy(r)
  BY DEF Decrement, Busy
<1>2. /\ tx[r] \in BusyTx /\ tx[r].line \in Nat \ { 0 } /\ tx[r].pc = "drawing"
      /\ DrawsOf(tx[r].req) \in Seq([material : Materials, qty : Nat])
  BY <1>1, BusyFacts, ReqKinds DEF BusyTx, Decrement
<1>3. Wanted(r) \cap Cards = {}
  <2>1. tx[r].line \in 1 .. Len(DrawsOf(tx[r].req))
    BY <1>2, LenProperties DEF Decrement, MoreDraws
  <2>2. DrawLine(r) \in [material : Materials, qty : Nat]
    BY <1>2, <2>1, ElementOfSeq DEF DrawLine
  <2>3. Wanted(r) \subseteq { DrawLine(r).material }
    BY DEF Wanted, Decrement
  <2> QED
    BY <2>2, <2>3, BoardAssumption
<1>4. PICK drawn : tx' = [tx EXCEPT ![r].line  = @ + 1,
                                    ![r].locks = @ \cup Wanted(r),
                                    ![r].drawn = drawn]
  <2>1. PICK take : tx' = [tx EXCEPT ![r].line  = @ + 1,
                                     ![r].locks = @ \cup Wanted(r),
                                     ![r].drawn = [ l \in Lots |-> @[l] + take[l] ]]
    BY DEF Decrement
  <2> QED
    BY <2>1
<1>5. PICK t : t = [tx[r] EXCEPT !.line = @ + 1, !.locks = @ \cup Wanted(r), !.drawn = drawn]
  OBVIOUS
<1>6. t.req = tx[r].req /\ t.locks = tx[r].locks \cup Wanted(r) /\ t.pc = "drawing"
  BY <1>2, <1>5 DEF BusyTx
<1>7. tx' = [tx EXCEPT ![r] = t]
  BY <1>4, <1>5
<1> QED
  BY <1>1, <1>3, <1>6, <1>7, EarlySerial DEF Decrement

\* The count that finds none left moves on to the advance; one that finds a
\* card is ready, and the card is still there.
LEMMA StraightSerial ==
  ASSUME BoardInv, SerialInv, NEW r \in Requests, DrawsDone(r) \/ CountNeedPrint(r)
  PROVE  SerialInv'
<1>1. /\ Busy(r) /\ Unchanged
      /\ \E pc : tx' = [tx EXCEPT ![r].pc = pc]
  BY DEF DrawsDone, CountNeedPrint, Busy
<1>2. tx[r] \in BusyTx /\ CardSound(tx[r]) /\ CountSound(tx[r])
  BY <1>1, BusyFacts DEF SerialInv
<1>3. CASE DrawsDone(r)
  <2>1. PICK pc : pc = (IF IsMove(tx[r].req) THEN "count" ELSE "ready") /\ tx' = [tx EXCEPT ![r].pc = pc]
    BY <1>3 DEF DrawsDone
  <2>2. PICK t : t = [tx[r] EXCEPT !.pc = pc]
    OBVIOUS
  <2>3. t.req = tx[r].req /\ t.locks = tx[r].locks /\ t.pc = pc
    BY <1>2, <2>2 DEF BusyTx
  <2>4. tx' = [tx EXCEPT ![r] = t]
    BY <2>1, <2>2
  <2> QED
    BY <1>1, <2>1, <2>3, <2>4, EarlySerial
<1>4. CASE CountNeedPrint(r)
  <2>1. PICK pc : pc = (IF NeedPrintCount(r) = 0 THEN "advance" ELSE "ready") /\ tx' = [tx EXCEPT ![r].pc = pc]
    BY <1>4 DEF CountNeedPrint
  <2>2. PICK t : t = [tx[r] EXCEPT !.pc = pc]
    OBVIOUS
  <2>3. t.req = tx[r].req /\ t.locks = tx[r].locks /\ t.pc = pc /\ t.card = tx[r].card
    BY <1>2, <2>2 DEF BusyTx
  <2>4. tx' = [tx EXCEPT ![r] = t]
    BY <2>1, <2>2
  <2>5. CASE NeedPrintCount(r) = 0
    BY <1>1, <2>1, <2>3, <2>4, <2>5, EarlySerial
  <2>6. CASE NeedPrintCount(r) # 0
    <3>1. PICK c \in CardsOf(OrderOf[t.req.card]) : StageSeen(t, c) = "NEED_PRINT"
      <4>1. { c \in CardsOf(OrderOf[tx[r].req.card]) : StageSeenBy(r, c) = "NEED_PRINT" } # {}
        BY <2>6, FS_EmptySet DEF NeedPrintCount
      <4> QED
        BY <2>3, <4>1 DEF StageSeenBy, StageSeen
    <3>2. CountSound(t)
      BY <1>2, <2>3, <3>1 DEF CountSound
    <3> QED
      BY <1>1, <2>4, <3>2, StatementSerial
  <2> QED
    BY <2>5, <2>6
<1> QED
  BY <1>3, <1>4

LEMMA AutoAdvanceSerial ==
  ASSUME BoardInv, SerialInv, NEW r \in Requests, AutoAdvance(r) PROVE SerialInv'
<1>1. Busy(r) /\ tx[r].pc = "advance"
  BY DEF AutoAdvance, Busy
<1>2. tx[r] \in BusyTx /\ CardSound(tx[r]) /\ CountSound(tx[r]) /\ tx[r].req \in Moves \cup Scraps
  BY <1>1, BusyFacts DEF SerialInv
<1>3. PICK o : o = OrderOf[tx[r].req.card]
  OBVIOUS
<1>4. o \notin Cards
  BY <1>1, <1>2, <1>3, ReqKinds, BoardAssumption DEF CardSound
<1>5. PICK advance : advance = (<<status[o], "PRINTING">> \in AllowedEdges)
  OBVIOUS
<1>6. PICK t : t = [tx[r] EXCEPT !.pc = "ready", !.locks = @ \cup { o }, !.advance = advance]
  OBVIOUS
<1>7. t.req = tx[r].req /\ t.locks = tx[r].locks \cup { o } /\ t.advance = advance
  BY <1>2, <1>6 DEF BusyTx
<1>8. status[o] = "PAID" => t.advance
  BY <1>5, <1>7 DEF AllowedEdges
<1>9. CountSound(t)
  BY <1>2, <1>3, <1>4, <1>7, <1>8 DEF CountSound
<1>10. tx' = [tx EXCEPT ![r] = t]
  BY <1>3, <1>5, <1>6 DEF AutoAdvance
<1> QED
  BY <1>9, <1>10, StatementSerial DEF AutoAdvance

LEMMA CommitSerial ==
  ASSUME OneAtATime, BoardInv, SerialInv, NEW r \in Requests, Commit(r) PROVE SerialInv'
<1>1. /\ Busy(r) /\ tx[r].pc = "ready" /\ CountSound(tx[r]) /\ OrderSound(tx[r])
      /\ tx[r].req \in Moves \cup Scraps
  BY CommitRows, BusyFacts DEF SerialInv, Commit
<1>2. \A q \in Requests : ~ Busy(q)'
  BY CommitRows DEF OneAtATime, Busy, Idle
<1>3. ASSUME NEW o \in Orders, status'[o] = "PAID"
      PROVE  \E c \in CardsOf(o) : board'[c].stage = "NEED_PRINT"
  <2>1. status[o] = "PAID"
    BY <1>3, CommitRows
  <2>2. CASE IsMove(tx[r].req) /\ o = OrderOf[tx[r].req.card]
    <3>1. ~ tx[r].advance
      <4>1. tx[r].advance => status' = [status EXCEPT ![o] = "PRINTING"]
        BY <2>2 DEF Commit
      <4> QED
        BY <1>3, <4>1 DEF BoardInv, Typed
    <3>2. PICK c \in CardsOf(o) : StageSeen(tx[r], c) = "NEED_PRINT"
      BY <1>1, <2>1, <2>2, <3>1 DEF CountSound
    <3>3. c \in Cards
      BY DEF CardsOf
    <3>4. CASE c \in tx[r].locks
      <4>1. c = tx[r].req.card
        BY <1>1, <3>3, <3>4 DEF CountSound
      <4>2. board'[c] = tx[r].card
        BY <2>2, <3>3, <3>4, <4>1 DEF Commit, BoardInv, Typed
      <4> QED
        BY <3>2, <3>4, <4>2 DEF StageSeen
    <3>5. CASE c \notin tx[r].locks
      <4>1. board'[c] = board[c]
        BY <3>3, <3>5, CommitRows
      <4> QED
        BY <3>2, <3>5, <4>1 DEF StageSeen
    <3> QED
      BY <3>4, <3>5
  <2>3. CASE ~ (IsMove(tx[r].req) /\ o = OrderOf[tx[r].req.card])
    <3>1. PICK c \in CardsOf(o) : board[c].stage = "NEED_PRINT"
      BY <2>1 DEF SerialInv, Unstarted
    <3>2. board'[c] = board[c]
      BY <2>3, CommitRows DEF CardsOf
    <3> QED
      BY <3>1, <3>2
  <2> QED
    BY <2>2, <2>3
<1> QED
  BY <1>2, <1>3 DEF SerialInv, Unstarted

LEMMA RollBackSerial ==
  ASSUME OneAtATime, BoardInv, SerialInv, NEW r \in Requests, RollBack(r) PROVE SerialInv'
<1>1. \A q \in Requests : ~ Busy(q)'
  BY DEF RollBack, OneAtATime, Busy, Idle, BoardInv, Typed
<1>2. Unstarted'
  BY DEF RollBack, SerialInv, Unstarted, Unchanged
<1> QED
  BY <1>1, <1>2 DEF SerialInv

\* A payment comes with its cards, no other transition makes an order PAID, and
\* the order of a card on the board cannot be paid again.
LEMMA OrdersSerial ==
  ASSUME BoardInv, SerialInv, NEW o \in Orders, ConfirmPayment(o) \/ TransitionOrder(o)
  PROVE  SerialInv'
<1>1. PICK to : /\ status' = [status EXCEPT ![o] = to]
                /\ \/ ConfirmPayment(o) /\ to = "PAID" /\ status[o] = "PENDING_CONFIRM"
                   \/ TransitionOrder(o) /\ to # "PAID"
  BY DEF ConfirmPayment, TransitionOrder, AllowedEdges
<1>2. \A p \in Orders : status'[p] = IF p = o THEN to ELSE status[p]
  BY <1>1 DEF BoardInv, Typed
<1>3. \A c \in Cards : board'[c] = board[c] \/ (OrderOf[c] = o /\ ConfirmPayment(o) /\ board'[c] = NewCard)
  BY DEF ConfirmPayment, TransitionOrder, CardsOf
<1>4. ASSUME NEW p \in Orders, status'[p] = "PAID"
      PROVE  \E c \in CardsOf(p) : board'[c].stage = "NEED_PRINT"
  <2>1. CASE p = o
    <3>1. ConfirmPayment(o)
      BY <1>1, <1>2, <1>4, <2>1
    <3>2. PICK c \in Cards : OrderOf[c] = o
      BY BoardAssumption
    <3>3. c \in CardsOf(p) /\ board'[c] = NewCard
      BY <2>1, <3>1, <3>2 DEF ConfirmPayment, CardsOf
    <3> QED
      BY <3>3 DEF NewCard
  <2>2. CASE p # o
    <3>1. PICK c \in CardsOf(p) : board[c].stage = "NEED_PRINT"
      BY <1>2, <1>4, <2>2 DEF SerialInv, Unstarted
    <3>2. board'[c] = board[c]
      BY <1>3, <2>2 DEF CardsOf
    <3> QED
      BY <3>1, <3>2
  <2> QED
    BY <2>1, <2>2
<1>5. ASSUME NEW q \in Requests, Busy(q)' PROVE CountSound(tx[q])'
  <2>1. PICK t : t = tx[q]
    OBVIOUS
  <2>2. t = tx'[q] /\ Busy(q)
    BY <1>5, <2>1 DEF ConfirmPayment, TransitionOrder, Busy
  <2>3. CountSound(t) /\ CardSound(t) /\ t.req \in Moves \cup Scraps
    BY <2>1, <2>2, BusyFacts DEF SerialInv
  <2>4. ASSUME IsMove(t.req), t.pc = "ready", ~ t.advance, status'[OrderOf[t.req.card]] = "PAID"
        PROVE  \E c \in CardsOf(OrderOf[t.req.card]) :
                  (IF c \in t.locks THEN t.card.stage ELSE board'[c].stage) = "NEED_PRINT"
    <3>1. t.req.card \in Cards /\ board[t.req.card] # NoCard /\ OrderOf[t.req.card] \in Orders
      BY <2>3, <2>4, ReqKinds, CardRows DEF CardSound
    <3>2. status[OrderOf[t.req.card]] # "PENDING_CONFIRM"
      BY <3>1 DEF BoardInv, Confirmed
    <3>3. OrderOf[t.req.card] # o /\ status[OrderOf[t.req.card]] = "PAID"
      BY <1>1, <1>2, <2>4, <3>1, <3>2
    <3>4. PICK c \in CardsOf(OrderOf[t.req.card]) : StageSeen(t, c) = "NEED_PRINT"
      BY <2>3, <2>4, <3>3 DEF CountSound
    <3>5. board'[c] = board[c]
      BY <1>3, <3>3 DEF CardsOf
    <3> QED
      BY <3>4, <3>5 DEF StageSeen
  <2>5. CountSound(t)'
    BY <2>3, <2>4 DEF CountSound, StageSeen
  <2> QED
    BY <2>2, <2>5
<1> QED
  BY <1>4, <1>5 DEF SerialInv, Unstarted

LEMMA InitSerial == Init => SerialInv
BY DEF Init, SerialInv, Unstarted, Busy, Idle

LEMMA NextSerial ==
  ASSUME OneAtATime PROVE BoardInv /\ SerialInv /\ [Next]_vars => SerialInv'
<1> SUFFICES ASSUME BoardInv, SerialInv, [Next]_vars PROVE SerialInv'
  OBVIOUS
<1>1. ASSUME NEW r \in Requests, ReceiveMove(r) \/ ReceiveScrap(r) PROVE SerialInv'
  BY <1>1, BeginSerial
<1>2. ASSUME NEW r \in Requests, Waiting(r) PROVE SerialInv'
  BY <1>2, CardSerial, DecrementSerial, AutoAdvanceSerial DEF Waiting
<1>3. ASSUME NEW r \in Requests, Straight(r) PROVE SerialInv'
  BY <1>3, StraightSerial, CommitSerial, RollBackSerial DEF Straight, DeadlockVictim
<1>4. ASSUME NEW r \in Requests, Abort(r) PROVE SerialInv'
  BY <1>4, RollBackSerial DEF Abort
<1>5. ASSUME NEW o \in Orders, ConfirmPayment(o) \/ TransitionOrder(o) PROVE SerialInv'
  BY <1>5, OrdersSerial
<1>6. CASE UNCHANGED vars
  <2>1. Unstarted'
    BY <1>6 DEF vars, SerialInv, Unstarted
  <2>2. ASSUME NEW q \in Requests, Busy(q)' PROVE CountSound(tx[q])'
    BY <1>6, <2>2 DEF vars, SerialInv, CountSound, StageSeen, Busy
  <2> QED
    BY <2>1, <2>2 DEF SerialInv
<1> QED
  BY <1>1, <1>2, <1>3, <1>4, <1>5, <1>6 DEF Next

\* "auto-advances the order PAID -> PRINTING once every line has left
\* NEED_PRINT" is true of staff who drag one card at a time: then no PAID order
\* is without a card at NEED_PRINT, whatever fails or rolls back.
THEOREM SerialMovesAdvance ==
  ASSUME OneAtATime PROVE Spec => []PaidMeansUnstarted
<1>1. BoardInv /\ SerialInv /\ [Next]_vars => SerialInv'
  BY NextSerial
<1>2. SerialInv => PaidMeansUnstarted
  BY DEF SerialInv, Unstarted, PaidMeansUnstarted
<1> QED
  BY BoardInvariant, InitSerial, <1>1, <1>2, PTL DEF Spec
=============================================================================
