------------------------ MODULE AuthorizationProofs ------------------------
(***************************************************************************)
(* Proofs about Authorization.  Chains of tokens are followed by recursive   *)
(* functions: that these are defined, and what they return, is shown from    *)
(* the least token that would be an exception, a token's proofs being less   *)
(* than the token.  The files of a message (Attachments) are counted by such *)
(* functions too, and proved about after them.                              *)
(***************************************************************************)
EXTENDS Authorization, Attachments, FiniteSetTheorems, WellFoundedInduction, TLAPS

------------------------------------------------------------------------------
(* Recursion on the numbers up to n.                                        *)

(* A set of numbers that is not empty has a least element.                  *)
LEMMA Least ==
  ASSUME NEW S \in SUBSET Nat, S # {}
  PROVE  \E n \in S : \A m \in S : n <= m
<1>1. PICK n \in S : \A m \in S : ~ (<<m, n>> \in OpToRel(<, Nat))
  BY NatLessThanWellFounded, WFMin, Zenon
<1>2. \A x, y \in Nat : x < y => <<x, y>> \in OpToRel(<, Nat)
  BY Zenon DEF OpToRel
<1>3. \A m \in S : ~(m < n)
  BY <1>1, <1>2, Zenon
<1>4. n \in Nat /\ \A m \in S : m \in Nat
  OBVIOUS
<1>5. \A m \in S : n <= m
  BY <1>3, <1>4
<1> QED
  BY <1>5

(* What holds of a number whenever it holds of all lesser ones holds of all. *)
LEMMA Induction ==
  ASSUME NEW n \in Nat, NEW S, \A j \in 1..n : (\A i \in 1..(j - 1) : i \in S) => j \in S
  PROVE  \A j \in 1..n : j \in S
<1> DEFINE Other == {j \in 1..n : j \notin S}
<1>1. SUFFICES ASSUME Other # {} PROVE FALSE
  OBVIOUS
<1>2. Other \in SUBSET Nat
  OBVIOUS
<1>3. PICK k \in Other : \A m \in Other : k <= m
  <2> HIDE DEF Other
  <2> QED
    BY <1>1, <1>2, Least
<1>4. \A i \in 1..(k - 1) : i \in 1..n /\ i \in S
  BY <1>3
<1> QED
  BY <1>4

(* A step gives the value of a function from its argument and the function,  *)
(* and looks only at the function's values of what is less.                 *)
LooksBelow(n, V, step) ==
  /\ step \in [(1..n) \X [1..n -> V] -> V]
  /\ \A j \in 1..n : \A f, g \in [1..n -> V] :
       (\A i \in 1..(j - 1) : f[i] = g[i]) => step[<<j, f>>] = step[<<j, g>>]

Follows(n, V, step, f) == f \in [1..n -> V] /\ \A j \in 1..n : f[j] = step[<<j, f>>]

(* There is a function that follows such a step: were there a least n without *)
(* one that follows it up to n, the one that does up to n - 1 could be mended  *)
(* at n.                                                                    *)
LEMMA Defined ==
  ASSUME NEW n \in Nat, NEW V, V # {}, NEW step, LooksBelow(n, V, step)
  PROVE  \E f : Follows(n, V, step, f)
<1> USE DEF LooksBelow
<1> DEFINE Upto(k, f) == \A j \in 1..k : f[j] = step[<<j, f>>]
           Short == {k \in 0..n : \A f \in [1..n -> V] : ~Upto(k, f)}
<1>1. SUFFICES ASSUME \A f \in [1..n -> V] : ~Upto(n, f)
               PROVE  FALSE
  BY Zenon DEF Follows
<1>2. PICK k \in Short : \A m \in Short : k <= m
  <2> HIDE DEF Upto
  <2>1. n \in Short
    BY <1>1
  <2>2. Short \in SUBSET Nat
    OBVIOUS
  <2> HIDE DEF Short
  <2> QED
    BY <2>1, <2>2, Least
<1>3. PICK v \in V : TRUE
  OBVIOUS
<1>4. k # 0
  <2>1. [j \in 1..n |-> v] \in [1..n -> V]
    BY <1>3
  <2>2. \A f : Upto(0, f)
    <3>1. \A j \in 1..0 : FALSE
      OBVIOUS
    <3> QED
      BY <3>1, Zenon
  <2> HIDE DEF Upto
  <2> QED
    BY ZenonT(30), <2>1, <2>2
<1>5. k \in 1..n /\ k - 1 \in 0..n /\ k - 1 \notin Short
  <2> HIDE DEF Upto
  <2>1. k \in 0..n
    OBVIOUS
  <2> HIDE DEF Short
  <2> QED
    BY <1>2, <1>4, <2>1
<1>6. PICK f \in [1..n -> V] : Upto(k - 1, f)
  <2> HIDE DEF Upto
  <2>1. ~ \A f \in [1..n -> V] : ~Upto(k - 1, f)
    BY <1>5
  <2> QED
    BY <2>1, Zenon
<1> DEFINE g == [f EXCEPT ![k] = step[<<k, f>>]]
<1>7. step[<<k, f>>] \in V
  BY <1>5
<1>8. g \in [1..n -> V] /\ g[k] = step[<<k, f>>] /\ \A i \in 1..n : i # k => g[i] = f[i]
  BY <1>5, <1>7
<1> HIDE DEF g, Short
<1>9. \A j \in 1..k : step[<<j, g>>] = step[<<j, f>>]
  <2> TAKE j \in 1..k
  <2>1. j \in 1..n /\ \A i \in 1..(j - 1) : i \in 1..n /\ i # k
    BY <1>5
  <2>2. \A i \in 1..(j - 1) : g[i] = f[i]
    BY <2>1, <1>8
  <2> QED
    BY <2>1, <2>2, <1>8
<1>10. Upto(k, g)
  <2> SUFFICES ASSUME NEW j \in 1..k PROVE g[j] = step[<<j, g>>]
    OBVIOUS
  <2>1. CASE j = k
    BY <2>1, <1>8, <1>9
  <2>2. CASE j # k
    <3>1. j \in 1..(k - 1) /\ j \in 1..n
      BY <2>2, <1>5
    <3>2. f[j] = step[<<j, f>>]
      BY <3>1, <1>6
    <3>3. g[j] = f[j]
      BY <3>1, <1>8, <2>2
    <3> QED
      BY <3>2, <3>3, <1>9
  <2> QED
    BY <2>1, <2>2
<1>11. \A h \in [1..n -> V] : ~Upto(k, h)
  <2> HIDE DEF Upto
  <2> QED
    BY DEF Short
<1> QED
  BY <1>8, <1>10, <1>11

------------------------------------------------------------------------------
(* Tokens and what is computed over their chains.                           *)

Ids == Proofs!Ids
From(t) == Tokens[t].proofs

(* Tokens are numbered, and rest on lesser ones.                            *)
LEMMA TokensAreOrdered ==
  /\ Len(Tokens) \in Nat /\ Ids = 1..Len(Tokens)
  /\ \A t \in Ids : Tokens[t].exp \in Nat /\ From(t) \in Seq(Ids)
  /\ \A t \in Ids : \A i \in DOMAIN From(t) : From(t)[i] \in Ids /\ From(t)[i] < t
<1>1. Tokens \in Seq(Proofs!Range(Tokens))
  BY AuthorizationAssumption, Zenon DEF AuthorizationAssumption, Proofs!ProofChainAssumption
<1>2. Len(Tokens) \in Nat /\ Ids = 1..Len(Tokens)
  BY <1>1 DEF Ids, Proofs!Ids
<1>3. ASSUME NEW t \in Ids
      PROVE  /\ Tokens[t].exp \in Nat /\ From(t) \in Seq(Ids)
             /\ \A i \in DOMAIN From(t) : From(t)[i] \in Ids /\ From(t)[i] < t
  <2>1. Tokens[t].exp \in Nat /\ From(t) \in Seq({p \in Ids : p < t})
    BY AuthorizationAssumption, Zenon
    DEF AuthorizationAssumption, Proofs!ProofChainAssumption, Ids, From
  <2>2. \A i \in DOMAIN From(t) : From(t)[i] \in {p \in Ids : p < t}
    BY <2>1
  <2>3. {p \in Ids : p < t} \subseteq Ids
    OBVIOUS
  <2>4. From(t) \in Seq(Ids)
    BY <2>1, <2>3
  <2> QED
    BY <2>1, <2>2, <2>4
<1> QED
  BY <1>2, <1>3, Zenon

Verdicts == {"ok", "INVALID_SIGNATURE", "UNAUTHORIZED"}

(* verifyDelegationChain says ok of a token only when its key is one of its   *)
(* issuer, every proof is linked to it, and it says ok of every proof.       *)
LEMMA VerdictFollows ==
  ASSUME NEW Up
  PROVE  \E v \in [Ids -> Verdicts] :
           /\ v = Proofs!VerifyDelegationChain(Up)
           /\ \A t \in Ids : v[t] = "ok" =>
                /\ Tokens[t].key \in Proofs!ResolveDIDKey(Tokens[t].issuer, Up)
                /\ \A i \in DOMAIN From(t) :
                     Proofs!LinkedTo(t, From(t)[i], Up) /\ v[From(t)[i]] = "ok"
<1> DEFINE n == Len(Tokens)
           Keyed(t) == Tokens[t].key \in Proofs!ResolveDIDKey(Tokens[t].issuer, Up)
           Linked(t, p) == Proofs!LinkedTo(t, p, Up)
           Bad(t, v) == {i \in DOMAIN From(t) : ~Linked(t, From(t)[i]) \/ v[From(t)[i]] # "ok"}
           First(B) == CHOOSE i \in B : \A j \in B : i <= j
           Body(t, v) ==
             IF ~Keyed(t) THEN "INVALID_SIGNATURE"
             ELSE IF Bad(t, v) = {} THEN "ok"
             ELSE IF ~Linked(t, From(t)[First(Bad(t, v))]) THEN "UNAUTHORIZED"
             ELSE v[From(t)[First(Bad(t, v))]]
           step == [x \in (1..n) \X [1..n -> Verdicts] |-> Body(x[1], x[2])]
<1>1. n \in Nat /\ Ids = 1..n
  BY TokensAreOrdered
<1>2. Proofs!VerifyDelegationChain(Up) = CHOOSE v : v = [t \in Ids |-> Body(t, v)]
  BY Zenon DEF Proofs!VerifyDelegationChain, Ids, From
<1> HIDE DEF Keyed, Linked
<1>3. ASSUME NEW t \in Ids, NEW v, Bad(t, v) # {}
      PROVE  First(Bad(t, v)) \in Bad(t, v) /\ From(t)[First(Bad(t, v))] \in Ids
  <2>1. Bad(t, v) \in SUBSET Nat
    BY TokensAreOrdered
  <2>2. \E i \in Bad(t, v) : \A j \in Bad(t, v) : i <= j
    <3> HIDE DEF Bad
    <3> QED
      BY <1>3, <2>1, Least
  <2>3. First(Bad(t, v)) \in Bad(t, v)
    <3> HIDE DEF Bad
    <3> QED
      BY <2>2
  <2> QED
    BY <2>3, TokensAreOrdered
<1>4. ASSUME NEW t \in Ids, NEW v \in [Ids -> Verdicts]
      PROVE  Body(t, v) \in Verdicts
  <2> HIDE DEF First, Bad
  <2> QED
    BY <1>3 DEF Verdicts
<1>5. ASSUME NEW t \in Ids, NEW v, NEW w,
             \A i \in 1..(t - 1) : v[i] = w[i]
      PROVE  Body(t, v) = Body(t, w)
  <2>1. \A i \in DOMAIN From(t) : v[From(t)[i]] = w[From(t)[i]]
    BY <1>1, <1>5, TokensAreOrdered
  <2>2. Bad(t, v) = Bad(t, w)
    BY <2>1
  <2>3. Bad(t, v) # {} => v[From(t)[First(Bad(t, v))]] = w[From(t)[First(Bad(t, v))]]
    <3>1. \A i \in Bad(t, v) : i \in DOMAIN From(t)
      OBVIOUS
    <3> HIDE DEF First, Bad
    <3> QED
      BY <3>1, <2>1, <1>3
  <2> HIDE DEF First, Bad
  <2> QED
    BY <2>2, <2>3
<1> HIDE DEF Body
<1>6. PICK v : Follows(n, Verdicts, step, v)
  <2>1. step \in [(1..n) \X [1..n -> Verdicts] -> Verdicts]
    BY <1>1, <1>4
  <2>2. \A j \in 1..n : \A f, g \in [1..n -> Verdicts] :
          (\A i \in 1..(j - 1) : f[i] = g[i]) => step[<<j, f>>] = step[<<j, g>>]
    <3> SUFFICES ASSUME NEW j \in 1..n, NEW f \in [1..n -> Verdicts], NEW g \in [1..n -> Verdicts],
                        \A i \in 1..(j - 1) : f[i] = g[i]
                 PROVE  step[<<j, f>>] = step[<<j, g>>]
      OBVIOUS
    <3>1. Body(j, f) = Body(j, g)
      BY <1>1, <1>5
    <3>2. step[<<j, f>>] = Body(j, f) /\ step[<<j, g>>] = Body(j, g)
      OBVIOUS
    <3> QED
      BY <3>1, <3>2
  <2>4. LooksBelow(n, Verdicts, step)
    BY <2>1, <2>2, Zenon DEF LooksBelow
  <2>3. Verdicts # {}
    BY DEF Verdicts
  <2> HIDE DEF step, n
  <2> QED
    BY <1>1, <2>3, <2>4, Defined, Zenon
<1>7. v \in [Ids -> Verdicts] /\ v = [t \in Ids |-> Body(t, v)]
  BY <1>1, <1>6 DEF Follows
<1> HIDE DEF step
<1>8. PICK w : w = Proofs!VerifyDelegationChain(Up) /\ w = [t \in Ids |-> Body(t, w)]
  BY <1>2, <1>7, Zenon
<1>9. w = v
  <2> DEFINE Same == {t \in Ids : w[t] = v[t]}
  <2>1. ASSUME NEW j \in 1..n, \A i \in 1..(j - 1) : i \in Same
        PROVE  j \in Same
    <3>1. j \in Ids /\ \A i \in 1..(j - 1) : w[i] = v[i]
      BY <1>1, <2>1
    <3>2. Body(j, w) = Body(j, v)
      BY <3>1, <1>5
    <3>3. w[j] = Body(j, w) /\ v[j] = Body(j, v)
      BY <3>1, <1>7, <1>8
    <3> QED
      BY <3>1, <3>2, <3>3
  <2>2. \A j \in 1..n : j \in Same
    <3> HIDE DEF Same, n
    <3> QED
      BY <1>1, <2>1, Induction
  <2> QED
    BY <1>1, <1>7, <1>8, <2>2
<1>10. ASSUME NEW t \in Ids, v[t] = "ok"
       PROVE  Keyed(t) /\ \A i \in DOMAIN From(t) : Linked(t, From(t)[i]) /\ v[From(t)[i]] = "ok"
  <2>1. v[t] = Body(t, v)
    BY <1>7
  <2>2. Bad(t, v) = {}
    <3>1. Bad(t, v) # {} => v[From(t)[First(Bad(t, v))]] # "ok" \/ ~Linked(t, From(t)[First(Bad(t, v))])
      BY <1>3
    <3> QED
      BY <1>10, <2>1, <3>1 DEF Body
  <2> QED
    BY <1>10, <2>1, <2>2 DEF Body
<1> QED
  BY <1>7, <1>8, <1>9, <1>10, Zenon DEF Keyed, Linked

(* computeEffectiveExpiration looks at the first proof of each token.         *)
LEMMA EndFollows ==
  \E v \in [Ids -> Nat] :
    /\ v = Proofs!ComputeEffectiveExpiration
    /\ \A t \in Ids : v[t] = IF From(t) = << >> THEN Tokens[t].exp
                             ELSE Proofs!Earlier(Tokens[t].exp, v[From(t)[1]])
<1> DEFINE n == Len(Tokens)
           Body(t, v) == IF From(t) = << >> THEN Tokens[t].exp
                             ELSE Proofs!Earlier(Tokens[t].exp, v[From(t)[1]])
           step == [x \in (1..n) \X [1..n -> Nat] |-> Body(x[1], x[2])]
<1>1. n \in Nat /\ Ids = 1..n
  BY TokensAreOrdered
<1>2. Proofs!ComputeEffectiveExpiration = CHOOSE v : v = [t \in Ids |-> Body(t, v)]
  BY Zenon DEF Proofs!ComputeEffectiveExpiration, Ids, From
<1>3. ASSUME NEW t \in Ids, From(t) # << >>
      PROVE  From(t)[1] \in Ids /\ From(t)[1] \in 1..(t - 1)
  <2>1. 1 \in DOMAIN From(t)
    BY <1>3, TokensAreOrdered
  <2> QED
    BY <1>1, <2>1, TokensAreOrdered
<1>4. ASSUME NEW t \in Ids, NEW v \in [Ids -> Nat]
      PROVE  Body(t, v) \in Nat
  BY <1>3, TokensAreOrdered DEF Proofs!Earlier
<1>5. ASSUME NEW t \in Ids, NEW v, NEW w, \A i \in 1..(t - 1) : v[i] = w[i]
      PROVE  Body(t, v) = Body(t, w)
  BY <1>3, <1>5
<1> HIDE DEF Body
<1>6. PICK v : Follows(n, Nat, step, v)
  <2>1. step \in [(1..n) \X [1..n -> Nat] -> Nat]
    BY <1>1, <1>4
  <2>2. \A j \in 1..n : \A f, g \in [1..n -> Nat] :
          (\A i \in 1..(j - 1) : f[i] = g[i]) => step[<<j, f>>] = step[<<j, g>>]
    <3> SUFFICES ASSUME NEW j \in 1..n, NEW f \in [1..n -> Nat], NEW g \in [1..n -> Nat],
                        \A i \in 1..(j - 1) : f[i] = g[i]
                 PROVE  step[<<j, f>>] = step[<<j, g>>]
      OBVIOUS
    <3>1. Body(j, f) = Body(j, g)
      BY <1>1, <1>5
    <3>2. step[<<j, f>>] = Body(j, f) /\ step[<<j, g>>] = Body(j, g)
      OBVIOUS
    <3> QED
      BY <3>1, <3>2
  <2>3. LooksBelow(n, Nat, step)
    BY <2>1, <2>2, Zenon DEF LooksBelow
  <2>4. Nat # {}
    OBVIOUS
  <2> HIDE DEF step, n
  <2> QED
    BY <1>1, <2>3, <2>4, Defined, Zenon
<1>7. v \in [Ids -> Nat] /\ v = [t \in Ids |-> Body(t, v)]
  BY <1>1, <1>6 DEF Follows
<1> HIDE DEF step
<1>8. PICK w : w = Proofs!ComputeEffectiveExpiration /\ w = [t \in Ids |-> Body(t, w)]
  BY <1>2, <1>7, Zenon
<1>9. w = v
  <2> DEFINE Same == {t \in Ids : w[t] = v[t]}
  <2>1. ASSUME NEW j \in 1..n, \A i \in 1..(j - 1) : i \in Same
        PROVE  j \in Same
    <3>1. j \in Ids /\ \A i \in 1..(j - 1) : w[i] = v[i]
      BY <1>1, <2>1
    <3>2. Body(j, w) = Body(j, v)
      BY <3>1, <1>5
    <3>3. w[j] = Body(j, w) /\ v[j] = Body(j, v)
      BY <3>1, <1>7, <1>8
    <3> QED
      BY <3>1, <3>2, <3>3
  <2>2. \A j \in 1..n : j \in Same
    <3> HIDE DEF Same, n
    <3> QED
      BY <1>1, <2>1, Induction
  <2> QED
    BY <1>1, <1>7, <1>8, <2>2
<1>10. \A t \in Ids : v[t] = Body(t, v)
  BY <1>7
<1> QED
  BY <1>7, <1>8, <1>9, <1>10 DEF Body

Issuers == {Tokens[t].issuer : t \in Ids}

(* buildProofChain too, and lists the issuers.                               *)
LEMMA ChainFollows ==
  \E v \in [Ids -> Seq(Issuers)] :
    /\ v = Proofs!BuildProofChain
    /\ \A t \in Ids : v[t] = Append(IF From(t) = << >> THEN << >> ELSE v[From(t)[1]],
                                    Tokens[t].issuer)
<1> DEFINE n == Len(Tokens)
           Body(t, v) == Append(IF From(t) = << >> THEN << >> ELSE v[From(t)[1]],
                                    Tokens[t].issuer)
           step == [x \in (1..n) \X [1..n -> Seq(Issuers)] |-> Body(x[1], x[2])]
<1>1. n \in Nat /\ Ids = 1..n
  BY TokensAreOrdered
<1>2. Proofs!BuildProofChain = CHOOSE v : v = [t \in Ids |-> Body(t, v)]
  BY Zenon DEF Proofs!BuildProofChain, Ids, From
<1>3. ASSUME NEW t \in Ids, From(t) # << >>
      PROVE  From(t)[1] \in Ids /\ From(t)[1] \in 1..(t - 1)
  <2>1. 1 \in DOMAIN From(t)
    BY <1>3, TokensAreOrdered
  <2> QED
    BY <1>1, <2>1, TokensAreOrdered
<1>4. ASSUME NEW t \in Ids, NEW v \in [Ids -> Seq(Issuers)]
      PROVE  Body(t, v) \in Seq(Issuers)
  <2>1. Tokens[t].issuer \in Issuers
    BY DEF Issuers
  <2>2. (IF From(t) = << >> THEN << >> ELSE v[From(t)[1]]) \in Seq(Issuers)
    BY <1>3
  <2> QED
    BY <2>1, <2>2
<1>5. ASSUME NEW t \in Ids, NEW v, NEW w, \A i \in 1..(t - 1) : v[i] = w[i]
      PROVE  Body(t, v) = Body(t, w)
  BY <1>3, <1>5
<1> HIDE DEF Body
<1>6. PICK v : Follows(n, Seq(Issuers), step, v)
  <2>1. step \in [(1..n) \X [1..n -> Seq(Issuers)] -> Seq(Issuers)]
    BY <1>1, <1>4
  <2>2. \A j \in 1..n : \A f, g \in [1..n -> Seq(Issuers)] :
          (\A i \in 1..(j - 1) : f[i] = g[i]) => step[<<j, f>>] = step[<<j, g>>]
    <3> SUFFICES ASSUME NEW j \in 1..n, NEW f \in [1..n -> Seq(Issuers)], NEW g \in [1..n -> Seq(Issuers)],
                        \A i \in 1..(j - 1) : f[i] = g[i]
                 PROVE  step[<<j, f>>] = step[<<j, g>>]
      OBVIOUS
    <3>1. Body(j, f) = Body(j, g)
      BY <1>1, <1>5
    <3>2. step[<<j, f>>] = Body(j, f) /\ step[<<j, g>>] = Body(j, g)
      OBVIOUS
    <3> QED
      BY <3>1, <3>2
  <2>3. LooksBelow(n, Seq(Issuers), step)
    BY <2>1, <2>2, Zenon DEF LooksBelow
  <2>4. Seq(Issuers) # {}
    <3>1. << >> \in Seq(Issuers)
      OBVIOUS
    <3> QED
      BY <3>1
  <2> HIDE DEF step, n
  <2> QED
    BY <1>1, <2>3, <2>4, Defined, Zenon
<1>7. v \in [Ids -> Seq(Issuers)] /\ v = [t \in Ids |-> Body(t, v)]
  BY <1>1, <1>6 DEF Follows
<1> HIDE DEF step
<1>8. PICK w : w = Proofs!BuildProofChain /\ w = [t \in Ids |-> Body(t, w)]
  BY <1>2, <1>7, Zenon
<1>9. w = v
  <2> DEFINE Same == {t \in Ids : w[t] = v[t]}
  <2>1. ASSUME NEW j \in 1..n, \A i \in 1..(j - 1) : i \in Same
        PROVE  j \in Same
    <3>1. j \in Ids /\ \A i \in 1..(j - 1) : w[i] = v[i]
      BY <1>1, <2>1
    <3>2. Body(j, w) = Body(j, v)
      BY <3>1, <1>5
    <3>3. w[j] = Body(j, w) /\ v[j] = Body(j, v)
      BY <3>1, <1>7, <1>8
    <3> QED
      BY <3>1, <3>2, <3>3
  <2>2. \A j \in 1..n : j \in Same
    <3> HIDE DEF Same, n
    <3> QED
      BY <1>1, <2>1, Induction
  <2> QED
    BY <1>1, <1>7, <1>8, <2>2
<1>10. \A t \in Ids : v[t] = Body(t, v)
  BY <1>7
<1> QED
  BY <1>7, <1>8, <1>9, <1>10 DEF Body

------------------------------------------------------------------------------
(* The tokens a token rests on.                                             *)

Under(t) == Proofs!Under(t)
Closed(S) == Proofs!Closed(S)

LEMMA UnderIsLeast ==
  ASSUME NEW t \in Ids
  PROVE  /\ t \in Under(t) /\ Under(t) \subseteq Ids
         /\ \A p \in Under(t) : \A i \in DOMAIN From(p) : From(p)[i] \in Under(t)
         /\ \A S \in SUBSET Ids :
              t \in S /\ (\A p \in S : \A i \in DOMAIN From(p) : From(p)[i] \in S)
              => Under(t) \subseteq S
<1>1. \A S : Closed(S) <=> \A p \in S : \A i \in DOMAIN From(p) : From(p)[i] \in S
  BY Zenon DEF Closed, Proofs!Closed, Proofs!Range, From
<1>2. Under(t) = {p \in Ids : \A S \in SUBSET Ids : t \in S /\ Closed(S) => p \in S}
  BY Zenon DEF Under, Proofs!Under, Closed, Ids
<1>3. t \in Under(t) /\ Under(t) \subseteq Ids
  BY <1>2
<1>4. ASSUME NEW p \in Under(t), NEW i \in DOMAIN From(p)
      PROVE  From(p)[i] \in Under(t)
  <2>1. From(p)[i] \in Ids
    BY <1>3, TokensAreOrdered
  <2>2. ASSUME NEW S \in SUBSET Ids, t \in S, Closed(S)
        PROVE  From(p)[i] \in S
    <3>1. p \in S
      BY <1>2, <2>2
    <3> QED
      BY <1>1, <2>2, <3>1
  <2> QED
    BY <1>2, <2>1, <2>2
<1> QED
  BY <1>1, <1>2, <1>3, <1>4

(* With one proof to each token, what a token rests on is a line: the token,  *)
(* and what its proof rests on, where the token is not.                      *)
LEMMA UnderIsALine ==
  ASSUME Proofs!OneProof, NEW t \in Ids
  PROVE  /\ IsFiniteSet(Under(t))
         /\ From(t) = << >> => Under(t) = {t}
         /\ From(t) # << >> =>
              /\ From(t)[1] \in Ids /\ From(t)[1] \in 1..(t - 1)
              /\ Under(t) = Under(From(t)[1]) \cup {t} /\ t \notin Under(From(t)[1])
<1>1. \A p \in Ids : DOMAIN From(p) = IF From(p) = << >> THEN {} ELSE {1}
  <2> TAKE p \in Ids
  <2>1. From(p) \in Seq(Ids) /\ Len(From(p)) <= 1
    BY TokensAreOrdered DEF Proofs!OneProof, Ids, From
  <2>2. DOMAIN From(p) = 1..Len(From(p)) /\ Len(From(p)) \in {0, 1}
    BY <2>1
  <2>3. From(p) = << >> <=> Len(From(p)) = 0
    BY <2>1
  <2> QED
    BY <2>2, <2>3
<1>2. IsFiniteSet(Under(t))
  <2>1. Under(t) \in SUBSET (1..Len(Tokens)) /\ Len(Tokens) \in Int /\ 1 \in Int
    BY UnderIsLeast, TokensAreOrdered
  <2>2. IsFiniteSet(1..Len(Tokens))
    BY <2>1, FS_Interval
  <2> QED
    BY <2>1, <2>2, FS_Subset
<1>3. CASE From(t) = << >>
  <2>1. \A p \in {t} : \A i \in DOMAIN From(p) : From(p)[i] \in {t}
    BY <1>1, <1>3
  <2>2. {t} \in SUBSET Ids /\ t \in {t}
    OBVIOUS
  <2>3. t \in Under(t) /\ Under(t) \subseteq {t}
    BY <2>1, <2>2, UnderIsLeast
  <2>4. Under(t) = {t}
    BY <2>3
  <2> QED
    BY <1>2, <1>3, <2>4
<1>4. CASE From(t) # << >>
  <2> DEFINE q == From(t)[1]
  <2>1. q \in Ids /\ q \in 1..(t - 1)
    BY <1>1, <1>4, TokensAreOrdered
  <2>2. \A S \in SUBSET Ids :
          t \in S /\ (\A p \in S : \A i \in DOMAIN From(p) : From(p)[i] \in S)
          => Under(t) \subseteq S
    BY UnderIsLeast
  <2>3. /\ q \in Under(q) /\ Under(q) \subseteq Ids
        /\ \A p \in Under(q) : \A i \in DOMAIN From(p) : From(p)[i] \in Under(q)
        /\ \A S \in SUBSET Ids :
             q \in S /\ (\A p \in S : \A i \in DOMAIN From(p) : From(p)[i] \in S)
             => Under(q) \subseteq S
    BY <2>1, UnderIsLeast
  <2>4. \A p \in Under(q) \cup {t} : \A i \in DOMAIN From(p) : From(p)[i] \in Under(q) \cup {t}
    BY <1>1, <1>4, <2>3
  <2>5. Under(t) \subseteq Under(q) \cup {t}
    <3>1. Under(q) \cup {t} \in SUBSET Ids /\ t \in Under(q) \cup {t}
      BY <2>3
    <3> QED
      BY <2>2, <2>4, <3>1
  <2>6. t \in Under(t) /\ q \in Under(t)
    BY <1>1, <1>4, UnderIsLeast
  <2>7. Under(q) \subseteq Under(t)
    BY <2>3, <2>6, UnderIsLeast
  <2>8. t \notin Under(q)
    <3> DEFINE Lower == {p \in Ids : p <= q}
    <3>1. q \in Lower /\ t \notin Lower
      BY <2>1, TokensAreOrdered
    <3>2. \A p \in Lower : \A i \in DOMAIN From(p) : From(p)[i] \in Lower
      BY <2>1, TokensAreOrdered
    <3>3. Lower \in SUBSET Ids
      OBVIOUS
    <3> HIDE DEF Lower
    <3> QED
      BY <2>3, <3>1, <3>2, <3>3
  <2> QED
    BY <1>2, <1>4, <2>1, <2>5, <2>6, <2>7, <2>8
<1> QED
  BY <1>3, <1>4

(* e is the earliest of the ends in E, or 0 when there is none.              *)
EarliestOf(e, E) == IF E = {} THEN e = 0 ELSE e \in E /\ \A x \in E : e <= x

Ending(S) == Proofs!Ending(S)

LEMMA EarlierIsEarliest ==
  ASSUME NEW E \in SUBSET Nat, NEW e \in Nat, EarliestOf(e, E), 0 \notin E, NEW x \in Nat
  PROVE  EarliestOf(Proofs!Earlier(x, e), E \cup ({x} \ {0}))
<1>1. CASE x = 0
  BY <1>1 DEF EarliestOf, Proofs!Earlier
<1>2. CASE x # 0 /\ E = {}
  BY <1>2 DEF EarliestOf, Proofs!Earlier
<1>3. CASE x # 0 /\ E # {}
  <2>1. e \in E /\ e # 0 /\ \A y \in E : e <= y /\ y \in Nat
    BY <1>3 DEF EarliestOf
  <2>2. Proofs!Earlier(x, e) = IF x <= e THEN x ELSE e
    BY <1>3, <2>1 DEF Proofs!Earlier
  <2>3. E \cup ({x} \ {0}) = E \cup {x}
    BY <1>3
  <2>4. CASE x <= e
    BY <2>1, <2>2, <2>3, <2>4 DEF EarliestOf
  <2>5. CASE ~(x <= e)
    BY <2>1, <2>2, <2>3, <2>5 DEF EarliestOf
  <2> QED
    BY <2>4, <2>5
<1> QED
  BY <1>1, <1>2, <1>3

(***************************************************************************)
(* With one proof to each token: the end that is computed is the earliest,  *)
(* and the chain lists the issuers of all a token rests on, its own last.    *)
(***************************************************************************)
LEMMA ChainsAreRight ==
  ASSUME Proofs!OneProof
  PROVE  \A t \in Ids :
           /\ EarliestOf(Proofs!ComputeEffectiveExpiration[t], Ending(Under(t)))
           /\ Len(Proofs!BuildProofChain[t]) = Cardinality(Under(t))
           /\ Proofs!Last(Proofs!BuildProofChain[t]) = Tokens[t].issuer
<1>1. PICK e \in [Ids -> Nat] :
        /\ e = Proofs!ComputeEffectiveExpiration
        /\ \A t \in Ids : e[t] = IF From(t) = << >> THEN Tokens[t].exp
                               ELSE Proofs!Earlier(Tokens[t].exp, e[From(t)[1]])
  BY EndFollows
<1>2. PICK c \in [Ids -> Seq(Issuers)] :
        /\ c = Proofs!BuildProofChain
        /\ \A t \in Ids : c[t] = Append(IF From(t) = << >> THEN << >> ELSE c[From(t)[1]],
                                     Tokens[t].issuer)
  BY ChainFollows
<1> DEFINE Right == {t \in Ids : /\ EarliestOf(e[t], Ending(Under(t)))
                               /\ Len(c[t]) = Cardinality(Under(t))}
<1>3. \A S : Ending(S) = {Tokens[p].exp : p \in S} \ {0}
  BY DEF Ending, Proofs!Ending
<1>4. ASSUME NEW t \in Ids, From(t) = << >>
      PROVE  t \in Right
  <2>1. Under(t) = {t} /\ e[t] = Tokens[t].exp /\ c[t] = Append(<< >>, Tokens[t].issuer)
    BY <1>1, <1>2, <1>4, UnderIsALine
  <2>2. Ending(Under(t)) = {e[t]} \ {0} /\ e[t] \in Nat
    BY <1>3, <2>1
  <2>3. EarliestOf(e[t], Ending(Under(t)))
    BY <2>2 DEF EarliestOf
  <2>4. Cardinality(Under(t)) = 1
    BY <2>1, FS_Singleton
  <2>5. Len(c[t]) = 1
    <3>1. \A x : Len(Append(<< >>, x)) = 1
      OBVIOUS
    <3> QED
      BY <2>1, <3>1
  <2> QED
    BY <2>3, <2>4, <2>5
<1>5. ASSUME NEW t \in Ids, From(t) # << >>, From(t)[1] \in Right
      PROVE  t \in Right
  <2> DEFINE q == From(t)[1]
             x == Tokens[t].exp
             E == Ending(Under(q))
  <2>1. /\ q \in Ids /\ IsFiniteSet(Under(q))
        /\ Under(t) = Under(q) \cup {t} /\ t \notin Under(q)
    BY <1>5, UnderIsALine
  <2>2. x \in Nat /\ E \in SUBSET Nat /\ 0 \notin E /\ e[q] \in Nat
    <3>1. Under(q) \subseteq Ids
      BY <2>1, UnderIsLeast
    <3>2. \A p \in Under(q) : Tokens[p].exp \in Nat
      BY <3>1, TokensAreOrdered
    <3>3. E \in SUBSET Nat /\ 0 \notin E
      BY <1>3, <3>2
    <3>4. x \in Nat /\ e[q] \in Nat
      BY <1>1, <2>1, TokensAreOrdered
    <3> QED
      BY <3>3, <3>4
  <2>3. e[t] = Proofs!Earlier(x, e[q]) /\ c[t] = Append(c[q], Tokens[t].issuer)
    BY <1>1, <1>2, <1>5
  <2>4. Ending(Under(t)) = E \cup ({x} \ {0})
    BY <1>3, <2>1
  <2>5. EarliestOf(e[q], E) /\ Len(c[q]) = Cardinality(Under(q))
    BY <1>5
  <2>6. EarliestOf(e[t], Ending(Under(t)))
    <3> HIDE DEF q, x, E
    <3> QED
      BY <2>2, <2>3, <2>4, <2>5, EarlierIsEarliest
  <2>7. Cardinality(Under(t)) = Cardinality(Under(q)) + 1
    <3> HIDE DEF q
    <3> QED
      BY <2>1, FS_AddElement
  <2>8. Len(c[t]) = Len(c[q]) + 1
    <3>1. c[q] \in Seq(Issuers)
      BY <2>1
    <3> HIDE DEF q
    <3> QED
      BY <2>3, <3>1
  <2> HIDE DEF q
  <2> QED
    BY <2>5, <2>6, <2>7, <2>8
<1>6. \A t \in Ids : t \in Right
  <2>1. ASSUME NEW t \in 1..Len(Tokens), \A i \in 1..(t - 1) : i \in Right
        PROVE  t \in Right
    BY <1>4, <1>5, <2>1, UnderIsALine, TokensAreOrdered
  <2> HIDE DEF Right
  <2> QED
    BY <2>1, TokensAreOrdered, Induction
<1>7. ASSUME NEW t \in Ids
      PROVE  Proofs!Last(c[t]) = Tokens[t].issuer
  <2>1. PICK s \in Seq(Issuers) : c[t] = Append(s, Tokens[t].issuer)
    <3>1. From(t) # << >> => From(t)[1] \in Ids
      BY UnderIsALine
    <3> DEFINE s == IF From(t) = << >> THEN << >> ELSE c[From(t)[1]]
    <3>2. s \in Seq(Issuers)
      BY <1>2, <3>1
    <3>3. c[t] = Append(s, Tokens[t].issuer)
      BY <1>2
    <3> QED
      BY <3>2, <3>3
  <2>2. Len(c[t]) = Len(s) + 1 /\ c[t][Len(s) + 1] = Tokens[t].issuer
    BY <2>1
  <2> QED
    BY <2>2 DEF Proofs!Last
<1> QED
  BY <1>1, <1>2, <1>6, <1>7

(* What verifyDelegationChain calls ok is sound throughout: the tokens it     *)
(* calls ok are closed under proofs.                                        *)
LEMMA OkIsSound ==
  ASSUME NEW Up, NEW t \in Ids, Proofs!VerifyDelegationChain(Up)[t] = "ok"
  PROVE  \A q \in Under(t) :
           /\ Tokens[q].key \in Proofs!ResolveDIDKey(Tokens[q].issuer, Up)
           /\ \A p \in Proofs!Range(From(q)) : Proofs!LinkedTo(q, p, Up)
<1>1. PICK v \in [Ids -> Verdicts] :
        /\ v = Proofs!VerifyDelegationChain(Up)
        /\ \A q \in Ids : v[q] = "ok" =>
             /\ Tokens[q].key \in Proofs!ResolveDIDKey(Tokens[q].issuer, Up)
             /\ \A i \in DOMAIN From(q) :
                  Proofs!LinkedTo(q, From(q)[i], Up) /\ v[From(q)[i]] = "ok"
  BY VerdictFollows
<1> DEFINE Ok == {q \in Ids : v[q] = "ok"}
<1>2. Ok \in SUBSET Ids /\ t \in Ok
  BY <1>1
<1>3. \A q \in Ok : \A i \in DOMAIN From(q) : From(q)[i] \in Ok
  BY <1>1, TokensAreOrdered
<1>4. Under(t) \subseteq Ok
  <2> HIDE DEF Ok
  <2> QED
    BY <1>2, <1>3, UnderIsLeast
<1> QED
  BY <1>1, <1>4 DEF Proofs!Range

------------------------------------------------------------------------------
(* The invariant.                                                           *)

Issued == DOMAIN ends
Made == DOMAIN minted

(* What the device and the oracle keep: entries name delegations and          *)
(* invocations that were made.                                              *)
Kept ==
  /\ now \in 1..MaxTime
  /\ ends \in Seq(Nat \ {0}) /\ held \in [Devices -> Issued \cup {0}]
  /\ known.id \in Issued \cup {0} /\ asked \in [Services -> Issued \cup {0}]
  /\ minted \in Seq([to : Services, proof : Nat, ends : Nat])
  /\ ready \in [Services -> Made \cup {0}]
  /\ \A s \in Services : ready[s] # 0 => minted[ready[s]].to = s
  /\ handed.id \in Made \cup {0}

(* Every invocation, and not only the one that is handed out, rests on a      *)
(* delegation that lasts as long.                                           *)
Rests ==
  \A i \in Made :
    /\ minted[i].proof \in Issued /\ minted[i].ends \in 1..(MaxTime + Hour)
    /\ minted[i].ends <= ends[minted[i].proof]

(* What was handed out last had not ended, or its delegation had.            *)
InTime ==
  handed.id # 0 =>
    LET i == minted[handed.id] IN handed.at <= i.ends \/ ends[i.proof] <= handed.at

(* The service.                                                             *)
Validation == [pc : {"key", "claim"}, token : Ids, resource : Asked]
Codes == {"nothing", "ok", "verified", "REPLAY", "EXPIRED", "UNAUTHORIZED",
          "INVALID_FORMAT", "INVALID_SIGNATURE"}

Served ==
  /\ instant \in 1..MaxTime
  /\ store \in [Ids -> 0..(MaxTime + Ttl)]
  /\ call \in [Validations -> Validation \cup {Proofs!Idle}]
  /\ accepted \in [Ids -> [at : Nat, early : BOOLEAN]]

Said ==
  /\ said.code \in Codes
  /\ said.code = "verified" =>
       said.token \in Ids /\ Proofs!VerifyDelegationChain(said.up)[said.token] = "ok"

(* A token is under validation once at a time, and has no mark then.         *)
Alone ==
  \A c \in Validations : call[c].pc # "idle" =>
    /\ store[call[c].token] = 0
    /\ \A d \in Validations : call[d].pc # "idle" /\ call[d].token = call[c].token => c = d

(* A mark stands for the last acceptance, and is gone only when its time is   *)
(* over.                                                                    *)
Marked ==
  \A t \in Ids :
    /\ ~accepted[t].early
    /\ store[t] # 0 => accepted[t].at # 0 /\ store[t] = accepted[t].at + Ttl
    /\ store[t] = 0 => accepted[t].at = 0 \/ instant > accepted[t].at + Ttl

Device == Kept /\ Rests /\ InTime
Service == Served /\ Said /\ (Serial => Alone /\ Marked)
Inv == Device /\ Service

LEMMA Numbers ==
  /\ Lives \subseteq Nat /\ RenewBefore \in Nat /\ Week \in Nat /\ Hour \in Nat /\ MaxMade \in Nat
  /\ MaxTime \in Nat \ {0} /\ Ttl \in Nat \ {0}
<1>1. Ucan!DelegationsAssumption /\ Proofs!ProofChainAssumption
  BY AuthorizationAssumption DEF AuthorizationAssumption
<1> QED
  BY <1>1 DEF Ucan!DelegationsAssumption, Proofs!ProofChainAssumption

------------------------------------------------------------------------------
(* The device and the oracle.                                               *)

LEMMA DeviceInit ==
  ASSUME Ucan!Init
  PROVE  Device
<1> USE DEF Ucan!Init, Ucan!None
<1>1. Kept
  BY Numbers DEF Kept, Issued, Made
<1>2. Made = {} /\ handed.id = 0
  BY DEF Made
<1> QED
  BY <1>1, <1>2 DEF Device, Rests, InTime

LEMMA DeviceTick ==
  ASSUME Device, Ucan!Tick
  PROVE  Device'
<1> USE DEF Ucan!Tick
<1>1. Kept'
  BY Numbers DEF Device, Kept, Issued, Made
<1>2. Rests' /\ InTime'
  BY DEF Device, Rests, InTime, Issued, Made
<1> QED
  BY <1>1, <1>2 DEF Device

(* A delegation that is made leaves those before it as they are.             *)
LEMMA GetDelegationKeeps ==
  ASSUME Device, NEW d \in Devices, Ucan!GetDelegation(d)
  PROVE  Device'
<1> USE DEF Ucan!GetDelegation
<1>1. PICK end \in {now + life : life \in Lives} \cup {Ucan!Forever} : ends' = Append(ends, end)
  OBVIOUS
<1>2. end \in Nat \ {0}
  BY Numbers DEF Ucan!Forever, Device, Kept
<1>3. ends \in Seq(Nat \ {0})
  BY DEF Device, Kept
<1>4. /\ ends' \in Seq(Nat \ {0}) /\ Issued \subseteq Issued' /\ Len(ends) + 1 \in Issued'
      /\ \A i \in Issued : ends'[i] = ends[i]
  BY <1>1, <1>2, <1>3 DEF Issued
<1>5. UNCHANGED <<now, known, asked, minted, ready, handed, Made>>
  BY DEF Made
<1>6. held' \in [Devices -> Issued' \cup {0}]
  BY <1>4 DEF Device, Kept
<1>7. Kept'
  BY <1>4, <1>5, <1>6 DEF Device, Kept
<1>8. Rests'
  BY <1>4, <1>5 DEF Device, Rests
<1>9. InTime'
  <2>1. handed.id # 0 => minted[handed.id].proof \in Issued
    BY DEF Device, Kept, Rests
  <2> QED
    BY <1>4, <1>5, <2>1 DEF Device, InTime
<1> QED
  BY <1>7, <1>8, <1>9 DEF Device

(* What is cached for the user, with its end or without, was issued.         *)
LEMMA CachingKeeps ==
  ASSUME Device, NEW id \in Issued, NEW told, Ucan!CacheDelegation(id, told),
         UNCHANGED <<now, ends, held, asked, minted, ready, handed>>
  PROVE  Device'
<1>1. known'.id \in Issued \cup {0}
  BY DEF Ucan!CacheDelegation, Device, Kept
<1>2. Kept'
  BY <1>1 DEF Device, Kept, Issued, Made
<1>3. Rests' /\ InTime'
  BY DEF Device, Rests, InTime, Issued, Made
<1> QED
  BY <1>2, <1>3 DEF Device

LEMMA UseKeeps ==
  ASSUME Device, NEW id, Ucan!Use(id)
  PROVE  Device'
<1>1. id \in Issued /\ Ucan!CacheDelegation(id, TRUE)
  BY DEF Ucan!Use, Ucan!Issued, Issued
<1>2. UNCHANGED <<now, ends, held, asked, minted, ready, handed>>
  BY DEF Ucan!Use
<1> QED
  BY <1>1, <1>2, CachingKeeps

LEMMA HandleConnectionKeeps ==
  ASSUME Device, NEW d \in Devices, Ucan!HandleConnection(d)
  PROVE  Device'
<1>1. held[d] \in Issued
  BY DEF Ucan!HandleConnection, Ucan!Lasts, Ucan!None, Device, Kept
<1>2. Ucan!CacheDelegation(held[d], FALSE)
  BY DEF Ucan!HandleConnection
<1>3. UNCHANGED <<now, ends, held, asked, minted, ready, handed>>
  BY DEF Ucan!HandleConnection
<1> QED
  BY <1>1, <1>2, <1>3, CachingKeeps

LEMMA GetCachedDelegationKeeps ==
  ASSUME Device, NEW s \in Services, Ucan!GetCachedDelegation(s)
  PROVE  Device'
<1> USE DEF Ucan!GetCachedDelegation
<1>1. asked' \in [Services -> Issued \cup {0}]
  BY DEF Device, Kept
<1>2. Kept'
  BY <1>1 DEF Device, Kept, Issued, Made
<1>3. Rests' /\ InTime'
  BY DEF Device, Rests, InTime, Issued, Made
<1> QED
  BY <1>2, <1>3 DEF Device

(* The lifetime of an invocation ends by that of its delegation; it is over   *)
(* at once only where the delegation's is.                                  *)
LEMMA LifetimeIsCovered ==
  ASSUME Device, NEW id \in Issued
  PROVE  /\ Ucan!Lifetime(id) \in 1..(MaxTime + Hour) /\ Ucan!Lifetime(id) <= ends[id]
         /\ now <= Ucan!Lifetime(id) \/ ends[id] <= now
<1>1. ends[id] \in Nat \ {0} /\ now \in 1..MaxTime
  BY DEF Device, Kept, Issued
<1> DEFINE e == ends[id]
           h == now + Hour
<1>2. Ucan!Min({h, e}) = IF h <= e THEN h ELSE e
  <2>1. h \in Nat /\ e \in Nat
    BY <1>1, Numbers
  <2> HIDE DEF h, e
  <2> QED
    BY <2>1 DEF Ucan!Min
<1>3. Ucan!Lifetime(id) = IF e < MaxTime + Week + Hour THEN Ucan!Min({h, e}) ELSE h
  BY Zenon DEF Ucan!Lifetime, Ucan!Forever
<1> QED
  BY <1>1, <1>2, <1>3, Numbers

LEMMA CreateServiceInvocationKeeps ==
  ASSUME Device, NEW s \in Services, Ucan!CreateServiceInvocation(s)
  PROVE  Device'
<1> USE DEF Ucan!CreateServiceInvocation
<1>1. UNCHANGED <<now, ends, held, known, Issued>>
  BY DEF Issued
<1>2. asked' \in [Services -> Issued \cup {0}]
  BY DEF Device, Kept, Ucan!None
<1>3. CASE Ucan!Usable(s)
  <2>1. /\ handed' = [id |-> ready[s], to |-> s, at |-> now]
        /\ UNCHANGED <<minted, ready, Made>>
    BY <1>3 DEF Made
  <2>2. ready[s] \in Made /\ minted[ready[s]].ends > now
    BY <1>3 DEF Ucan!Usable, Ucan!None, Device, Kept
  <2>3. Kept'
    BY <1>1, <1>2, <2>1, <2>2 DEF Device, Kept
  <2>4. Rests'
    BY <1>1, <2>1 DEF Device, Rests
  <2>5. InTime'
    <3>1. now \in Nat /\ minted[ready[s]].ends \in Nat
      BY <2>2 DEF Device, Kept, Rests
    <3> QED
      BY <2>1, <2>2, <3>1 DEF InTime
  <2> QED
    BY <2>3, <2>4, <2>5 DEF Device
<1>4. CASE ~Ucan!Usable(s)
  <2> DEFINE id == asked[s]
             new == [to |-> s, proof |-> id, ends |-> Ucan!Lifetime(id)]
             n == Len(minted) + 1
  <2>1. id \in Issued
    BY DEF Device, Kept, Ucan!None
  <2>2. /\ Ucan!Lifetime(id) \in 1..(MaxTime + Hour) /\ Ucan!Lifetime(id) <= ends[id]
        /\ now <= Ucan!Lifetime(id) \/ ends[id] <= now
    BY <2>1, LifetimeIsCovered
  <2>3. minted' = Append(minted, new) /\ handed' = [id |-> n, to |-> s, at |-> now]
    BY <1>4
  <2>4. ready' = [ready EXCEPT ![s] = n] \/ ready' = ready
    BY <1>4 DEF Ucan!Cached
  <2>5. id \in Nat /\ Ucan!Lifetime(id) \in Nat
    BY <2>1, <2>2, Numbers DEF Device, Kept, Issued
  <2>6. new \in [to : Services, proof : Nat, ends : Nat]
    BY <2>5
  <2> HIDE DEF new
  <2>7. minted \in Seq([to : Services, proof : Nat, ends : Nat])
    BY DEF Device, Kept
  <2>8. /\ minted' \in Seq([to : Services, proof : Nat, ends : Nat])
        /\ Made' = Made \cup {n} /\ n # 0 /\ n \notin Made
        /\ minted'[n] = new /\ \A i \in Made : minted'[i] = minted[i]
    <3> DEFINE R == [to : Services, proof : Nat, ends : Nat]
    <3> HIDE DEF R
    <3>1. minted' \in Seq(R) /\ Len(minted') = n /\ n \in Nat /\ minted \in Seq(R)
      BY <2>3, <2>6, <2>7 DEF R
    <3>2. Made' = 1..n /\ Made = 1..(n - 1)
      BY <3>1 DEF Made
    <3>3. minted'[n] = new /\ \A i \in Made : minted'[i] = minted[i]
      BY <2>3, <3>1, <3>2
    <3>4. Made' = Made \cup {n} /\ n # 0 /\ n \notin Made
      BY <3>1, <3>2
    <3> QED
      BY <3>1, <3>3, <3>4 DEF R
  <2> HIDE DEF n
  <2>9. /\ ready' \in [Services -> Made' \cup {0}]
        /\ \A t \in Services : ready'[t] # 0 => minted'[ready'[t]].to = t
    <3>1. new.to = s
      BY DEF new
    <3>2. CASE ready' = ready
      BY <2>8, <3>2 DEF Device, Kept
    <3>3. CASE ready' = [ready EXCEPT ![s] = n]
      <4>1. ready' \in [Services -> Made' \cup {0}]
        BY <2>8, <3>3 DEF Device, Kept
      <4>2. ready'[s] = n /\ \A t \in Services \ {s} : ready'[t] = ready[t]
        BY <3>3 DEF Device, Kept
      <4>3. \A t \in Services \ {s} : ready[t] # 0 => ready[t] \in Made /\ minted[ready[t]].to = t
        BY DEF Device, Kept
      <4>4. ASSUME NEW t \in Services \ {s}, ready'[t] # 0
            PROVE  minted'[ready'[t]].to = t
        <5>1. ready'[t] = ready[t] /\ ready[t] \in Made /\ minted[ready[t]].to = t
          BY <4>2, <4>3, <4>4
        <5>2. minted'[ready[t]] = minted[ready[t]]
          BY <2>8, <5>1
        <5> QED
          BY <5>1, <5>2
      <4>5. minted'[ready'[s]].to = s
        BY <2>8, <3>1, <4>2
      <4>6. \A t \in Services : ready'[t] # 0 => minted'[ready'[t]].to = t
        BY <4>4, <4>5
      <4> QED
        BY <4>1, <4>6
    <3> QED
      BY <2>4, <3>2, <3>3
  <2>10. handed'.id = n /\ handed'.at = now /\ n \in Made'
    BY <2>3, <2>8
  <2>11. Kept'
    BY <1>1, <1>2, <2>8, <2>9, <2>10 DEF Device, Kept
  <2>12. new.proof = id /\ new.ends = Ucan!Lifetime(id)
    BY DEF new
  <2>13. Rests'
    BY <1>1, <2>1, <2>2, <2>8, <2>12 DEF Device, Rests
  <2>14. InTime'
    BY <1>1, <2>2, <2>8, <2>10, <2>12 DEF InTime
  <2> QED
    BY <2>11, <2>13, <2>14 DEF Device
<1> QED
  BY <1>3, <1>4

LEMMA DeviceStep ==
  ASSUME Device, [Ucan!Next]_ucan
  PROVE  Device'
<1>1. CASE Ucan!Tick
  BY <1>1, DeviceTick
<1>2. ASSUME NEW d \in Devices, Ucan!GetDelegation(d)
      PROVE  Device'
  BY <1>2, GetDelegationKeeps
<1>3. ASSUME NEW d \in Devices, Ucan!HandleConnection(d)
      PROVE  Device'
  BY <1>3, HandleConnectionKeeps
<1>4. ASSUME NEW id \in 1..MaxMade, Ucan!Use(id)
      PROVE  Device'
  BY <1>4, UseKeeps
<1>5. ASSUME NEW s \in Services, Ucan!GetCachedDelegation(s)
      PROVE  Device'
  BY <1>5, GetCachedDelegationKeeps
<1>6. ASSUME NEW s \in Services, Ucan!CreateServiceInvocation(s)
      PROVE  Device'
  BY <1>6, CreateServiceInvocationKeeps
<1>7. CASE UNCHANGED ucan
  BY <1>7 DEF ucan, Device, Kept, Rests, InTime, Issued, Made
<1> QED
  BY <1>1, <1>2, <1>3, <1>4, <1>5, <1>6, <1>7 DEF Ucan!Next

------------------------------------------------------------------------------
(* The service.                                                             *)

LEMMA ServiceInit ==
  ASSUME Proofs!Init
  PROVE  Service
<1> USE DEF Proofs!Init
<1>1. Served
  BY Numbers DEF Served, Ids
<1>2. Said
  BY DEF Said, Codes, Proofs!Silent
<1>3. Alone
  BY DEF Alone, Proofs!Idle
<1>4. Marked
  BY DEF Marked, Ids
<1> QED
  BY <1>1, <1>2, <1>3, <1>4 DEF Service

(* A validation that goes on, or one that ends.                             *)
LEMMA IdleIsNone ==
  ASSUME Served, NEW c \in Validations
  PROVE  /\ call[c].pc = "idle" <=> call[c] = Proofs!Idle
         /\ call[c].pc # "idle" =>
              call[c] \in Validation /\ call[c].token \in Ids /\ call[c].resource \in Asked
<1>1. \A v \in Validation : v.pc # "idle" /\ v.token \in Ids /\ v.resource \in Asked
  BY DEF Validation
<1>2. Proofs!Idle.pc = "idle"
  BY DEF Proofs!Idle
<1>3. call[c] \in Validation \/ call[c] = Proofs!Idle
  BY DEF Served
<1> QED
  BY <1>1, <1>2, <1>3

(* What is said but "verified" is right as long as it is one of the codes.    *)
LEMMA SaysNoMore ==
  ASSUME said'.code \in Codes, said'.code # "verified"
  PROVE  Said'
BY DEF Said

(* Validations that are no more than there were stay alone.                  *)
LEMMA AloneStays ==
  ASSUME Alone,
         \A d \in Validations : call'[d].pc # "idle" =>
           /\ call[d].pc # "idle" /\ call'[d].token = call[d].token
           /\ store[call[d].token] = 0 => store'[call[d].token] = 0
  PROVE  Alone'
BY DEF Alone

LEMMA ServiceTick ==
  ASSUME Service, Proofs!Tick
  PROVE  Service'
<1> USE DEF Proofs!Tick
<1>1. Served'
  BY Numbers DEF Service, Served
<1>2. Said'
  BY SaysNoMore DEF Codes, Proofs!Silent
<1>3. ASSUME Serial
      PROVE  Alone' /\ Marked'
  <2>1. Alone'
    BY <1>3 DEF Service, Alone
  <2>2. instant' > instant /\ instant \in Nat /\ instant' \in Nat /\ Ttl \in Nat
        /\ \A t \in Ids : accepted[t].at \in Nat
    BY Numbers DEF Service, Served
  <2>3. Marked'
    BY <1>3, <2>2 DEF Service, Marked
  <2> QED
    BY <2>1, <2>3
<1> QED
  BY <1>1, <1>2, <1>3 DEF Service

LEMMA CleanupKeeps ==
  ASSUME Service, Proofs!Cleanup
  PROVE  Service'
<1> USE DEF Proofs!Cleanup
<1>1. \A t \in Ids : store'[t] = IF instant > store[t] THEN 0 ELSE store[t]
  BY DEF Ids
<1>2. Served'
  <2>1. store' \in [Ids -> 0..(MaxTime + Ttl)]
    BY Numbers DEF Service, Served, Ids
  <2> QED
    BY <2>1 DEF Service, Served
<1>3. Said'
  BY SaysNoMore DEF Codes, Proofs!Silent
<1>4. ASSUME Serial
      PROVE  Alone' /\ Marked'
  <2>1. \A d \in Validations : call[d].pc # "idle" => call[d].token \in Ids
    BY IdleIsNone DEF Service
  <2>2. Alone'
    <3>1. \A d \in Validations : call'[d].pc # "idle" =>
            /\ call[d].pc # "idle" /\ call'[d].token = call[d].token
            /\ store[call[d].token] = 0 => store'[call[d].token] = 0
      BY <1>1, <2>1
    <3> QED
      BY <1>4, <3>1, AloneStays DEF Service
  <2>3. ASSUME NEW t \in Ids
        PROVE  /\ ~accepted'[t].early
               /\ store'[t] # 0 => accepted'[t].at # 0 /\ store'[t] = accepted'[t].at + Ttl
               /\ store'[t] = 0 => accepted'[t].at = 0 \/ instant' > accepted'[t].at + Ttl
    <3>1. /\ ~accepted[t].early
          /\ store[t] # 0 => accepted[t].at # 0 /\ store[t] = accepted[t].at + Ttl
          /\ store[t] = 0 => accepted[t].at = 0 \/ instant > accepted[t].at + Ttl
      BY <1>4 DEF Service, Marked
    <3>2. accepted' = accepted /\ instant' = instant
      OBVIOUS
    <3>3. CASE store'[t] = store[t]
      BY <3>1, <3>2, <3>3
    <3>4. CASE store[t] # 0 /\ store'[t] = 0 /\ instant > store[t]
      BY <3>1, <3>2, <3>4
    <3> QED
      BY <1>1, <3>3, <3>4
  <2>4. Marked'
    BY <2>3 DEF Marked
  <2> QED
    BY <2>2, <2>4
<1> QED
  BY <1>2, <1>3, <1>4 DEF Service

(* A validation that goes to its next step, or ends.                         *)
LEMMA Advances ==
  ASSUME Served, NEW c \in Validations, call[c].pc # "idle",
         \/ \E pc \in {"key", "claim"} : call' = [call EXCEPT ![c].pc = pc]
         \/ call' = [call EXCEPT ![c] = Proofs!Idle]
  PROVE  /\ call' \in [Validations -> Validation \cup {Proofs!Idle}]
         /\ \A d \in Validations : call'[d].pc # "idle" =>
              call[d].pc # "idle" /\ call'[d].token = call[d].token
<1>1. call[c] \in Validation
  BY IdleIsNone
<1>2. call \in [Validations -> Validation \cup {Proofs!Idle}]
  BY DEF Served
<1>3. ASSUME NEW pc \in {"key", "claim"}, call' = [call EXCEPT ![c].pc = pc]
      PROVE  /\ call' \in [Validations -> Validation \cup {Proofs!Idle}]
             /\ \A d \in Validations : call'[d].pc # "idle" =>
                  call[d].pc # "idle" /\ call'[d].token = call[d].token
  <2> DEFINE next == [call[c] EXCEPT !.pc = pc]
  <2>1. next \in Validation /\ next.token = call[c].token
    BY <1>1 DEF Validation
  <2>2. call' = [call EXCEPT ![c] = next]
    BY <1>3
  <2> HIDE DEF next
  <2>3. call'[c] = next /\ \A d \in Validations \ {c} : call'[d] = call[d]
    BY <1>2, <2>2
  <2>4. call' \in [Validations -> Validation \cup {Proofs!Idle}]
    BY <1>2, <2>1, <2>2
  <2> QED
    BY <2>1, <2>3, <2>4
<1>4. ASSUME call' = [call EXCEPT ![c] = Proofs!Idle]
      PROVE  /\ call' \in [Validations -> Validation \cup {Proofs!Idle}]
             /\ \A d \in Validations : call'[d].pc # "idle" =>
                  call[d].pc # "idle" /\ call'[d].token = call[d].token
  <2>1. call'[c] = Proofs!Idle /\ \A d \in Validations \ {c} : call'[d] = call[d]
    BY <1>2, <1>4
  <2>2. call' \in [Validations -> Validation \cup {Proofs!Idle}]
    BY <1>2, <1>4
  <2>3. Proofs!Idle.pc = "idle"
    BY DEF Proofs!Idle
  <2> QED
    BY <2>1, <2>2, <2>3
<1> QED
  BY <1>3, <1>4

LEMMA GetServerVerifierKeeps ==
  ASSUME Service, NEW c \in Validations, Proofs!GetServerVerifier(c)
  PROVE  Service'
<1>1. call[c].pc = "key" /\ UNCHANGED <<instant, store, accepted>>
  BY DEF Proofs!GetServerVerifier
<1>2. \/ call' = [call EXCEPT ![c].pc = "claim"] /\ said' = Proofs!Silent
      \/ /\ call' = [call EXCEPT ![c] = Proofs!Idle]
         /\ said' = [code |-> "INVALID_FORMAT", token |-> call[c].token]
  BY Zenon DEF Proofs!GetServerVerifier, Proofs!Goto, Proofs!End, Proofs!Say
<1>3. /\ call' \in [Validations -> Validation \cup {Proofs!Idle}]
      /\ \A d \in Validations : call'[d].pc # "idle" =>
           call[d].pc # "idle" /\ call'[d].token = call[d].token
  <2>1. \/ \E pc \in {"key", "claim"} : call' = [call EXCEPT ![c].pc = pc]
        \/ call' = [call EXCEPT ![c] = Proofs!Idle]
    BY <1>2, Zenon
  <2> QED
    BY <1>1, <2>1, Advances, Zenon DEF Service
<1>4. Served'
  BY <1>1, <1>3 DEF Service, Served
<1>5. Said'
  BY <1>2, SaysNoMore DEF Codes, Proofs!Silent
<1>6. ASSUME Serial
      PROVE  Alone' /\ Marked'
  <2>1. Alone'
    BY <1>1, <1>3, <1>6, AloneStays DEF Service
  <2>2. Marked'
    BY <1>1, <1>6 DEF Service, Marked
  <2> QED
    BY <2>1, <2>2
<1> QED
  BY <1>4, <1>5, <1>6 DEF Service

(* The mark is set for a token that had none, so not while an earlier one     *)
(* stands, and by the only validation of it.                                *)
LEMMA ClaimAndMarkKeeps ==
  ASSUME Service, NEW c \in Validations, Proofs!ClaimAndMark(c)
  PROVE  Service'
<1> DEFINE t == call[c].token
           Mark == [at |-> instant, early |-> accepted[t].early \/
                      (accepted[t].at # 0 /\ instant <= accepted[t].at + Ttl)]
<1>1. call[c].pc = "claim" /\ UNCHANGED instant
  BY DEF Proofs!ClaimAndMark
<1>2. \/ /\ store' = [store EXCEPT ![t] = instant + Ttl]
         /\ accepted' = [accepted EXCEPT ![t] = Mark]
         /\ said' = [code |-> "ok", token |-> t]
      \/ /\ UNCHANGED <<store, accepted>>
         /\ said' = [code |-> "UNAUTHORIZED", token |-> t]
  BY DEF Proofs!ClaimAndMark, Proofs!End, Proofs!Say
<1>3. call' = [call EXCEPT ![c] = Proofs!Idle]
  BY Zenon DEF Proofs!ClaimAndMark, Proofs!End
<1>4. /\ call' \in [Validations -> Validation \cup {Proofs!Idle}]
      /\ \A d \in Validations : call'[d].pc # "idle" =>
           call[d].pc # "idle" /\ call'[d].token = call[d].token
  BY <1>1, <1>3, Advances DEF Service
<1>5. t \in Ids /\ instant \in 1..MaxTime /\ store \in [Ids -> 0..(MaxTime + Ttl)]
      /\ accepted \in [Ids -> [at : Nat, early : BOOLEAN]] /\ Ttl \in Nat \ {0}
  BY <1>1, IdleIsNone, Numbers DEF Service, Served
<1>6. Served'
  <2>1. store' \in [Ids -> 0..(MaxTime + Ttl)]
    BY <1>2, <1>5, Numbers
  <2>2. accepted' \in [Ids -> [at : Nat, early : BOOLEAN]]
    <3>1. Mark \in [at : Nat, early : BOOLEAN]
      BY <1>5
    <3> HIDE DEF Mark
    <3> QED
      BY <1>2, <1>5, <3>1
  <2> QED
    BY <1>1, <1>4, <1>5, <2>1, <2>2 DEF Served
<1>7. Said'
  BY <1>2, SaysNoMore DEF Codes
<1>8. ASSUME Serial
      PROVE  Alone' /\ Marked'
  <2>1. store[t] = 0 /\ \A d \in Validations : call[d].pc # "idle" /\ call[d].token = t => c = d
    BY <1>1, <1>8 DEF Service, Alone
  <2>2. call'[c].pc = "idle"
    BY <1>3 DEF Service, Served, Proofs!Idle
  <2>3. \A d \in Validations : call'[d].pc # "idle" =>
          /\ call[d].pc # "idle" /\ call'[d].token = call[d].token
          /\ call[d].token # t /\ call[d].token \in Ids
    BY <1>4, <2>1, <2>2, IdleIsNone DEF Service
  <2>4. \A u \in Ids \ {t} : store'[u] = store[u] /\ accepted'[u] = accepted[u]
    BY <1>2, <1>5
  <2>5. Alone'
    BY <1>8, <2>3, <2>4, AloneStays DEF Service
  <2>6. ~accepted[t].early /\ (accepted[t].at = 0 \/ instant > accepted[t].at + Ttl)
    BY <1>5, <1>8, <2>1 DEF Service, Marked
  <2>7. CASE /\ store' = [store EXCEPT ![t] = instant + Ttl]
             /\ accepted' = [accepted EXCEPT ![t] = Mark]
    <3>1. Mark.at = instant /\ ~Mark.early
      BY <1>5, <2>6
    <3> HIDE DEF Mark
    <3>2. store'[t] = instant + Ttl /\ accepted'[t] = Mark
      BY <1>5, <2>7
    <3>3. store'[t] # 0 /\ accepted'[t].at # 0 /\ store'[t] = accepted'[t].at + Ttl
      BY <1>5, <3>1, <3>2
    <3>4. ~accepted'[t].early
      BY <3>1, <3>2
    <3> HIDE DEF t
    <3>5. ASSUME NEW u \in Ids \ {t}
          PROVE  /\ ~accepted'[u].early
                 /\ store'[u] # 0 => accepted'[u].at # 0 /\ store'[u] = accepted'[u].at + Ttl
                 /\ store'[u] = 0 => accepted'[u].at = 0 \/ instant' > accepted'[u].at + Ttl
      BY <1>1, <1>8, <2>4 DEF Service, Marked
    <3>6. Marked'
      BY <3>3, <3>4, <3>5 DEF Marked
    <3> QED
      BY <2>5, <3>6
  <2>8. CASE UNCHANGED <<store, accepted>>
    BY <1>1, <1>8, <2>5, <2>8 DEF Service, Marked
  <2> QED
    BY <1>2, <2>7, <2>8
<1> QED
  BY <1>6, <1>7, <1>8 DEF Service

(* A validation begins where no mark stands, and forgets one that is over.    *)
LEMMA ValidateKeeps ==
  ASSUME Service, NEW c \in Validations, NEW t \in Ids, NEW res \in Asked,
         Proofs!Validate(c, t, res)
  PROVE  Service'
<1> DEFINE new == [pc |-> "key", token |-> t, resource |-> res]
<1>1. /\ call[c] = Proofs!Idle /\ UNCHANGED <<instant, accepted>>
      /\ Serial => \A d \in Validations : call[d] # Proofs!Idle => call[d].token # t
  BY DEF Proofs!Validate, Proofs!Busy
<1>2. \/ /\ UNCHANGED <<store, call>>
         /\ \E code \in {"UNAUTHORIZED", "REPLAY"} : said' = [code |-> code, token |-> t]
      \/ /\ ~Proofs!Has(t) /\ store' = [store EXCEPT ![t] = 0]
         /\ said' = Proofs!Silent /\ call' = [call EXCEPT ![c] = new]
  BY Zenon DEF Proofs!Validate, Proofs!Say
<1>3. Said'
  BY <1>2, SaysNoMore DEF Codes, Proofs!Silent
<1>4. CASE UNCHANGED <<store, call>>
  BY <1>1, <1>3, <1>4 DEF Service, Served, Alone, Marked
<1>5. CASE /\ ~Proofs!Has(t) /\ store' = [store EXCEPT ![t] = 0]
           /\ call' = [call EXCEPT ![c] = new]
  <2>1. new \in Validation /\ new.token = t /\ new.pc # "idle"
    BY DEF Validation
  <2> HIDE DEF new
  <2>2. /\ call' \in [Validations -> Validation \cup {Proofs!Idle}]
        /\ call'[c] = new /\ \A d \in Validations \ {c} : call'[d] = call[d]
    BY <1>5, <2>1 DEF Service, Served
  <2>3. /\ store' \in [Ids -> 0..(MaxTime + Ttl)]
        /\ store'[t] = 0 /\ \A u \in Ids \ {t} : store'[u] = store[u]
    BY <1>5, Numbers DEF Service, Served
  <2>4. Served'
    BY <1>1, <2>2, <2>3 DEF Service, Served
  <2>5. ASSUME Serial
        PROVE  Alone' /\ Marked'
    <3>1. \A d \in Validations \ {c} : call'[d].pc # "idle" =>
            /\ call'[d] = call[d] /\ call[d].pc # "idle"
            /\ call[d].token \in Ids \ {t} /\ store[call[d].token] = 0
      BY <1>1, <2>2, <2>5, IdleIsNone DEF Service, Alone
    <3>2. ASSUME NEW a \in Validations, call'[a].pc # "idle"
          PROVE  /\ store'[call'[a].token] = 0
                 /\ \A d \in Validations :
                      call'[d].pc # "idle" /\ call'[d].token = call'[a].token => a = d
      <4>1. CASE a = c
        BY <2>1, <2>2, <2>3, <3>1, <4>1
      <4>2. CASE a # c
        <5>1. \A d \in Validations : call[d].pc # "idle" /\ call[d].token = call[a].token => a = d
          BY <2>5, <3>1, <3>2, <4>2 DEF Service, Alone
        <5> QED
          BY <2>1, <2>2, <2>3, <3>1, <3>2, <4>2, <5>1
      <4> QED
        BY <4>1, <4>2
    <3>3. Alone'
      BY <3>2 DEF Alone
    <3>4. /\ ~accepted[t].early
          /\ accepted[t].at = 0 \/ instant > accepted[t].at + Ttl
      <4>1. /\ ~accepted[t].early
            /\ store[t] # 0 => accepted[t].at # 0 /\ store[t] = accepted[t].at + Ttl
            /\ store[t] = 0 => accepted[t].at = 0 \/ instant > accepted[t].at + Ttl
        BY <2>5 DEF Service, Marked
      <4>2. store[t] = 0 \/ instant > store[t]
        BY <1>5, Numbers DEF Proofs!Has, Service, Served
      <4> QED
        BY <4>1, <4>2
    <3>5. Marked'
      BY <1>1, <2>3, <2>5, <3>4 DEF Service, Marked
    <3> QED
      BY <3>3, <3>5
  <2> QED
    BY <1>3, <2>4, <2>5 DEF Service
<1> QED
  BY <1>2, <1>4, <1>5

LEMMA ValidateDelegationKeeps ==
  ASSUME Service, NEW t \in Ids, Proofs!ValidateDelegation(t)
  PROVE  Service'
<1>1. UNCHANGED <<instant, store, call, accepted>>
  BY DEF Proofs!ValidateDelegation
<1>2. PICK Up \in SUBSET Proofs!Remote :
        LET verdict == Proofs!VerifyDelegationChain(Up)[t] IN
        said' = [code |-> IF Tokens[t].audience # Server THEN "UNAUTHORIZED"
                          ELSE IF Proofs!Ended(t) THEN "EXPIRED"
                          ELSE IF verdict = "ok" THEN "verified" ELSE verdict,
                 token |-> t, up |-> Up]
  BY Zenon DEF Proofs!ValidateDelegation
<1>3. Proofs!VerifyDelegationChain(Up)[t] \in Verdicts
  BY VerdictFollows
<1>4. /\ said'.token = t /\ said'.up = Up /\ said'.code \in Codes
      /\ said'.code = "verified" => Proofs!VerifyDelegationChain(Up)[t] = "ok"
  BY <1>2, <1>3 DEF Verdicts, Codes
<1>5. Said'
  BY <1>4 DEF Said
<1>6. Served' /\ (Serial => Alone' /\ Marked')
  BY <1>1 DEF Service, Served, Alone, Marked
<1> QED
  BY <1>5, <1>6 DEF Service

LEMMA ServiceStep ==
  ASSUME Service, [Proofs!Next]_proofs
  PROVE  Service'
<1>1. CASE Proofs!Tick
  BY <1>1, ServiceTick
<1>2. CASE Proofs!Cleanup
  BY <1>2, CleanupKeeps
<1>3. ASSUME NEW c \in Validations, Proofs!GetServerVerifier(c)
      PROVE  Service'
  BY <1>3, GetServerVerifierKeeps
<1>4. ASSUME NEW c \in Validations, Proofs!ClaimAndMark(c)
      PROVE  Service'
  BY <1>4, ClaimAndMarkKeeps
<1>5. ASSUME NEW c \in Validations, NEW t \in Ids, NEW r \in Asked, Proofs!Validate(c, t, r)
      PROVE  Service'
  BY <1>5, ValidateKeeps
<1>6. ASSUME NEW t \in Ids, Proofs!ValidateDelegation(t)
      PROVE  Service'
  BY <1>6, ValidateDelegationKeeps
<1>7. CASE UNCHANGED proofs
  BY <1>7 DEF proofs, Service, Served, Said, Alone, Marked
<1> QED
  BY <1>1, <1>2, <1>3, <1>4, <1>5, <1>6, <1>7 DEF Proofs!Next, Ids

------------------------------------------------------------------------------
(* Both, and what follows.                                                  *)

LEMMA InvStep ==
  ASSUME Inv, [AuthNext]_<<ucan, proofs>>
  PROVE  Inv'
<1>1. [Ucan!Next]_ucan /\ [Proofs!Next]_proofs
  BY DEF AuthNext
<1> QED
  BY <1>1, DeviceStep, ServiceStep DEF Inv

LEMMA Invariance == AuthSpec => []Inv
<1>1. AuthInit => Inv
  BY DeviceInit, ServiceInit DEF AuthInit, Inv
<1> QED
  BY <1>1, InvStep, PTL DEF AuthSpec

(* The parts of InForce that do not depend on how validations overlap.        *)
Checked ==
  /\ Ucan!TypeOK /\ Ucan!InForce
  /\ Proofs!TypeOK /\ Proofs!ChainIsSound /\ Proofs!EndIsEarliest

LEMMA InvChecks == Inv => Checked
<1> SUFFICES ASSUME Inv PROVE Checked
  OBVIOUS
<1>1. Ucan!TypeOK
  <2>1. now \in 1..MaxTime /\ known.id \in Ucan!Issued \cup {0}
    BY DEF Inv, Device, Kept, Issued, Ucan!Issued
  <2>2. /\ Ucan!Range(held) \subseteq Ucan!Issued \cup {0}
        /\ Ucan!Range(asked) \subseteq Ucan!Issued \cup {0}
    BY DEF Inv, Device, Kept, Issued, Ucan!Issued, Ucan!Range
  <2>3. \A i \in Ucan!Made :
          /\ minted[i].to \in Services /\ minted[i].proof \in Ucan!Issued
          /\ minted[i].ends \in 1..(MaxTime + Hour)
    <3> DEFINE R == [to : Services, proof : Nat, ends : Nat]
    <3>1. \A r \in R : r.to \in Services
      OBVIOUS
    <3>2. minted \in Seq(R)
      BY DEF Inv, Device, Kept
    <3> HIDE DEF R
    <3>3. \A i \in DOMAIN minted : minted[i].to \in Services
      BY <3>1, <3>2
    <3> QED
      BY <3>3 DEF Inv, Device, Rests, Issued, Made, Ucan!Issued, Ucan!Made
  <2>4. \A s \in Services : ready[s] # 0 => ready[s] \in Ucan!Made /\ minted[ready[s]].to = s
    BY DEF Inv, Device, Kept, Made, Ucan!Made
  <2> QED
    BY <2>1, <2>2, <2>3, <2>4 DEF Ucan!TypeOK, Ucan!None
<1>2. Ucan!InForce
  <2>1. handed.id # 0 => handed.id \in Made
    BY DEF Inv, Device, Kept
  <2> QED
    BY <2>1 DEF Inv, Device, Rests, InTime, Ucan!InForce, Ucan!None
<1>3. Proofs!TypeOK
  <2>1. instant \in 1..MaxTime /\ \A t \in Proofs!Ids : store[t] \in 0..(MaxTime + Ttl)
    BY DEF Inv, Service, Served, Ids
  <2>2. \A c \in Validations : call[c].pc \in {"idle", "key", "claim"}
    BY DEF Inv, Service, Served, Validation, Proofs!Idle
  <2>3. said.code \in Codes
    BY DEF Inv, Service, Said
  <2> QED
    BY <2>1, <2>2, <2>3 DEF Proofs!TypeOK, Codes
<1>4. said.code = "verified" =>
        said.token \in Ids /\ Proofs!VerifyDelegationChain(said.up)[said.token] = "ok"
  BY DEF Inv, Service, Said
<1>5. Proofs!ChainIsSound
  BY <1>4, OkIsSound DEF Proofs!ChainIsSound, Under, From
<1>6. Proofs!EndIsEarliest
  <2> SUFFICES ASSUME Proofs!OneProof, said.code = "verified"
               PROVE  LET t == said.token  e == Proofs!ComputeEffectiveExpiration[t] IN
                      /\ EarliestOf(e, Ending(Under(t)))
                      /\ Len(Proofs!BuildProofChain[t]) = Cardinality(Under(t))
                      /\ Proofs!Last(Proofs!BuildProofChain[t]) = Tokens[t].issuer
    <3>1. \A S : Proofs!Cardinality(S) = Cardinality(S)
      BY Zenon DEF Proofs!Cardinality, Cardinality
    <3> QED
      BY <3>1, Zenon DEF Proofs!EndIsEarliest, Under, Ending, EarliestOf
  <2> QED
    BY <1>4, ChainsAreRight
<1> QED
  BY <1>1, <1>2, <1>3, <1>5, <1>6 DEF Checked

(***************************************************************************)
(* However the caches of device and oracle age and whatever overlaps at the  *)
(* service, what services are called with is in force with its delegation,   *)
(* and a chain is called verified only when each token in it is signed by     *)
(* its issuer and made out to whom uses it (ucan.service.ts, validator.ts).  *)
(***************************************************************************)
THEOREM ChainsAreChecked == AuthSpec => []Checked
  BY Invariance, InvChecks, PTL

(***************************************************************************)
(* When no two validations of one token overlap, an invocation is accepted   *)
(* once in the life of its mark too: everything the run checks.               *)
(***************************************************************************)
THEOREM StaysInForce ==
  ASSUME Serial
  PROVE  AuthSpec => []InForce
<1>1. Inv => InForce
  <2> SUFFICES ASSUME Inv PROVE InForce
    OBVIOUS
  <2>1. Checked
    BY InvChecks
  <2>2. Proofs!AcceptedOnce
    BY DEF Inv, Service, Marked, Proofs!AcceptedOnce, Ids
  <2> QED
    BY <2>1, <2>2 DEF Checked, InForce
<1> QED
  BY <1>1, Invariance, PTL

-----------------------------------------------------------------------------
(* Attachments: counting over the files of a message.                       *)

LEMMA Upwards ==
  ASSUME NEW n \in Nat, NEW S, 0 \in S, \A k \in 1..n : k - 1 \in S => k \in S
  PROVE  \A k \in 0..n : k \in S
<1> DEFINE Other == {k \in 0..n : k \notin S}
<1>1. SUFFICES ASSUME Other # {} PROVE FALSE
  OBVIOUS
<1>2. Other \in SUBSET Nat
  OBVIOUS
<1>3. PICK k \in Other : \A m \in Other : k <= m
  <2> HIDE DEF Other
  <2> QED
    BY <1>1, <1>2, Least
<1>4. k \in 1..n /\ k - 1 \in 0..n /\ k - 1 \notin Other
  BY <1>3
<1> QED
  BY <1>3, <1>4

(* The sums up to each file.                                                *)
Sums(n, f, s) == s \in [0..n -> Nat] /\ s[0] = 0 /\ \A k \in 1..n : s[k] = s[k - 1] + f[k]

LEMMA SumsExist ==
  ASSUME NEW n \in Nat, NEW f \in [1..n -> Nat]
  PROVE  \E s : Sums(n, f, s)
<1>0. \A a, b \in Nat : a + b \in Nat
  OBVIOUS
<1> DEFINE step == [x \in (1..n) \X [1..n -> Nat] |->
                      IF x[1] = 1 THEN f[1] ELSE x[2][x[1] - 1] + f[x[1]]]
<1>1. \A j \in 1..n : \A g \in [1..n -> Nat] :
        step[<<j, g>>] = IF j = 1 THEN f[1] ELSE g[j - 1] + f[j]
  OBVIOUS
<1>2. \A j \in 1..n : j # 1 => j - 1 \in 1..n /\ j - 1 \in 1..(j - 1)
  OBVIOUS
<1>3. LooksBelow(n, Nat, step)
  <2>1. step \in [(1..n) \X [1..n -> Nat] -> Nat]
    <3>1. \A x \in (1..n) \X [1..n -> Nat] :
            (IF x[1] = 1 THEN f[1] ELSE x[2][x[1] - 1] + f[x[1]]) \in Nat
      <4> TAKE x \in (1..n) \X [1..n -> Nat]
      <4>1. x[1] \in 1..n /\ x[2] \in [1..n -> Nat]
        OBVIOUS
      <4> DEFINE j == x[1]
                 g == x[2]
      <4>2. j \in 1..n /\ g \in [1..n -> Nat]
        BY <4>1
      <4> HIDE DEF j, g
      <4>3. (IF j = 1 THEN f[1] ELSE g[j - 1] + f[j]) \in Nat
        <5>1. CASE j = 1
          BY <4>2, <5>1
        <5>2. CASE j # 1
          <6>1. j - 1 \in 1..n
            BY <1>2, <4>2, <5>2
          <6> HIDE DEF step
          <6>2. g[j - 1] \in Nat /\ f[j] \in Nat
            BY <4>2, <6>1
          <6>3. g[j - 1] + f[j] \in Nat
            BY <1>0, <6>2, Zenon
          <6> QED
            BY <5>2, <6>3, Zenon
        <5> QED
          BY <5>1, <5>2
      <4> QED
        BY <4>3 DEF j, g
    <3> QED
      BY <3>1
  <2> HIDE DEF step
  <2>2. ASSUME NEW j \in 1..n, NEW g \in [1..n -> Nat], NEW h \in [1..n -> Nat],
               \A i \in 1..(j - 1) : g[i] = h[i]
        PROVE  step[<<j, g>>] = step[<<j, h>>]
    <3>1. CASE j = 1
      BY <1>1, <3>1
    <3>2. CASE j # 1
      <4>1. g[j - 1] = h[j - 1]
        BY <1>2, <2>2, <3>2
      <4>2. step[<<j, g>>] = g[j - 1] + f[j]
        BY <1>1, <3>2
      <4>3. step[<<j, h>>] = h[j - 1] + f[j]
        BY <1>1, <3>2
      <4> QED
        BY <4>1, <4>2, <4>3
    <3> QED
      BY <3>1, <3>2
  <2> QED
    BY <2>1, <2>2 DEF LooksBelow
<1> HIDE DEF step
<1>4. PICK g : Follows(n, Nat, step, g)
  <2>1. Nat # {}
    OBVIOUS
  <2> QED
    BY <1>3, <2>1, Defined
<1>5. g \in [1..n -> Nat] /\ \A j \in 1..n : g[j] = IF j = 1 THEN f[1] ELSE g[j - 1] + f[j]
  BY <1>1, <1>4 DEF Follows
<1> DEFINE s == [k \in 0..n |-> IF k = 0 THEN 0 ELSE g[k]]
<1>6. s \in [0..n -> Nat] /\ s[0] = 0 /\ \A k \in 1..n : s[k] = g[k]
  BY <1>5
<1> HIDE DEF s
<1>7. ASSUME NEW k \in 1..n
      PROVE  s[k] = s[k - 1] + f[k]
  <2>1. CASE k = 1
    BY <1>5, <1>6, <2>1
  <2>2. CASE k # 1
    BY <1>2, <1>5, <1>6, <2>2
  <2> QED
    BY <2>1, <2>2
<1> QED
  BY <1>6, <1>7 DEF Sums

LEMMA SumIs ==
  ASSUME NEW f, Len(files) \in Nat, f \in [1..Len(files) -> Nat]
  PROVE  \E s : Sums(Len(files), f, s) /\ Sum(f) = s[Len(files)]
<1> DEFINE n == Len(files)
           rule(u) == [i \in 0..n |-> IF i = 0 THEN 0 ELSE u[i - 1] + f[i]]
           s == CHOOSE u : u = rule(u)
<1>1. Sum(f) = s[n]
  BY Zenon DEF Sum
<1> HIDE DEF n
<1>2. PICK t : Sums(n, f, t)
  BY SumsExist DEF n
<1>3. t = rule(t)
  BY <1>2 DEF Sums
<1> HIDE DEF rule, s
<1>4. s = rule(s)
  BY <1>3, Zenon DEF s
<1>5. /\ s = [i \in 0..n |-> s[i]] /\ s[0] = 0
      /\ \A k \in 1..n : s[k] = s[k - 1] + f[k]
  <2>0. n \in Nat
    BY DEF n
  <2>1. s = [i \in 0..n |-> IF i = 0 THEN 0 ELSE s[i - 1] + f[i]]
    BY <1>4, Zenon DEF rule
  <2>2. s = [i \in 0..n |-> s[i]]
    BY <2>1
  <2>3. \A i \in 0..n : s[i] = IF i = 0 THEN 0 ELSE s[i - 1] + f[i]
    BY <2>1
  <2>4. 0 \in 0..n /\ \A k \in 1..n : k \in 0..n /\ k # 0
    BY <2>0
  <2> QED
    BY <2>2, <2>3, <2>4
<1>6. \A k \in 0..n : s[k] \in Nat
  <2> DEFINE S == {k \in 0..n : s[k] \in Nat}
  <2>0. n \in Nat /\ f \in [1..n -> Nat]
    BY DEF n
  <2>1. 0 \in S
    BY <1>5, <2>0
  <2>2. \A k \in 1..n : k - 1 \in S => k \in S
    BY <1>5, <2>0
  <2> HIDE DEF S
  <2>3. \A k \in 0..n : k \in S
    BY <2>0, <2>1, <2>2, Upwards
  <2> QED
    BY <2>3 DEF S
<1>7. Sums(n, f, s)
  BY <1>5, <1>6 DEF Sums
<1> QED
  BY <1>1, <1>7 DEF n

(* Of two sums, when each number grew by nothing but one by d at most.       *)
LEMMA SumGrows ==
  ASSUME NEW f, NEW g, NEW i, NEW d \in Nat, Len(files) \in Nat, i \in 1..Len(files),
         f \in [1..Len(files) -> Nat], g \in [1..Len(files) -> Nat],
         g[i] <= f[i] + d, \A j \in 1..Len(files) : j # i => g[j] = f[j]
  PROVE  Sum(f) \in Nat /\ Sum(g) \in Nat /\ Sum(g) <= Sum(f) + d
<1>0. \A a, b, u, w \in Nat : a <= b /\ w <= u + d => a + w <= b + u + d
  OBVIOUS
<1> DEFINE n == Len(files)
<1>1. PICK s : Sums(n, f, s) /\ Sum(f) = s[n]
  BY SumIs
<1>2. PICK t : Sums(n, g, t) /\ Sum(g) = t[n]
  BY SumIs
<1>3. n \in Nat /\ i \in 1..n /\ f \in [1..n -> Nat] /\ g \in [1..n -> Nat]
      /\ \A j \in 1..n : j # i => g[j] = f[j]
  OBVIOUS
<1> HIDE DEF n
<1>4. /\ \A k \in 0..n : s[k] \in Nat /\ t[k] \in Nat
      /\ s[0] = 0 /\ t[0] = 0
      /\ \A k \in 1..n : s[k] = s[k - 1] + f[k] /\ t[k] = t[k - 1] + g[k]
  BY <1>1, <1>2 DEF Sums
<1> DEFINE S == {k \in 0..n : t[k] <= s[k] + (IF k < i THEN 0 ELSE d)}
<1>5. 0 \in S
  <2>1. 0 \in 0..n /\ 0 < i
    BY <1>3
  <2>2. t[0] <= s[0]
    BY <1>4
  <2> QED
    BY <1>4, <2>1, <2>2
<1>6. ASSUME NEW k \in 1..n, k - 1 \in S
      PROVE  k \in S
  <2>1. t[k - 1] <= s[k - 1] + (IF k - 1 < i THEN 0 ELSE d) /\ k - 1 \in 0..n /\ k \in 0..n /\ k \in Nat
    BY <1>3, <1>6
  <2>2. s[k] = s[k - 1] + f[k] /\ t[k] = t[k - 1] + g[k] /\ f[k] \in Nat /\ g[k] \in Nat
        /\ s[k - 1] \in Nat /\ t[k - 1] \in Nat
    BY <1>3, <1>4, <2>1
  <2>3. CASE k = i
    <3>1. g[k] <= f[k] + d /\ k - 1 < i /\ ~(k < i)
      BY <1>3, <2>1, <2>3
    <3>2. t[k - 1] <= s[k - 1]
      BY <2>1, <2>2, <3>1
    <3>3. t[k - 1] + g[k] <= s[k - 1] + f[k] + d
      BY <1>0, <2>2, <3>1, <3>2, Zenon
    <3> QED
      BY <2>1, <2>2, <3>1, <3>3
  <2>4. CASE k # i
    <3>1. g[k] = f[k] /\ (k - 1 < i <=> k < i)
      BY <1>3, <2>4
    <3> QED
      BY <2>1, <2>2, <3>1
  <2> QED
    BY <2>3, <2>4
<1> HIDE DEF S
<1>7. n \in S
  <2>1. \A k \in 0..n : k \in S
    BY <1>3, <1>5, <1>6, Upwards
  <2> QED
    BY <1>3, <2>1
<1>8. n \in 0..n /\ ~(n < i)
  BY <1>3
<1> QED
  BY <1>1, <1>2, <1>4, <1>7, <1>8 DEF S

(* What is taken in order of all files is all of them.                      *)
LEMMA AllInOrder ==
  ASSUME NEW S, Len(files) \in Nat, \A k \in 1..Len(files) : k \in S
  PROVE  InOrder(S) = [i \in 1..Len(files) |-> i]
<1> DEFINE n == Len(files)
           rule(u) == [k \in 0..n |->
                         IF k = 0 THEN << >> ELSE IF k \in S THEN Append(u[k - 1], k) ELSE u[k - 1]]
           upto == CHOOSE u : u = rule(u)
           first == [k \in 0..n |-> [i \in 1..k |-> i]]
<1>1. InOrder(S) = upto[n]
  BY Zenon DEF InOrder
<1>2. n \in Nat /\ \A k \in 1..n : k \in S
  OBVIOUS
<1> HIDE DEF n
<1>3. \A k \in 1..n : [i \in 1..k |-> i] = Append([i \in 1..(k - 1) |-> i], k)
  OBVIOUS
<1>4. [i \in 1..0 |-> i] = << >>
  OBVIOUS
<1>5. \A k \in 0..n : first[k] = [i \in 1..k |-> i]
  OBVIOUS
<1>6. first = rule(first)
  <2>1. \A k \in 0..n : first[k] = IF k = 0 THEN << >>
                                   ELSE IF k \in S THEN Append(first[k - 1], k) ELSE first[k - 1]
    <3> TAKE k \in 0..n
    <3>1. CASE k = 0
      BY <1>4, <1>5, <3>1
    <3>2. CASE k # 0
      <4>1. k \in 1..n /\ k - 1 \in 0..n
        BY <1>2, <3>2
      <4> HIDE DEF first
      <4> QED
        BY <1>2, <1>3, <1>5, <3>2, <4>1
    <3> QED
      BY <3>1, <3>2
  <2>2. first = [k \in 0..n |-> first[k]]
    OBVIOUS
  <2> HIDE DEF first
  <2> QED
    BY <2>1, <2>2
<1> HIDE DEF rule, upto, first
<1>7. upto = rule(upto)
  BY <1>6, Zenon DEF upto
<1>8. \A k \in 0..n : upto[k] = IF k = 0 THEN << >>
                                ELSE IF k \in S THEN Append(upto[k - 1], k) ELSE upto[k - 1]
  BY <1>7 DEF rule
<1> DEFINE Same == {k \in 0..n : upto[k] = [i \in 1..k |-> i]}
<1>9. 0 \in Same
  BY <1>2, <1>4, <1>8
<1>10. ASSUME NEW k \in 1..n, k - 1 \in Same
       PROVE  k \in Same
  <2>1. k \in 0..n /\ k # 0 /\ k \in S
    BY <1>2
  <2>2. upto[k] = Append(upto[k - 1], k)
    BY <1>8, <2>1
  <2> QED
    BY <1>3, <1>10, <2>1, <2>2
<1> HIDE DEF Same
<1>11. n \in Same
  <2>1. \A k \in 0..n : k \in Same
    BY <1>2, <1>9, <1>10, Upwards
  <2>2. n \in 0..n
    BY <1>2
  <2> QED
    BY <2>1, <2>2
<1> QED
  BY <1>1, <1>11 DEF Same, n

-----------------------------------------------------------------------------
(* The files of a message                                                   *)

Texts == {Nothing, "error", "unsupported", "content"}
Results == [pc : {"check", "pass", "load", "ask", "copy", "note", "done"},
            down : 0..MaxFile, text : Texts, usage : 0..1,
            path : SUBSET Paths, analysis : SUBSET Paths]
Uses == [pc : {"head", "pass", "load", "ask", "copy", "end"}, file : Named, copy : BOOLEAN,
         loads : Nat, calls : Nat, text : Texts, path : SUBSET Paths]

Typed ==
  /\ files \in Uploads /\ item \in [Items -> Results]
  /\ reply.state \in {"idle", "running", "thrown", "done", "sent"}
  /\ DOMAIN reply = DOMAIN NoReply /\ reply.usage \in Nat /\ reply.billed \in Nat
  /\ tool = NoTool \/ tool \in Uses
  /\ sandbox \in [Paths -> SUBSET Nat] /\ spent \in [files : Nat, tool : Nat]

(* A file that is read has a source, what was read of it a text, and what its *)
(* result names is in the sandbox, at paths of its own.                      *)
Own(i) == IF Of(i).kind = "document" THEN {Dest(Of(i))}
          ELSE {Dest(Of(i)), AnalysisDest(Of(i))}
Told(i) == item[i].path \cup item[i].analysis
ItemOK(i) ==
  /\ item[i].pc \in {"pass", "load"} => Of(i).source # "none"
  /\ item[i].pc = "note" => Of(i).kind # "document"
  /\ item[i].pc \in {"ask", "copy", "note", "done"} => item[i].text # Nothing
  /\ \A p \in Told(i) : p \in Own(i) /\ sandbox[p] = {i}

(* What the tool did so far.                                                *)
UseOK ==
  tool # NoTool =>
    /\ reply.state = "sent"
    /\ tool.pc \in {"head", "pass", "load"} => tool.loads = 0
    /\ tool.pc \in {"head", "pass"} => tool.calls = 0
    /\ tool.pc \in {"load", "ask"} => tool.calls <= 1
    /\ tool.pc \in {"ask", "copy", "end"} => tool.loads <= 1 /\ tool.calls <= 2 /\ tool.text # Nothing
    /\ tool.pc # "end" => tool.path = {}
    /\ \A p \in tool.path : p = Dest(tool.file) /\ sandbox[p] = {0}

(* The calls paid for cover those counted, and those billed.                *)
Used == [i \in Items |-> item[i].usage]
Down == [i \in Items |-> item[i].down]
Paid ==
  /\ Sum(Used) <= spent.files /\ reply.billed <= spent.files
  /\ reply.state = "done" => reply.usage <= spent.files

Collected ==
  reply.state \in {"done", "sent"} =>
    /\ reply.texts = [i \in 1..Len(files) |-> i] /\ reply.metadata = reply.texts
    /\ Sum(Down) <= MaxTotal

FilesInv ==
  /\ Typed /\ Paid /\ Collected /\ UseOK
  /\ \A i \in Items : ItemOK(i)

LEMMA FilesAre ==
  ASSUME Typed
  PROVE  /\ Len(files) \in Nat /\ Items = 1..Len(files) /\ DOMAIN files = 1..Len(files)
         /\ Used \in [1..Len(files) -> Nat] /\ Down \in [1..Len(files) -> Nat]
         /\ \A i \in Items : /\ item[i] \in Results /\ Own(i) \subseteq Paths
                             /\ Of(i).source \in {"http", "mxc", "event", "none"}
<1>1. Len(files) \in Nat /\ Items = 1..Len(files) /\ DOMAIN files = 1..Len(files)
      /\ \A i \in 1..Len(files) : files[i].source \in {"http", "mxc", "event", "none"}
  BY AttachmentsAssumption DEF AttachmentsAssumption, Typed, Items
<1>2. \A i \in Items : item[i] \in Results
  BY DEF Typed
<1>3. MaxFile \in Nat
  BY AttachmentsAssumption DEF AttachmentsAssumption
<1>4. \A i \in Items : item[i].usage \in Nat /\ item[i].down \in Nat
  BY <1>2, <1>3 DEF Results
<1>5. ASSUME NEW i \in Items
      PROVE  Own(i) \subseteq Paths
  <2>1. files[i] \in (UNION {{u[j] : j \in DOMAIN u} : u \in Uploads}) \cup Named
    BY <1>1 DEF Typed
  <2> QED
    BY <2>1 DEF Own, Paths, Of
<1> QED
  BY <1>1, <1>2, <1>4, <1>5 DEF Used, Down, Of

LEMMA SumsNext ==
  ASSUME UNCHANGED files
  PROVE  Sum(Used)' = Sum(Used') /\ Sum(Down)' = Sum(Down')
<1> DEFINE total(fs, f) == LET s[i \in 0..Len(fs)] == IF i = 0 THEN 0 ELSE s[i - 1] + f[i]
                           IN s[Len(fs)]
<1>1. \A f : Sum(f) = total(files, f)
  BY Zenon DEF Sum
<1>2. Sum(Used)' = total(files', Used') /\ Sum(Down)' = total(files', Down')
  BY Zenon DEF Sum
<1>3. Sum(Used') = total(files, Used') /\ Sum(Down') = total(files, Down')
  BY Zenon DEF Sum
<1> HIDE DEF total
<1> QED
  BY <1>2, <1>3

(* The paths of two files differ, and the tool's from them.                  *)
LEMMA Apart ==
  ASSUME NamesDiffer, Typed, NEW i \in Items
  PROVE  /\ \A j \in Items : j # i => Own(i) \cap Own(j) = {}
         /\ \A f \in Named : Dest(f) \notin Own(i)
<1>1. files \in Uploads
  BY DEF Typed
<1>2. \A j \in Items : j # i => /\ files[i].name # files[j].name
                               /\ \/ files[i].stem # files[j].stem
                                  \/ files[i].kind = "document" \/ files[j].kind = "document"
  BY <1>1 DEF NamesDiffer, Items
<1>3. \A f \in Named : f.name # files[i].name
  BY <1>1 DEF NamesDiffer, Items
<1> QED
  BY <1>2, <1>3 DEF Own, Dest, AnalysisDest, Of

(* A step of a file.                                                        *)
LEMMA ItemStep ==
  ASSUME NamesDiffer, FilesInv, NEW i \in Items, NEW r \in Results, NEW d \in 0..1,
         item' = [item EXCEPT ![i] = r], reply.state = "running", UNCHANGED <<files, reply, tool>>,
         r.pc \in {"pass", "load"} => Of(i).source # "none",
         r.pc = "note" => Of(i).kind # "document",
         r.pc \in {"ask", "copy", "note", "done"} => r.text # Nothing,
         spent' = [spent EXCEPT !.files = @ + d], r.usage <= item[i].usage + d,
         NEW q \in Own(i), sandbox' = sandbox \/ sandbox' = [sandbox EXCEPT ![q] = {i}],
         \A p \in r.path \cup r.analysis : p \in Told(i) \/ (p = q /\ sandbox'[q] = {i})
  PROVE  FilesInv'
<1>1. /\ Typed /\ Paid /\ ItemOK(i) /\ \A j \in Items : ItemOK(j)
      /\ tool = NoTool
  BY DEF FilesInv, UseOK
<1>2. /\ Len(files) \in Nat /\ Items = 1..Len(files) /\ Items' = Items
      /\ Used \in [1..Len(files) -> Nat] /\ item \in [Items -> Results] /\ i \in Nat
      /\ Own(i) \subseteq Paths /\ sandbox \in [Paths -> SUBSET Nat]
      /\ spent \in [files : Nat, tool : Nat]
  BY <1>1, FilesAre DEF Typed, Items
<1>3. /\ item' \in [Items -> Results] /\ item'[i] = r
      /\ \A j \in Items \ {i} : item'[j] = item[j]
  BY <1>2
<1>4. /\ sandbox' \in [Paths -> SUBSET Nat]
      /\ \A p \in Paths : p # q => sandbox'[p] = sandbox[p]
      /\ sandbox'[q] = sandbox[q] \/ sandbox'[q] = {i}
  BY <1>2
<1>5. spent' \in [files : Nat, tool : Nat] /\ spent'.files = spent.files + d
  BY <1>2
<1>6. Typed'
  BY <1>1, <1>2, <1>3, <1>4, <1>5 DEF Typed
<1>7. Paid'
  <2>1. /\ Used' \in [1..Len(files) -> Nat] /\ Used'[i] = r.usage /\ Used[i] = item[i].usage
        /\ \A j \in 1..Len(files) : j # i => Used'[j] = Used[j]
    <3>1. Used' = [j \in Items |-> item'[j].usage]
      BY <1>2 DEF Used
    <3>2. \A j \in Items : item'[j].usage \in Nat
      BY <1>3 DEF Results
    <3> QED
      BY <1>2, <1>3, <3>1, <3>2 DEF Used
  <2>2. Sum(Used') <= Sum(Used) + d /\ Sum(Used) \in Nat /\ Sum(Used') \in Nat
    <3> DEFINE g == Used'
               f == Used
    <3>1. /\ g \in [1..Len(files) -> Nat] /\ f \in [1..Len(files) -> Nat]
          /\ g[i] <= f[i] + d /\ \A j \in 1..Len(files) : j # i => g[j] = f[j]
          /\ d \in Nat
      BY <1>2, <2>1
    <3> HIDE DEF f, g
    <3>2. Sum(f) \in Nat /\ Sum(g) \in Nat /\ Sum(g) <= Sum(f) + d
      BY <1>2, <3>1, SumGrows
    <3> QED
      BY <3>2 DEF f, g
  <2>3. Sum(Used)' = Sum(Used')
    BY SumsNext
  <2>4. spent.files \in Nat /\ reply.billed \in Nat /\ reply.billed <= spent.files /\ Sum(Used) <= spent.files
    BY <1>1, <1>2 DEF Typed, Paid
  <2>5. Sum(Used)' <= spent'.files /\ reply'.billed <= spent'.files
    BY <1>5, <2>2, <2>3, <2>4
  <2> QED
    BY <2>5 DEF Paid
<1>8. Collected' /\ UseOK'
  BY <1>1 DEF Collected, UseOK, NoTool
<1>9. ASSUME NEW j \in Items
      PROVE  ItemOK(j)'
  <2>1. CASE j = i
    <3>1. \A p \in r.path \cup r.analysis : p \in Own(i) /\ sandbox'[p] = {i}
      <4> TAKE p \in r.path \cup r.analysis
      <4>1. p \in Told(i) => p \in Own(i) /\ p \in Paths /\ sandbox[p] = {i}
        BY <1>1, <1>2 DEF ItemOK
      <4> QED
        BY <1>4, <4>1
    <3>2. Own(i)' = Own(i) /\ Told(i)' = r.path \cup r.analysis /\ Of(i)' = Of(i)
      BY <1>3 DEF Own, Told, Of
    <3> QED
      BY <1>3, <2>1, <3>1, <3>2 DEF ItemOK
  <2>2. CASE j # i
    <3>1. item'[j] = item[j] /\ Own(j)' = Own(j) /\ Told(j)' = Told(j) /\ Of(j)' = Of(j)
      BY <1>3, <2>2 DEF Own, Told, Of
    <3>2. q \notin Own(j) /\ Own(j) \subseteq Paths
      BY <1>1, <2>2, Apart, FilesAre
    <3>3. \A p \in Told(j) : p \in Own(j) /\ sandbox'[p] = {j}
      BY <1>1, <1>4, <3>2 DEF ItemOK
    <3> QED
      BY <1>1, <3>1, <3>3 DEF ItemOK
  <2> QED
    BY <2>1, <2>2
<1> QED
  BY <1>2, <1>6, <1>7, <1>8, <1>9 DEF FilesInv

(* A step that leaves the files as they are.                                *)
LEMMA FilesStay ==
  ASSUME FilesInv, UNCHANGED <<files, item>>, spent'.files = spent.files,
         \A j \in Items : \A p \in Own(j) : sandbox'[p] = sandbox[p]
  PROVE  /\ \A j \in Items' : ItemOK(j)'
         /\ Sum(Used)' = Sum(Used) /\ Sum(Down)' = Sum(Down) /\ Items' = Items
<1>1. Items' = Items /\ Used' = Used /\ Down' = Down
  BY DEF Items, Used, Down
<1>2. Sum(Used)' = Sum(Used) /\ Sum(Down)' = Sum(Down)
  BY <1>1, SumsNext
<1>3. ASSUME NEW j \in Items
      PROVE  ItemOK(j)'
  <2>1. Own(j)' = Own(j) /\ Told(j)' = Told(j) /\ Of(j)' = Of(j)
    BY DEF Own, Told, Of
  <2>2. ItemOK(j)
    BY DEF FilesInv
  <2> QED
    BY <2>1, <2>2 DEF ItemOK
<1> QED
  BY <1>1, <1>2, <1>3

(* Each step of processAttachment.                                          *)
LEMMA FailStep ==
  ASSUME NamesDiffer, FilesInv, NEW i \in Items, Rest(i), Fail(i), UNCHANGED <<sandbox, spent>>
  PROVE  FilesInv'
<1> DEFINE r == [Started EXCEPT !.pc = "done", !.text = "error"]
<1>1. item' = [item EXCEPT ![i] = r]
  BY DEF Fail, Set
<1>2. /\ Typed /\ item[i] \in Results /\ MaxFile \in Nat /\ spent \in [files : Nat, tool : Nat]
  BY FilesAre, AttachmentsAssumption DEF FilesInv, Typed, AttachmentsAssumption
<1> HIDE DEF r
<1>3. /\ r.pc = "done" /\ r.text = "error" /\ r.usage = 0 /\ r.down = 0
      /\ r.path = {} /\ r.analysis = {}
  BY Zenon DEF r, Started
<1>4. r \in Results
  <2>1. r = [r EXCEPT !.pc = r.pc] /\ DOMAIN r = {"pc", "down", "text", "usage", "path", "analysis"}
    BY Zenon DEF r, Started
  <2>2. /\ 0 \in 0..MaxFile /\ 0 \in 0..1 /\ "error" \in Texts
        /\ "done" \in {"check", "pass", "load", "ask", "copy", "note", "done"}
    BY <1>2 DEF Texts
  <2> QED
    BY <1>3, <2>1, <2>2 DEF Results
<1>5. spent' = [spent EXCEPT !.files = @ + 0] /\ r.usage <= item[i].usage + 0 /\ 0 \in 0..1
  <2>1. item[i].usage \in 0..1
    BY <1>2 DEF Results
  <2> QED
    BY <1>2, <1>3, <2>1
<1>6. /\ Dest(Of(i)) \in Own(i) /\ reply.state = "running" /\ UNCHANGED <<files, reply, tool>>
      /\ sandbox' = sandbox
  BY DEF Own, Rest
<1>7. /\ \A p \in r.path \cup r.analysis : p \in Told(i)
      /\ r.pc \notin {"pass", "load", "note"} /\ r.text # Nothing
  BY <1>3 DEF Nothing
<1> QED
  BY <1>1, <1>4, <1>5, <1>6, <1>7, ItemStep

(* A step that only notes something of a result.                            *)
LEMMA NoteStep ==
  ASSUME NamesDiffer, FilesInv, NEW i \in Items, Rest(i), NEW r \in Results, Set(i, r),
         NEW d \in 0..1, spent' = [spent EXCEPT !.files = @ + d], UNCHANGED sandbox,
         r.path = item[i].path, r.analysis = item[i].analysis, r.usage <= item[i].usage + d,
         r.pc \in {"pass", "load"} => Of(i).source # "none",
         r.pc = "note" => Of(i).kind # "document",
         r.pc \in {"ask", "copy", "note", "done"} => r.text # Nothing
  PROVE  FilesInv'
<1>1. Dest(Of(i)) \in Own(i) /\ reply.state = "running" /\ UNCHANGED <<files, reply, tool>>
  BY DEF Own, Rest
<1>2. \A p \in r.path \cup r.analysis : p \in Told(i)
  BY DEF Told
<1>3. item' = [item EXCEPT ![i] = r]
  BY DEF Set
<1> QED
  BY <1>1, <1>2, <1>3, ItemStep

LEMMA ResultsAre ==
  ASSUME FilesInv, NEW i \in Items
  PROVE  /\ item[i] \in Results /\ ItemOK(i) /\ spent \in [files : Nat, tool : Nat]
         /\ MaxFile \in Nat /\ Own(i) \subseteq Paths
         /\ item[i].usage \in 0..1 /\ item[i].usage <= item[i].usage + 0
         /\ spent = [spent EXCEPT !.files = @ + 0]
         /\ Of(i).source \in {"http", "mxc", "event", "none"}
<1>1. item[i] \in Results /\ Typed /\ ItemOK(i) /\ Own(i) \subseteq Paths
      /\ spent \in [files : Nat, tool : Nat] /\ MaxFile \in Nat
      /\ Of(i).source \in {"http", "mxc", "event", "none"}
  BY FilesAre, AttachmentsAssumption DEF FilesInv, Typed, AttachmentsAssumption
<1>2. item[i].usage \in 0..1
  BY <1>1 DEF Results
<1> QED
  BY <1>1, <1>2

LEMMA ValidateStep ==
  ASSUME NamesDiffer, FilesInv, NEW i \in Items, Validate(i)
  PROVE  FilesInv'
<1>1. /\ Rest(i) /\ item[i].pc = "check" /\ UNCHANGED <<sandbox, spent>>
      /\ item[i] \in Results /\ ItemOK(i) /\ item[i].usage <= item[i].usage + 0
      /\ spent = [spent EXCEPT !.files = @ + 0]
  BY ResultsAre DEF Validate
<1>2. CASE Fail(i)
  BY <1>1, <1>2, FailStep
<1>3. CASE /\ Of(i).source # "none"
           /\ Set(i, [item[i] EXCEPT !.pc = "done", !.text = "unsupported"])
  <2> DEFINE r == [item[i] EXCEPT !.pc = "done", !.text = "unsupported"]
  <2>1. /\ r \in Results /\ r.pc = "done" /\ r.text # Nothing /\ r.usage = item[i].usage
        /\ r.path = item[i].path /\ r.analysis = item[i].analysis
    BY <1>1 DEF Results, Texts, Nothing
  <2>2. Set(i, r)
    BY <1>3
  <2> HIDE DEF r
  <2> QED
    BY <1>1, <2>1, <2>2, NoteStep
<1>4. ASSUME Of(i).source # "none", NEW to \in {"pass", "load"}, Set(i, [item[i] EXCEPT !.pc = to])
      PROVE  FilesInv'
  <2> DEFINE r == [item[i] EXCEPT !.pc = to]
  <2>1. /\ r \in Results /\ r.pc \in {"pass", "load"} /\ r.usage = item[i].usage
        /\ r.path = item[i].path /\ r.analysis = item[i].analysis
    BY <1>1 DEF Results
  <2>2. Set(i, r)
    BY <1>4
  <2> HIDE DEF r
  <2> QED
    BY <1>1, <1>4, <2>1, <2>2, NoteStep
<1>5. \/ Fail(i)
      \/ /\ Of(i).source # "none"
         /\ \/ Set(i, [item[i] EXCEPT !.pc = "done", !.text = "unsupported"])
            \/ \E to \in {"pass", "load"} : Set(i, [item[i] EXCEPT !.pc = to])
  BY DEF Validate
<1> QED
  BY <1>2, <1>3, <1>4, <1>5

LEMMA PassUrlStep ==
  ASSUME NamesDiffer, FilesInv, NEW i \in Items, PassUrl(i)
  PROVE  FilesInv'
<1>1. /\ Rest(i) /\ item[i].pc = "pass" /\ UNCHANGED sandbox
      /\ item[i] \in Results /\ ItemOK(i) /\ item[i].usage \in 0..1
      /\ spent = [spent EXCEPT !.files = @ + 0]
  BY ResultsAre DEF PassUrl
<1>2. PICK a \in AiProcessFromUrl :
        /\ spent' = IF a = "fails" THEN spent ELSE [spent EXCEPT !.files = @ + 1]
        /\ Set(i, IF a = "text"
                    THEN [item[i] EXCEPT !.pc = "done", !.text = "content", !.usage = 1]
                    ELSE [item[i] EXCEPT !.pc = "load"])
  BY DEF PassUrl
<1>3. CASE a = "text"
  <2>0. PICK u \in 0..1 : u = 1
    OBVIOUS
  <2> DEFINE r == [item[i] EXCEPT !.pc = "done", !.text = "content", !.usage = u]
  <2>1. /\ r \in Results /\ r.pc = "done" /\ r.text # Nothing /\ r.usage = u
        /\ r.path = item[i].path /\ r.analysis = item[i].analysis
    BY <1>1 DEF Results, Texts, Nothing
  <2>2. Set(i, r) /\ spent' = [spent EXCEPT !.files = @ + 1] /\ 1 \in 0..1
    BY <1>2, <1>3, <2>0
  <2>3. r.usage <= item[i].usage + 1
    BY <1>1, <2>0, <2>1
  <2> HIDE DEF r
  <2> QED
    BY <1>1, <2>1, <2>2, <2>3, NoteStep
<1>4. CASE a # "text"
  <2> DEFINE r == [item[i] EXCEPT !.pc = "load"]
  <2>1. /\ r \in Results /\ r.pc = "load" /\ r.usage = item[i].usage
        /\ r.path = item[i].path /\ r.analysis = item[i].analysis
    BY <1>1 DEF Results
  <2>2. Set(i, r)
    BY <1>2, <1>4
  <2>3. Of(i).source # "none"
    BY <1>1 DEF ItemOK
  <2>4. PICK d \in 0..1 : spent' = [spent EXCEPT !.files = @ + d]
    BY <1>1, <1>2
  <2>5. r.usage <= item[i].usage + d
    BY <1>1, <2>1
  <2> HIDE DEF r
  <2> QED
    BY <1>1, <2>1, <2>2, <2>3, <2>4, <2>5, NoteStep
<1> QED
  BY <1>3, <1>4

LEMMA LoadStep ==
  ASSUME NamesDiffer, FilesInv, NEW i \in Items, Load(i)
  PROVE  FilesInv'
<1>1. /\ Rest(i) /\ item[i].pc = "load" /\ UNCHANGED <<sandbox, spent>>
      /\ item[i] \in Results /\ ItemOK(i) /\ item[i].usage <= item[i].usage + 0
      /\ spent = [spent EXCEPT !.files = @ + 0] /\ MaxFile \in Nat
      /\ Of(i).source \in {"http", "mxc", "event"}
  BY ResultsAre DEF Load, ItemOK
<1>2. Download(Of(i).source) \subseteq Bytes
  BY <1>1 DEF Download, DownloadFromUrl, DownloadFromMatrix, DownloadFromMatrixEvent
<1>3. CASE Fail(i)
  BY <1>1, <1>3, FailStep
<1>4. ASSUME NEW b \in Bytes, ~(b.size > MaxFile), NEW to \in {"ask", "copy"},
             Set(i, [item[i] EXCEPT !.down = b.size, !.text = "content", !.pc = to])
      PROVE  FilesInv'
  <2> DEFINE r == [item[i] EXCEPT !.down = b.size, !.text = "content", !.pc = to]
  <2>1. b.size \in 0..MaxFile
    BY <1>1, <1>4, AttachmentsAssumption DEF Bytes, AttachmentsAssumption
  <2>2. /\ r \in Results /\ r.pc \in {"ask", "copy"} /\ r.usage = item[i].usage
        /\ r.text # Nothing /\ r.path = item[i].path /\ r.analysis = item[i].analysis
    BY <1>1, <2>1 DEF Results, Texts, Nothing
  <2>3. Set(i, r)
    BY <1>4
  <2> HIDE DEF r
  <2> QED
    BY <1>1, <2>2, <2>3, NoteStep
<1>5. \/ Fail(i)
      \/ \E b \in Download(Of(i).source) :
           /\ ~(b.size > MaxFile)
           /\ \E to \in {"ask", "copy"} :
                Set(i, [item[i] EXCEPT !.down = b.size, !.text = "content", !.pc = to])
  <2>1. CASE ~Fail(i)
    <3>1. PICK b \in Download(Of(i).source) :
            IF b.size > MaxFile \/ ~VerifyMagicBytes(b, Of(i).kind, Of(i).plain) THEN Fail(i)
            ELSE \E r \in Reader(Of(i).kind, Of(i).plain) :
                   Set(i, [item[i] EXCEPT !.down = b.size, !.text = "content",
                                          !.pc = IF r = "ai" THEN "ask" ELSE "copy"])
      BY <2>1, Zenon DEF Load
    <3>2. ~(b.size > MaxFile)
      BY <2>1, <3>1
    <3>3. PICK r \in Reader(Of(i).kind, Of(i).plain) :
            Set(i, [item[i] EXCEPT !.down = b.size, !.text = "content",
                                   !.pc = IF r = "ai" THEN "ask" ELSE "copy"])
      BY <2>1, <3>1
    <3>4. (IF r = "ai" THEN "ask" ELSE "copy") \in {"ask", "copy"}
      OBVIOUS
    <3> QED
      BY <3>2, <3>3, <3>4
  <2> QED
    BY <2>1
<1> QED
  BY <1>2, <1>3, <1>4, <1>5

LEMMA AskStep ==
  ASSUME NamesDiffer, FilesInv, NEW i \in Items, Ask(i)
  PROVE  FilesInv'
<1>1. /\ Rest(i) /\ item[i].pc = "ask" /\ UNCHANGED sandbox
      /\ item[i] \in Results /\ ItemOK(i) /\ item[i].usage \in 0..1
  BY ResultsAre DEF Ask
<1>2. CASE Fail(i) /\ UNCHANGED spent
  BY <1>1, <1>2, FailStep
<1>3. CASE /\ spent' = [spent EXCEPT !.files = @ + 1]
           /\ Set(i, [item[i] EXCEPT !.pc = "copy", !.usage = 1])
  <2>0. PICK u \in 0..1 : u = 1
    OBVIOUS
  <2> DEFINE r == [item[i] EXCEPT !.pc = "copy", !.usage = u]
  <2>1. /\ r \in Results /\ r.pc = "copy" /\ r.usage = u /\ r.text = item[i].text
        /\ r.path = item[i].path /\ r.analysis = item[i].analysis
    BY <1>1 DEF Results
  <2>2. Set(i, r) /\ spent' = [spent EXCEPT !.files = @ + 1] /\ 1 \in 0..1
    BY <1>3, <2>0
  <2>3. r.usage <= item[i].usage + 1 /\ r.text # Nothing
    BY <1>1, <2>0, <2>1 DEF ItemOK
  <2> HIDE DEF r
  <2> QED
    BY <1>1, <2>1, <2>2, <2>3, NoteStep
<1> QED
  BY <1>2, <1>3 DEF Ask

(* A file is uploaded to its own paths.                                     *)
LEMMA CopyStep ==
  ASSUME NamesDiffer, FilesInv, NEW i \in Items, Copy(i) \/ Note(i)
  PROVE  FilesInv'
<1>1. /\ Rest(i) /\ item[i].pc \in {"copy", "note"} /\ UNCHANGED spent
      /\ item[i] \in Results /\ ItemOK(i) /\ item[i].usage <= item[i].usage + 0
      /\ spent' = [spent EXCEPT !.files = @ + 0] /\ Own(i) \subseteq Paths
      /\ spent \in [files : Nat, tool : Nat] /\ item[i].text # Nothing
  <2>1. Rest(i) /\ item[i].pc \in {"copy", "note"} /\ UNCHANGED spent
    BY DEF Copy, Note
  <2> QED
    BY <2>1, ResultsAre DEF ItemOK
<1>2. ASSUME Set(i, [item[i] EXCEPT !.pc = "done"]), UNCHANGED sandbox
      PROVE  FilesInv'
  <2> DEFINE r == [item[i] EXCEPT !.pc = "done"]
  <2>1. /\ r \in Results /\ r.pc = "done" /\ r.usage = item[i].usage /\ r.text = item[i].text
        /\ r.path = item[i].path /\ r.analysis = item[i].analysis
    BY <1>1 DEF Results
  <2>2. Set(i, r)
    BY <1>2
  <2>3. r.text # Nothing /\ r.pc \notin {"pass", "load"} /\ r.usage <= item[i].usage + 0 /\ 0 \in 0..1
    BY <1>1, <2>1
  <2> HIDE DEF r
  <2> QED
    BY <1>1, <1>2, <2>1, <2>2, <2>3, NoteStep
<1>3. ASSUME NEW q \in Own(i), sandbox' = [sandbox EXCEPT ![q] = {i}], NEW r \in Results,
             Set(i, r), r.pc \in {"note", "done"}, r.pc = "note" => Of(i).kind # "document",
             r.usage = item[i].usage, r.text = item[i].text,
             \A p \in r.path \cup r.analysis : p \in Told(i) \/ p = q
      PROVE  FilesInv'
  <2>1. q \in Paths /\ sandbox \in [Paths -> SUBSET Nat]
    BY <1>1, <1>3 DEF FilesInv, Typed
  <2>2. sandbox'[q] = {i}
    BY <1>3, <2>1
  <2>3. \A p \in r.path \cup r.analysis : p \in Told(i) \/ (p = q /\ sandbox'[q] = {i})
    BY <1>3, <2>2
  <2>4. item' = [item EXCEPT ![i] = r] /\ reply.state = "running" /\ UNCHANGED <<files, reply, tool>>
    BY <1>1, <1>3 DEF Set, Rest
  <2>5. r.text # Nothing /\ r.pc \notin {"pass", "load"} /\ r.usage <= item[i].usage + 0 /\ 0 \in 0..1
    BY <1>1, <1>3
  <2>6. spent' = [spent EXCEPT !.files = @ + 0]
    BY <1>1
  <2> QED
    BY <1>3, <2>3, <2>4, <2>5, <2>6, ItemStep
<1>4. CASE /\ sandbox' = [sandbox EXCEPT ![Dest(Of(i))] = {i}]
           /\ \E to \in {"note", "done"} :
                /\ to = "note" => Of(i).kind # "document"
                /\ Set(i, [item[i] EXCEPT !.path = {Dest(Of(i))}, !.pc = to])
  <2>1. PICK to \in {"note", "done"} :
          /\ to = "note" => Of(i).kind # "document"
          /\ Set(i, [item[i] EXCEPT !.path = {Dest(Of(i))}, !.pc = to])
    BY <1>4
  <2> DEFINE r == [item[i] EXCEPT !.path = {Dest(Of(i))}, !.pc = to]
  <2>2. Dest(Of(i)) \in Own(i) /\ Dest(Of(i)) \in Paths
    BY <1>1 DEF Own
  <2>3. /\ r \in Results /\ r.pc = to /\ r.usage = item[i].usage
        /\ r.text = item[i].text /\ r.path = {Dest(Of(i))} /\ r.analysis = item[i].analysis
    BY <1>1, <2>2 DEF Results
  <2>4. Set(i, r)
    BY <2>1
  <2> HIDE DEF r
  <2>5. \A p \in r.path \cup r.analysis : p \in Told(i) \/ p = Dest(Of(i))
    BY <2>3 DEF Told
  <2> QED
    BY <1>3, <1>4, <2>1, <2>2, <2>3, <2>4, <2>5
<1>5. CASE /\ item[i].pc = "note"
           /\ sandbox' = [sandbox EXCEPT ![AnalysisDest(Of(i))] = {i}]
           /\ Set(i, [item[i] EXCEPT !.pc = "done", !.analysis = {AnalysisDest(Of(i))}])
  <2> DEFINE r == [item[i] EXCEPT !.pc = "done", !.analysis = {AnalysisDest(Of(i))}]
  <2>1. AnalysisDest(Of(i)) \in Own(i) /\ AnalysisDest(Of(i)) \in Paths
    BY <1>1, <1>5 DEF Own, ItemOK
  <2>2. /\ r \in Results /\ r.pc = "done" /\ r.usage = item[i].usage
        /\ r.text = item[i].text /\ r.analysis = {AnalysisDest(Of(i))} /\ r.path = item[i].path
    BY <1>1, <2>1 DEF Results
  <2>3. Set(i, r)
    BY <1>5
  <2> HIDE DEF r
  <2>4. \A p \in r.path \cup r.analysis : p \in Told(i) \/ p = AnalysisDest(Of(i))
    BY <2>2 DEF Told
  <2> QED
    BY <1>3, <1>5, <2>1, <2>2, <2>3, <2>4
<1>6. \/ Set(i, [item[i] EXCEPT !.pc = "done"]) /\ UNCHANGED sandbox
      \/ /\ sandbox' = [sandbox EXCEPT ![Dest(Of(i))] = {i}]
         /\ \E to \in {"note", "done"} :
              /\ to = "note" => Of(i).kind # "document"
              /\ Set(i, [item[i] EXCEPT !.path = {Dest(Of(i))}, !.pc = to])
      \/ /\ item[i].pc = "note"
         /\ sandbox' = [sandbox EXCEPT ![AnalysisDest(Of(i))] = {i}]
         /\ Set(i, [item[i] EXCEPT !.pc = "done", !.analysis = {AnalysisDest(Of(i))}])
  <2> DEFINE to == IF Of(i).kind = "document" THEN "done" ELSE "note"
  <2>1. to \in {"note", "done"} /\ (to = "note" => Of(i).kind # "document")
    OBVIOUS
  <2> QED
    BY <2>1 DEF Copy, Note
<1> QED
  BY <1>2, <1>4, <1>5, <1>6

(* The steps of processAttachments, which leave the files alone.            *)
LEMMA ReplyStep ==
  ASSUME NamesDiffer, FilesInv, Begin \/ Collect \/ Deduct
  PROVE  FilesInv'
<1>1. /\ Typed /\ Paid /\ Collected /\ UseOK /\ \A i \in Items : ItemOK(i)
      /\ UNCHANGED <<files, item, tool, sandbox, spent>>
  BY DEF FilesInv, Begin, Collect, Deduct
<1>2. /\ Len(files) \in Nat /\ Items = 1..Len(files) /\ spent.files \in Nat
      /\ Used \in [1..Len(files) -> Nat]
  BY <1>1, FilesAre DEF Typed
<1>3. /\ \A j \in Items' : ItemOK(j)'
      /\ Sum(Used)' = Sum(Used) /\ Sum(Down)' = Sum(Down) /\ Items' = Items
  BY <1>1, FilesStay
<1>4. /\ reply.state \in {"idle", "running", "thrown", "done", "sent"}
      /\ DOMAIN reply = {"state", "texts", "metadata", "usage", "billed"}
      /\ reply.usage \in Nat /\ reply.billed \in Nat /\ reply.billed <= spent.files
      /\ reply.state = "done" => reply.usage <= spent.files
  BY <1>1 DEF Typed, Paid, NoReply
<1>5. tool # NoTool => reply.state = "sent"
  BY <1>1 DEF UseOK
<1>6. ASSUME /\ reply'.state \in {"idle", "running", "thrown", "done", "sent"}
             /\ DOMAIN reply' = DOMAIN reply
             /\ reply'.usage \in Nat /\ reply'.billed \in Nat /\ reply'.billed <= spent.files
             /\ reply'.state = "done" => reply'.usage <= spent.files
             /\ tool = NoTool
             /\ reply'.state \in {"done", "sent"} =>
                  /\ reply'.texts = [i \in 1..Len(files) |-> i] /\ reply'.metadata = reply'.texts
                  /\ Sum(Down) <= MaxTotal
      PROVE  FilesInv'
  <2>1. Typed'
    BY <1>1, <1>3, <1>6 DEF Typed
  <2>2. Paid'
    BY <1>1, <1>3, <1>6 DEF Paid
  <2>3. Collected'
    BY <1>1, <1>3, <1>6 DEF Collected
  <2>4. UseOK'
    BY <1>1, <1>6 DEF UseOK, NoTool
  <2> QED
    BY <1>3, <2>1, <2>2, <2>3, <2>4 DEF FilesInv
<1>7. CASE Begin
  <2>1. PICK to \in {"thrown", "running"} : reply' = [reply EXCEPT !.state = to]
    BY <1>7 DEF Begin
  <2>2. reply.state = "idle"
    BY <1>7 DEF Begin
  <2> QED
    BY <1>4, <1>5, <1>6, <2>1, <2>2
<1>8. CASE Collect
  <2>1. reply.state = "running" /\ \A i \in Items : item[i].pc = "done"
    BY <1>8 DEF Collect
  <2>2. CASE Sum(Down) > MaxTotal
    <3>1. reply' = [reply EXCEPT !.state = "thrown"]
      BY <1>8, <2>2 DEF Collect, Down
    <3> QED
      BY <1>4, <1>5, <1>6, <2>1, <3>1
  <2>3. CASE ~(Sum(Down) > MaxTotal)
    <3>1. reply' = [reply EXCEPT !.state = "done", !.texts = WithText, !.metadata = WithMetadata,
                                 !.usage = Sum(Used)]
      BY <1>8, <2>3 DEF Collect, Down, Used
    <3>2. \A i \in 1..Len(files) : i \in {j \in Items : item[j].text # Nothing}
      BY <1>1, <1>2, <2>1 DEF ItemOK
    <3>3. /\ WithText = [i \in 1..Len(files) |-> i]
          /\ WithMetadata = [i \in 1..Len(files) |-> i]
      BY <1>2, <3>2, AllInOrder DEF WithText, WithMetadata
    <3>4. Sum(Used) \in Nat
      <4>1. PICK s : Sums(Len(files), Used, s) /\ Sum(Used) = s[Len(files)]
        BY <1>2, SumIs
      <4> QED
        BY <1>2, <4>1 DEF Sums
    <3>5. Sum(Down) \in Nat /\ MaxTotal \in Nat
      <4>1. Down \in [1..Len(files) -> Nat]
        BY <1>1, FilesAre
      <4>2. PICK s : Sums(Len(files), Down, s) /\ Sum(Down) = s[Len(files)]
        BY <1>2, <4>1, SumIs
      <4> QED
        BY <1>2, <4>2, AttachmentsAssumption DEF Sums, AttachmentsAssumption
    <3>6. Sum(Used) <= spent.files /\ Sum(Down) <= MaxTotal
      BY <1>1, <2>3, <3>5 DEF Paid
    <3>7. /\ reply'.state = "done" /\ reply'.texts = WithText /\ reply'.metadata = WithMetadata
          /\ reply'.usage = Sum(Used) /\ reply'.billed = reply.billed /\ DOMAIN reply' = DOMAIN reply
      BY <1>4, <3>1
    <3> QED
      BY <1>4, <1>5, <1>6, <2>1, <3>3, <3>4, <3>6, <3>7
  <2> QED
    BY <2>2, <2>3
<1>9. CASE Deduct
  <2>1. PICK n \in {reply.usage, reply.billed} : reply' = [reply EXCEPT !.state = "sent", !.billed = n]
    <3>1. \/ reply' = [reply EXCEPT !.state = "sent", !.billed = reply.usage]
          \/ reply' = [reply EXCEPT !.state = "sent"]
      BY <1>9 DEF Deduct
    <3>2. [reply EXCEPT !.state = "sent"] = [reply EXCEPT !.state = "sent", !.billed = reply.billed]
      BY <1>4
    <3> QED
      BY <3>1, <3>2
  <2>2. reply.state = "done"
    BY <1>9 DEF Deduct
  <2>3. /\ reply.texts = [i \in 1..Len(files) |-> i] /\ reply.metadata = reply.texts
        /\ Sum(Down) <= MaxTotal
    BY <1>1, <2>2 DEF Collected
  <2>4. /\ reply'.state = "sent" /\ reply'.texts = reply.texts /\ reply'.metadata = reply.metadata
        /\ reply'.usage = reply.usage /\ reply'.billed = n /\ DOMAIN reply' = DOMAIN reply
    BY <1>4, <2>1
  <2> QED
    BY <1>4, <1>5, <1>6, <2>2, <2>3, <2>4
<1> QED
  BY <1>7, <1>8, <1>9

(* A step of the tool, which writes to the path of its own file only.        *)
LEMMA ToolStep ==
  ASSUME NamesDiffer, FilesInv, NEW r \in Uses, Turn(r), reply.state = "sent",
         NEW n \in Nat, spent' = [spent EXCEPT !.tool = @ + n],
         sandbox' = sandbox \/ sandbox' = [sandbox EXCEPT ![Dest(r.file)] = {0}],
         r.pc \in {"head", "pass", "load"} => r.loads = 0,
         r.pc \in {"head", "pass"} => r.calls = 0,
         r.pc \in {"load", "ask"} => r.calls <= 1,
         r.pc \in {"ask", "copy", "end"} => r.loads <= 1 /\ r.calls <= 2 /\ r.text # Nothing,
         r.pc # "end" => r.path = {},
         \A p \in r.path : p = Dest(r.file) /\ sandbox'[p] = {0}
  PROVE  FilesInv'
<1>1. /\ Typed /\ Paid /\ Collected /\ UseOK /\ \A i \in Items : ItemOK(i)
      /\ tool' = r /\ UNCHANGED <<files, item, reply>>
  BY DEF FilesInv, Turn
<1>2. /\ spent \in [files : Nat, tool : Nat] /\ sandbox \in [Paths -> SUBSET Nat]
      /\ r.file \in Named
  BY <1>1 DEF Typed, Uses
<1>3. spent' \in [files : Nat, tool : Nat] /\ spent'.files = spent.files
  BY <1>2
<1>4. sandbox' \in [Paths -> SUBSET Nat] /\ \A p \in Paths : p # Dest(r.file) => sandbox'[p] = sandbox[p]
  BY <1>2
<1>5. \A j \in Items : \A p \in Own(j) : sandbox'[p] = sandbox[p]
  BY <1>1, <1>2, <1>4, Apart, FilesAre
<1>6. /\ \A j \in Items' : ItemOK(j)'
      /\ Sum(Used)' = Sum(Used) /\ Sum(Down)' = Sum(Down) /\ Items' = Items
  BY <1>1, <1>3, <1>5, FilesStay
<1>7. Typed'
  BY <1>1, <1>3, <1>4, <1>6 DEF Typed
<1>8. Paid' /\ Collected'
  BY <1>1, <1>3, <1>6 DEF Paid, Collected
<1>9. UseOK'
  BY <1>1 DEF UseOK
<1> QED
  BY <1>6, <1>7, <1>8, <1>9 DEF FilesInv

(* The tool while it is at work.                                            *)
LEMMA AtWork ==
  ASSUME FilesInv, tool.pc \in {"head", "pass", "load", "ask", "copy"}
  PROVE  /\ tool \in Uses /\ UseOK /\ tool # NoTool /\ reply.state = "sent" /\ tool.path = {}
         /\ tool.loads \in Nat /\ tool.calls \in Nat /\ tool.file \in Named
         /\ tool.copy \in BOOLEAN /\ tool.text \in Texts
         /\ spent \in [files : Nat, tool : Nat] /\ spent = [spent EXCEPT !.tool = @ + 0]
         /\ 0 \in Nat /\ 1 \in Nat
<1>1. tool # NoTool
  BY DEF NoTool
<1>2. tool \in Uses /\ UseOK /\ spent \in [files : Nat, tool : Nat]
  BY <1>1 DEF FilesInv, Typed
<1>3. reply.state = "sent" /\ tool.path = {}
  BY <1>1, <1>2 DEF UseOK
<1> QED
  BY <1>1, <1>2, <1>3 DEF Uses

(* What every step of a tool at work that uploads nothing comes to.         *)
LEMMA WorkStep ==
  ASSUME NamesDiffer, FilesInv, tool.pc \in {"head", "pass", "load", "ask", "copy"},
         NEW n \in Nat, spent' = [spent EXCEPT !.tool = @ + n], UNCHANGED sandbox,
         NEW to \in {"head", "pass", "load", "ask", "copy", "end"}, NEW text \in Texts,
         NEW l \in Nat, NEW c \in Nat,
         Turn([tool EXCEPT !.pc = to, !.text = text, !.loads = l, !.calls = c]),
         to \in {"head", "pass", "load"} => l = 0,
         to \in {"head", "pass"} => c = 0,
         to \in {"load", "ask"} => c <= 1,
         to \in {"ask", "copy", "end"} => l <= 1 /\ c <= 2 /\ text # Nothing
  PROVE  FilesInv'
<1> DEFINE r == [tool EXCEPT !.pc = to, !.text = text, !.loads = l, !.calls = c]
<1>1. tool \in Uses /\ reply.state = "sent" /\ tool.path = {}
  BY AtWork
<1>2. /\ r \in Uses /\ r.pc = to /\ r.text = text /\ r.loads = l /\ r.calls = c /\ r.path = {}
  BY <1>1 DEF Uses
<1>3. Turn(r)
  OBVIOUS
<1> HIDE DEF r
<1> QED
  BY <1>1, <1>2, <1>3, ToolStep

LEMMA InvokeStep ==
  ASSUME NamesDiffer, FilesInv, Invoke
  PROVE  FilesInv'
<1>1. reply.state = "sent" /\ UNCHANGED <<sandbox, spent>> /\ spent \in [files : Nat, tool : Nat]
  BY DEF Invoke, FilesInv, Typed
<1>2. PICK f \in Named, copy \in BOOLEAN :
        Turn([pc |-> Route(f, copy), file |-> f, copy |-> copy, loads |-> 0, calls |-> 0,
              text |-> Nothing, path |-> {}])
  BY DEF Invoke
<1>3. Route(f, copy) \in {"head", "pass", "load"}
  BY DEF Route
<1>4. PICK l \in Nat : l = 0
  OBVIOUS
<1>5. PICK to \in {"head", "pass", "load"} : to = Route(f, copy)
  BY <1>3
<1> DEFINE r == [pc |-> to, file |-> f, copy |-> copy, loads |-> l, calls |-> l,
                 text |-> Nothing, path |-> {}]
<1>6. Turn(r)
  BY <1>2, <1>4, <1>5
<1>7. /\ r \in Uses /\ r.pc \in {"head", "pass", "load"} /\ r.loads = l /\ r.calls = l /\ r.path = {}
  BY <1>5 DEF Uses, Texts
<1>8. spent' = [spent EXCEPT !.tool = @ + 0] /\ 0 \in Nat /\ sandbox' = sandbox
  BY <1>1
<1>9. r.loads = 0 /\ r.calls = 0 /\ r.calls <= 1
  BY <1>4, <1>7
<1> HIDE DEF r
<1>10. /\ r.pc \notin {"ask", "copy", "end"} /\ \A p \in r.path : p = Dest(r.file) /\ sandbox'[p] = {0}
  BY <1>7
<1> QED
  BY <1>1, <1>6, <1>7, <1>8, <1>9, <1>10, ToolStep

LEMMA FindTypeStep ==
  ASSUME NamesDiffer, FilesInv, FindType
  PROVE  FilesInv'
<1>1. tool.pc = "head" /\ UNCHANGED <<sandbox, spent>>
  BY DEF FindType
<1>2. /\ tool \in Uses /\ tool.loads = 0 /\ tool.calls = 0 /\ tool.text \in Texts
      /\ tool.loads \in Nat /\ tool.calls \in Nat
      /\ spent' = [spent EXCEPT !.tool = @ + 0] /\ 0 \in Nat
  BY <1>1, AtWork DEF UseOK
<1>3. PICK to \in {"load", "pass"} : Turn([tool EXCEPT !.pc = to])
  BY DEF FindType
<1>4. [tool EXCEPT !.pc = to]
        = [tool EXCEPT !.pc = to, !.text = tool.text, !.loads = tool.loads, !.calls = tool.calls]
  BY <1>2 DEF Uses
<1>5. Turn([tool EXCEPT !.pc = to, !.text = tool.text, !.loads = tool.loads, !.calls = tool.calls])
  BY <1>3, <1>4
<1>6. tool.calls <= 1
  BY <1>2
<1> QED
  BY <1>1, <1>2, <1>5, <1>6, WorkStep

LEMMA TryUrlStep ==
  ASSUME NamesDiffer, FilesInv, TryUrlPassthrough
  PROVE  FilesInv'
<1>1. tool.pc = "pass" /\ UNCHANGED sandbox
  BY DEF TryUrlPassthrough
<1>2. /\ tool \in Uses /\ tool.loads = 0 /\ tool.calls = 0 /\ tool.text \in Texts
      /\ tool.loads \in Nat /\ tool.calls \in Nat
  BY <1>1, AtWork DEF UseOK
<1>3. PICK n \in {0, 1} : spent' = [spent EXCEPT !.tool = @ + n]
  BY DEF TryUrlPassthrough, Charge
<1>4. PICK c \in Nat : c = tool.calls + 1
  BY <1>2
<1>5. n \in Nat /\ c <= 1 /\ c <= 2 /\ tool.loads <= 1
  BY <1>2, <1>3, <1>4
<1>6. CASE Turn([tool EXCEPT !.pc = "end", !.text = "content", !.calls = @ + 1])
  <2>1. [tool EXCEPT !.pc = "end", !.text = "content", !.calls = @ + 1]
          = [tool EXCEPT !.pc = "end", !.text = "content", !.loads = tool.loads, !.calls = c]
    BY <1>2, <1>4 DEF Uses
  <2>2. Turn([tool EXCEPT !.pc = "end", !.text = "content", !.loads = tool.loads, !.calls = c])
    BY <1>6, <2>1
  <2>3. "content" \in Texts /\ "content" # Nothing
    BY DEF Texts, Nothing
  <2> QED
    BY <1>1, <1>2, <1>3, <1>5, <2>2, <2>3, WorkStep
<1>7. CASE Turn([tool EXCEPT !.pc = "load", !.calls = @ + 1])
  <2>1. [tool EXCEPT !.pc = "load", !.calls = @ + 1]
          = [tool EXCEPT !.pc = "load", !.text = tool.text, !.loads = tool.loads, !.calls = c]
    BY <1>2, <1>4 DEF Uses
  <2>2. Turn([tool EXCEPT !.pc = "load", !.text = tool.text, !.loads = tool.loads, !.calls = c])
    BY <1>7, <2>1
  <2> QED
    BY <1>1, <1>2, <1>3, <1>5, <2>2, WorkStep
<1> QED
  BY <1>6, <1>7 DEF TryUrlPassthrough

(* The tool gives up: nothing is read, charged or uploaded any more.         *)
LEMMA SayStep ==
  ASSUME NamesDiffer, FilesInv, tool.pc \in {"load", "ask", "copy"},
         NEW text \in Texts, text # Nothing, Say(text), UNCHANGED <<sandbox, spent>>
  PROVE  FilesInv'
<1>1. /\ tool \in Uses /\ tool.loads <= 1 /\ tool.calls <= 2
      /\ tool.loads \in Nat /\ tool.calls \in Nat
      /\ spent' = [spent EXCEPT !.tool = @ + 0] /\ 0 \in Nat
  BY AtWork DEF UseOK
<1>2. [tool EXCEPT !.pc = "end", !.text = text]
        = [tool EXCEPT !.pc = "end", !.text = text, !.loads = tool.loads, !.calls = tool.calls]
  BY <1>1 DEF Uses
<1>3. Turn([tool EXCEPT !.pc = "end", !.text = text, !.loads = tool.loads, !.calls = tool.calls])
  BY <1>2 DEF Say
<1> QED
  BY <1>1, <1>3, WorkStep

LEMMA DownloadStep ==
  ASSUME NamesDiffer, FilesInv, DownloadAndProcess
  PROVE  FilesInv'
<1>1. tool.pc = "load" /\ UNCHANGED <<sandbox, spent>>
  BY DEF DownloadAndProcess
<1>2. /\ tool \in Uses /\ tool.loads = 0 /\ tool.calls <= 1
      /\ tool.loads \in Nat /\ tool.calls \in Nat
      /\ spent' = [spent EXCEPT !.tool = @ + 0] /\ 0 \in Nat
  BY <1>1, AtWork DEF UseOK
<1>3. "error" \in Texts /\ "error" # Nothing
  BY DEF Texts, Nothing
<1>4. CASE Say("error")
  BY <1>1, <1>3, <1>4, SayStep
<1>5. ASSUME NEW to \in {"ask", "copy", "end"}, NEW text \in {"unsupported", "content"},
             Turn([tool EXCEPT !.loads = @ + 1, !.text = text, !.pc = to])
      PROVE  FilesInv'
  <2>1. PICK l \in Nat : l = tool.loads + 1
    BY <1>2
  <2>2. [tool EXCEPT !.loads = @ + 1, !.text = text, !.pc = to]
          = [tool EXCEPT !.pc = to, !.text = text, !.loads = l, !.calls = tool.calls]
    BY <1>2, <2>1 DEF Uses
  <2>3. Turn([tool EXCEPT !.pc = to, !.text = text, !.loads = l, !.calls = tool.calls])
    BY <1>5, <2>2
  <2>4. l <= 1 /\ tool.calls <= 2 /\ text \in Texts /\ text # Nothing
    BY <1>2, <2>1 DEF Texts, Nothing
  <2> QED
    BY <1>1, <1>2, <2>3, <2>4, WorkStep
<1>6. \/ Say("error")
      \/ \E to \in {"ask", "copy", "end"}, text \in {"unsupported", "content"} :
           Turn([tool EXCEPT !.loads = @ + 1, !.text = text, !.pc = to])
  <2>1. CASE ~Say("error")
    <3> DEFINE got == [tool EXCEPT !.loads = @ + 1]
               to == IF tool.copy THEN "copy" ELSE "end"
    <3>1. PICK b \in Download(tool.file.source) :
            \E http \in IF tool.file.source = "http" THEN Kinds \cup {Nothing} ELSE {Nothing} :
              CASE b.size > MaxFile -> Say("error")
                [] Resolved(tool.file, b, http) = Nothing ->
                     Turn([got EXCEPT !.text = "unsupported", !.pc = to])
                [] Resolved(tool.file, b, http) # Nothing
                   /\ ~VerifyMagicBytes(b, Resolved(tool.file, b, http), tool.file.plain) -> Say("error")
                [] OTHER -> \E r \in Reader(Resolved(tool.file, b, http), tool.file.plain) :
                     Turn([got EXCEPT !.text = "content", !.pc = IF r = "ai" THEN "ask" ELSE to])
      BY <2>1, Zenon DEF DownloadAndProcess
    <3>2. \A x : \A text : [got EXCEPT !.text = text, !.pc = x]
                            = [tool EXCEPT !.loads = @ + 1, !.text = text, !.pc = x]
      BY <1>2 DEF Uses
    <3>3. to \in {"copy", "end"}
      OBVIOUS
    <3> HIDE DEF got, to
    <3>4. \/ Turn([got EXCEPT !.text = "unsupported", !.pc = to])
          \/ \E x \in {"ask", to} : Turn([got EXCEPT !.text = "content", !.pc = x])
      <4>1. PICK http : \/ Turn([got EXCEPT !.text = "unsupported", !.pc = to])
                        \/ \E r \in Reader(Resolved(tool.file, b, http), tool.file.plain) :
                             Turn([got EXCEPT !.text = "content", !.pc = IF r = "ai" THEN "ask" ELSE to])
        BY <2>1, <3>1
      <4> QED
        BY <4>1
    <3> QED
      BY <3>2, <3>3, <3>4
  <2> QED
    BY <2>1
<1> QED
  BY <1>4, <1>5, <1>6

LEMMA ToolAskStep ==
  ASSUME NamesDiffer, FilesInv, ToolAsk
  PROVE  FilesInv'
<1>1. tool.pc = "ask" /\ UNCHANGED sandbox
  BY DEF ToolAsk
<1>2. /\ tool \in Uses /\ tool.loads <= 1 /\ tool.calls <= 1 /\ tool.text # Nothing
      /\ tool.loads \in Nat /\ tool.calls \in Nat /\ tool.text \in Texts /\ 1 \in Nat
  BY <1>1, AtWork DEF UseOK
<1>3. CASE Say("error") /\ UNCHANGED spent
  <2>1. "error" \in Texts /\ "error" # Nothing
    BY DEF Texts, Nothing
  <2> QED
    BY <1>1, <1>3, <2>1, SayStep
<1>4. ASSUME Charge(1), NEW to \in {"copy", "end"}, Turn([tool EXCEPT !.calls = @ + 1, !.pc = to])
      PROVE  FilesInv'
  <2>1. PICK c \in Nat : c = tool.calls + 1
    BY <1>2
  <2>2. [tool EXCEPT !.calls = @ + 1, !.pc = to]
          = [tool EXCEPT !.pc = to, !.text = tool.text, !.loads = tool.loads, !.calls = c]
    BY <1>2, <2>1 DEF Uses
  <2>3. Turn([tool EXCEPT !.pc = to, !.text = tool.text, !.loads = tool.loads, !.calls = c])
    BY <1>4, <2>2
  <2>4. c <= 2 /\ spent' = [spent EXCEPT !.tool = @ + 1]
    BY <1>2, <1>4, <2>1 DEF Charge
  <2> QED
    BY <1>1, <1>2, <2>3, <2>4, WorkStep
<1>5. \/ Say("error") /\ UNCHANGED spent
      \/ /\ Charge(1)
         /\ \E to \in {"copy", "end"} : Turn([tool EXCEPT !.calls = @ + 1, !.pc = to])
  BY DEF ToolAsk
<1> QED
  BY <1>3, <1>4, <1>5

LEMMA ToolCopyStep ==
  ASSUME NamesDiffer, FilesInv, ToolCopy
  PROVE  FilesInv'
<1>1. tool.pc = "copy" /\ UNCHANGED spent
  BY DEF ToolCopy
<1>2. /\ tool \in Uses /\ tool.loads <= 1 /\ tool.calls <= 2 /\ tool.text # Nothing
      /\ tool.text \in Texts /\ reply.state = "sent" /\ tool.file \in Named
      /\ spent' = [spent EXCEPT !.tool = @ + 0] /\ 0 \in Nat
  BY <1>1, AtWork DEF UseOK
<1>3. CASE Say(tool.text) /\ UNCHANGED sandbox
  BY <1>1, <1>2, <1>3, SayStep
<1>4. CASE /\ sandbox' = [sandbox EXCEPT ![Dest(tool.file)] = {0}]
           /\ Turn([tool EXCEPT !.pc = "end", !.path = {Dest(tool.file)}])
  <2> DEFINE r == [tool EXCEPT !.pc = "end", !.path = {Dest(tool.file)}]
  <2>1. Dest(tool.file) \in Paths /\ sandbox \in [Paths -> SUBSET Nat]
    BY <1>2 DEF Paths, FilesInv, Typed
  <2>2. /\ r \in Uses /\ r.pc = "end" /\ r.loads = tool.loads /\ r.calls = tool.calls
        /\ r.text = tool.text /\ r.file = tool.file /\ r.path = {Dest(tool.file)}
    BY <1>2, <2>1 DEF Uses
  <2>3. Turn(r)
    BY <1>4
  <2> HIDE DEF r
  <2>4. \A p \in r.path : p = Dest(r.file) /\ sandbox'[p] = {0}
    BY <1>4, <2>1, <2>2
  <2>5. /\ sandbox' = [sandbox EXCEPT ![Dest(r.file)] = {0}]
        /\ r.loads <= 1 /\ r.calls <= 2 /\ r.text # Nothing
    BY <1>2, <1>4, <2>2
  <2> QED
    BY <1>2, <2>2, <2>3, <2>4, <2>5, ToolStep
<1> QED
  BY <1>3, <1>4 DEF ToolCopy

-----------------------------------------------------------------------------

-----------------------------------------------------------------------------
(* The inductive invariant of the files of a message, and what it says.      *)

LEMMA FilesInit ==
  ASSUME Init
  PROVE  FilesInv
<1>1. /\ files \in Uploads /\ item = [i \in Items |-> Started] /\ reply = NoReply
      /\ tool = NoTool /\ sandbox = [p \in Paths |-> {}] /\ spent = [files |-> 0, tool |-> 0]
  BY DEF Init
<1>2. Started \in Results
  <2>1. MaxFile \in Nat
    BY AttachmentsAssumption DEF AttachmentsAssumption
  <2>2. Started.down = 0 /\ Started.usage = 0 /\ Started.pc = "check" /\ Started.text = Nothing
        /\ Started.path = {} /\ Started.analysis = {}
    BY Zenon DEF Started
  <2>3. Started = [Started EXCEPT !.pc = Started.pc]
        /\ DOMAIN Started = {"pc", "down", "text", "usage", "path", "analysis"}
    BY Zenon DEF Started
  <2>4. 0 \in 0..MaxFile /\ 0 \in 0..1 /\ Nothing \in Texts
    BY <2>1 DEF Texts
  <2> QED
    BY <2>2, <2>3, <2>4 DEF Results
<1>3. Typed
  <2>1. item \in [Items -> Results]
    BY <1>1, <1>2
  <2>2. /\ reply.state = "idle" /\ DOMAIN reply = DOMAIN NoReply
        /\ reply.usage \in Nat /\ reply.billed \in Nat
    BY <1>1 DEF NoReply
  <2> QED
    BY <1>1, <2>1, <2>2 DEF Typed
<1>4. \A i \in Items : item[i] = Started
  BY <1>1
<1>5. Started.usage = 0 /\ Started.pc = "check" /\ Started.path \cup Started.analysis = {}
  BY Zenon DEF Started
<1>6. \A i \in Items : ItemOK(i)
  BY <1>4, <1>5 DEF ItemOK, Told
<1>7. Sum(Used) = 0
  <2> DEFINE n == Len(files)
  <2>1. n \in Nat /\ Items = 1..n /\ Used \in [1..n -> Nat]
    BY <1>3, FilesAre
  <2>2. PICK s : Sums(n, Used, s) /\ Sum(Used) = s[n]
    BY <2>1, SumIs
  <2>3. \A k \in 1..n : Used[k] = 0
    BY <1>4, <1>5, <2>1 DEF Used
  <2> HIDE DEF n
  <2> DEFINE S == {k \in 0..n : s[k] = 0}
  <2>4. 0 \in S
    BY <2>1, <2>2 DEF Sums
  <2>5. \A k \in 1..n : k - 1 \in S => k \in S
    BY <2>1, <2>2, <2>3 DEF Sums
  <2> HIDE DEF S
  <2>6. n \in S
    <3>1. \A k \in 0..n : k \in S
      BY <2>1, <2>4, <2>5, Upwards
    <3> QED
      BY <2>1, <3>1
  <2> QED
    BY <2>2, <2>6 DEF S
<1>8. Paid
  BY <1>1, <1>7 DEF Paid, NoReply
<1>9. Collected /\ UseOK
  BY <1>1 DEF Collected, UseOK, NoReply
<1> QED
  BY <1>3, <1>6, <1>8, <1>9 DEF FilesInv

LEMMA FilesNext ==
  ASSUME NamesDiffer, FilesInv, [Next]_fileVars
  PROVE  FilesInv'
<1>1. CASE UNCHANGED fileVars
  <2>1. /\ UNCHANGED <<files, item, reply, tool, sandbox, spent>>
    BY <1>1 DEF fileVars
  <2>2. /\ \A j \in Items' : ItemOK(j)'
        /\ Sum(Used)' = Sum(Used) /\ Sum(Down)' = Sum(Down) /\ Items' = Items
    BY <2>1, FilesStay
  <2>3. Typed' /\ Paid' /\ Collected' /\ UseOK'
    BY <2>1, <2>2 DEF FilesInv, Typed, Paid, Collected, UseOK
  <2> QED
    BY <2>2, <2>3 DEF FilesInv
<1>2. CASE Next
  <2>1. ASSUME NEW i \in Items,
               Validate(i) \/ PassUrl(i) \/ Load(i) \/ Ask(i) \/ Copy(i) \/ Note(i)
        PROVE  FilesInv'
    BY <2>1, ValidateStep, PassUrlStep, LoadStep, AskStep, CopyStep
  <2> QED
    BY <1>2, <2>1, ReplyStep, InvokeStep, FindTypeStep, TryUrlStep, DownloadStep,
       ToolAskStep, ToolCopyStep DEF Next
<1> QED
  BY <1>1, <1>2

LEMMA FilesInvReads == FilesInv => FilesAreRead
<1> SUFFICES ASSUME FilesInv
             PROVE  FilesAreRead
  OBVIOUS
<1>1. /\ Typed /\ Paid /\ Collected /\ UseOK /\ \A i \in Items : ItemOK(i)
      /\ \A i \in Items : item[i] \in Results
  BY FilesAre DEF FilesInv
<1>2. tool # NoTool => tool \in Uses
  BY <1>1 DEF Typed
<1>3. TypeOK
  <2>1. \A i \in Items :
          /\ item[i].pc \in {"check", "pass", "load", "ask", "copy", "note", "done"}
          /\ item[i].down \in 0..MaxFile /\ item[i].usage \in 0..1
          /\ item[i].text \in {Nothing, "error", "unsupported", "content"}
    BY <1>1 DEF Results, Texts
  <2>2. tool.pc \in {"idle", "head", "pass", "load", "ask", "copy", "end"}
    <3>1. CASE tool = NoTool
      BY <3>1 DEF NoTool
    <3>2. CASE tool \in Uses
      BY <3>2 DEF Uses
    <3> QED
      BY <1>2, <3>1, <3>2
  <2> QED
    BY <1>1, <2>1, <2>2 DEF TypeOK, Typed
<1>4. TextsArePaired
  BY <1>1 DEF TextsArePaired, Collected
<1>5. WithinBudget
  <2>1. MaxFile \in Nat
    BY AttachmentsAssumption DEF AttachmentsAssumption
  <2>2. \A i \in Items : item[i].down <= MaxFile
    BY <1>1, <2>1 DEF Results
  <2>3. Down = [i \in Items |-> item[i].down]
    BY DEF Down
  <2>4. reply.state \in {"done", "sent"} => Sum([i \in Items |-> item[i].down]) <= MaxTotal
    BY <1>1, <2>3 DEF Collected
  <2> QED
    BY <2>2, <2>4 DEF WithinBudget
<1>6. PathsHold
  BY <1>1 DEF PathsHold, ItemOK, Told, UseOK
<1>7. ToolIsFrugal
  <2> SUFFICES ASSUME tool # NoTool
               PROVE  tool.loads <= 1 /\ tool.calls <= 2 /\ (tool.pc = "end" => tool.text # Nothing)
    BY DEF ToolIsFrugal
  <2>1. /\ tool.pc \in {"head", "pass", "load", "ask", "copy", "end"}
        /\ tool.loads \in Nat /\ tool.calls \in Nat
    BY <1>2 DEF Uses
  <2> QED
    BY <1>1, <2>1 DEF UseOK
<1>8. BilledWasSpent
  BY <1>1 DEF BilledWasSpent, Paid
<1> QED
  BY <1>3, <1>4, <1>5, <1>6, <1>7, <1>8 DEF FilesAreRead

(* Of any message, with any files whose names and stems differ in the sandbox, *)
(* read in any order beside the process_file tool: every text is shown under    *)
(* its own file, what is read stays within the limits, every path the model is   *)
(* told holds what it is told to hold, the tool downloads once and asks the      *)
(* model twice at most, and no more is billed than was spent                     *)
(* (processAttachments and process_file of file-processing.service.ts).          *)
THEOREM AttachmentsAreRead ==
  ASSUME NamesDiffer
  PROVE  Spec => []FilesAreRead
<1>1. Init => FilesInv
  BY FilesInit
<1>2. FilesInv /\ [Next]_fileVars => FilesInv'
  BY FilesNext
<1>3. FilesInv => FilesAreRead
  BY FilesInvReads
<1> QED
  BY <1>1, <1>2, <1>3, PTL DEF Spec
==============================================================================
