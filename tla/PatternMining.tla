----------------------------- MODULE PatternMining -----------------------------
(***************************************************************************)
(* The mining of frequent tool sequences                                   *)
(* (packages/middleware/src/crystallizer/pattern-mining.ts), for any       *)
(* sessions within the bounds.                                             *)
(***************************************************************************)
EXTENDS Naturals, Sequences, FiniteSets

CONSTANTS
  MinedTools,       \* names of tools
  MaxMined,         \* bound on the sessions
  MaxSessionCalls   \* bound on the calls of a session

ASSUME MiningAssumption == MaxMined \in Nat \ {0} /\ MaxSessionCalls \in Nat \ {0}

VARIABLES sequences, minSupport, minLength, maxLength, results, mined

miningVars == <<sequences, minSupport, minLength, maxLength, results, mined>>

ListsOf(S, least, most) == UNION {[1..n -> S] : n \in least..most}

MiningInit ==
  /\ sequences \in ListsOf(ListsOf(MinedTools, 0, MaxSessionCalls), 0, MaxMined)
  /\ minSupport \in 1..MaxMined
  /\ minLength \in 1..MaxSessionCalls /\ maxLength \in 1..MaxSessionCalls
  /\ results = {} /\ mined = FALSE

-----------------------------------------------------------------------------
(* A projected database has, for each session still in it, the calls left.  *)
Occurs(item, seq) == \E i \in DOMAIN seq : seq[i] = item

ItemCount(db, item) == Cardinality({i \in DOMAIN db : Occurs(item, db[i])})

FirstAt(seq, item) ==
  CHOOSE i \in DOMAIN seq : seq[i] = item /\ \A j \in DOMAIN seq : seq[j] = item => i <= j
CallsAfter(seq, i) == SubSeq(seq, i + 1, Len(seq))

ProjectFromLast(db, item) ==   \* mutant: the calls after the last occurrence
  LET LastAt(seq) ==
        CHOOSE i \in DOMAIN seq : seq[i] = item /\ \A j \in DOMAIN seq : seq[j] = item => j <= i
      left == {i \in DOMAIN db : Occurs(item, db[i]) /\ LastAt(db[i]) < Len(db[i])}
  IN  [i \in left |-> CallsAfter(db[i], LastAt(db[i]))]

(* projectDatabase: the calls after the first occurrence, if there are any. *)
projectDatabase(db, item) ==
  LET left == {i \in DOMAIN db : Occurs(item, db[i]) /\ FirstAt(db[i], item) < Len(db[i])}
  IN  [i \in left |-> CallsAfter(db[i], FirstAt(db[i], item))]

(* What one call of growPrefix for each of these prefixes grows them to; it *)
(* calls itself for what it finds.  The loop of mineFrequentSequences does  *)
(* the same for the empty prefix.                                           *)
growPrefix(prefixes, support) ==
  UNION {{[tools |-> Append(p.tools, item), support |-> ItemCount(p.db, item),
           db |-> projectDatabase(p.db, item)]
          : item \in {t \in MinedTools : ItemCount(p.db, t) >= support}}
         : p \in prefixes}

Unprefixed(db) == [tools |-> <<>>, support |-> Cardinality(DOMAIN db), db |-> db]

(* The prefixes of length n are found by n calls, one within the other.     *)
mineFrequentSequences(db, support, least, most) ==
  LET grown[n \in 0..most] ==
        IF n = 0 THEN {Unprefixed(db)} ELSE growPrefix(grown[n - 1], support)
  IN  IF DOMAIN db = {} \/ most < least THEN {}
      ELSE UNION {{[tools |-> p.tools, support |-> p.support] : p \in grown[n]}
                  : n \in least..most}

Mine ==
  /\ ~mined
  /\ mined' = TRUE
  /\ results' = mineFrequentSequences(sequences, minSupport, minLength, maxLength)
  /\ UNCHANGED <<sequences, minSupport, minLength, maxLength>>

MiningNext == Mine
MiningSpec == MiningInit /\ [][MiningNext]_miningVars

-----------------------------------------------------------------------------
(* containsSubsequence: the needle is matched greedily; ni[hi] is how much  *)
(* of it the first hi calls have matched.                                   *)
Matched(haystack, needle) ==
  LET ni[hi \in 0..Len(haystack)] ==
        IF hi = 0 THEN 0
        ELSE IF ni[hi - 1] < Len(needle) /\ haystack[hi] = needle[ni[hi - 1] + 1]
        THEN ni[hi - 1] + 1 ELSE ni[hi - 1]
  IN  ni[Len(haystack)]
containsSubsequence(haystack, needle) == Matched(haystack, needle) = Len(needle)

-----------------------------------------------------------------------------
(* The definition of a subsequence.                                         *)
IsSubsequence(needle, haystack) ==
  \E at \in [DOMAIN needle -> DOMAIN haystack] :
    /\ \A i, j \in DOMAIN needle : i < j => at[i] < at[j]
    /\ \A i \in DOMAIN needle : haystack[at[i]] = needle[i]

SessionsWith(pattern) == {i \in DOMAIN sequences : IsSubsequence(pattern, sequences[i])}

Frequent ==
  {p \in ListsOf(MinedTools, minLength, maxLength) :
     Cardinality(SessionsWith(p)) >= minSupport}

(* The variables keep their types; what is mined has an allowed length and  *)
(* an allowed number of sessions.                                           *)
MiningTypeOK ==
  /\ sequences \in ListsOf(ListsOf(MinedTools, 0, MaxSessionCalls), 0, MaxMined)
  /\ minSupport \in 1..MaxMined
  /\ minLength \in 1..MaxSessionCalls /\ maxLength \in 1..MaxSessionCalls
  /\ mined \in BOOLEAN
  /\ results \subseteq [tools : ListsOf(MinedTools, minLength, maxLength),
                        support : minSupport..MaxMined]

(* Projection and growth find what a look at all the sessions finds: every  *)
(* pattern of an allowed length that enough sessions contain, with their    *)
(* number; the greedy test that rates a pattern agrees with them.           *)
MinesTheFrequent ==
  mined =>
    /\ results = {[tools |-> p, support |-> Cardinality(SessionsWith(p))] : p \in Frequent}
    /\ \A p \in Frequent :
         {i \in DOMAIN sequences : containsSubsequence(sequences[i], p)} = SessionsWith(p)
================================================================================
