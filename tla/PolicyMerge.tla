---------------------------- MODULE PolicyMerge -----------------------------
(***************************************************************************)
(* MergeAssignedPayloads: how the payloads of the profiles assigned to a       *)
(* device become one, "using restrictive-wins semantics".                    *)
(*                                                                         *)
(* A JSON value is its kind and a number: a Boolean 0 or 1, a number or a     *)
(* string its rank.  An array is the sequence of its elements, strings from   *)
(* 1 to 4 and numbers from 5, the order of their JSON.  A path is the          *)
(* sequence of its keys, a payload (an object) the function from the paths of  *)
(* its leaves to their values; an object is a leaf only when it is empty.      *)
(***************************************************************************)
EXTENDS Integers, FiniteSets, SequencesExt

Bool(b) == [k |-> "bool", v |-> b]
Num(n) == [k |-> "num", v |-> n]
Str(n) == [k |-> "str", v |-> n]
Null == [k |-> "null", v |-> 0]
Obj == [k |-> "obj", v |-> 0]
Arr(s) == [k |-> "arr", v |-> s]

\* What the last key of a path says of the merge: "_disabled", "_blocked" and "_denied" end a
\* "neg" leaf, "min_" is part of a "min" leaf.  One key stands for each.
LeafKinds == {"neg", "min", "plain"}
leafKind(path) ==
  CASE Last(path) = "camera_disabled" -> "neg" [] Last(path) = "min_length" -> "min" [] OTHER -> "plain"

\* The order of JSON texts by their first byte: " digit [ f n t {
first(x) ==
  CASE x.k = "str" -> 0 [] x.k = "num" -> 1 [] x.k = "arr" -> 2
    [] x.k = "bool" -> IF x.v = 0 THEN 3 ELSE 5 [] x.k = "null" -> 4 [] x.k = "obj" -> 6

\* Arrays compare at the first difference; where one ends the other goes on with a comma, which
\* sorts before the bracket.
arrayLeq(s, t) ==
  \/ s = t
  \/ \E i \in 1..Len(s) :
       /\ \A j \in 1..(i - 1) : j <= Len(t) /\ s[j] = t[j]
       /\ i > Len(t) \/ s[i] < t[i]

jsonLeq(a, b) ==
  IF first(a) # first(b) THEN first(a) < first(b)
  ELSE IF a.k = "arr" THEN arrayLeq(a.v, b.v) ELSE a.v <= b.v

-----------------------------------------------------------------------------

vals(parts) == {parts[i].v : i \in DOMAIN parts}
least(S) == CHOOSE x \in S : \A y \in S : x <= y
greatest(S) == CHOOSE x \in S : \A y \in S : y <= x

\* Mutant: the Boolean that restricts least is taken.
mergeBoolLax(leaf, S) == Bool(IF leaf = "neg" THEN least(S) ELSE greatest(S))

\* One Boolean that restricts is enough.
mergeBoolRestrictive(leaf, S) == Bool(IF leaf = "neg" THEN greatest(S) ELSE least(S))
mergeNumericRestrictive(leaf, S) == Num(IF leaf = "min" THEN greatest(S) ELSE least(S))
mergeStringRestrictive(S) == Str(least(S))

\* Two values: the same kind of scalar is merged, anything else is settled by its JSON.
restrictivePickScalars(leaf, a, b) ==
  CASE a.k = b.k /\ a.k = "bool" -> mergeBoolRestrictive(leaf, {a.v, b.v})
    [] a.k = b.k /\ a.k = "num"  -> mergeNumericRestrictive(leaf, {a.v, b.v})
    [] a.k = b.k /\ a.k = "str"  -> mergeStringRestrictive({a.v, b.v})
    [] OTHER -> IF jsonLeq(a, b) THEN a ELSE b

\* The values one after the other, in the order of the profiles
restrictivePickMixed(leaf, parts) ==
  LET out[i \in 1..Len(parts)] ==
        IF i = 1 THEN parts[1] ELSE restrictivePickScalars(leaf, out[i - 1], parts[i])
  IN  out[Len(parts)]

isString(e) == e < 5
sorted(S) == SetToSortSeq(S, <)
allStrings(x) == \A i \in DOMAIN x.v : isString(x.v[i])

\* Arrays of strings are united.  The loop ends at the first array with another element, so
\* that arrays after it are not compared with the first one.
mergeArrayRestrictive(parts) ==
  LET bad == {i \in DOMAIN parts : ~allStrings(parts[i])}
      seen == IF bad = {} THEN Len(parts) ELSE least(bad)
      conflict == \E i \in 1..seen : parts[i] # parts[1]
      union == UNION {{parts[i].v[j] : j \in DOMAIN parts[i].v} : i \in DOMAIN parts}
  IN  [conflict |-> conflict,
       val |-> IF ~conflict THEN parts[1]
               ELSE IF bad = {} THEN Arr(sorted(union))
               ELSE restrictivePickMixed("plain", parts)]

kinds(parts) == {parts[i].k : i \in DOMAIN parts}

\* mergeContributions: values of one kind by the rule of the kind, others by their JSON, which
\* is always a conflict.
mergeContributions(leaf, parts) ==
  LET k == parts[1].k  differ == Cardinality(vals(parts)) > 1 IN
  IF Len(parts) = 1 THEN [val |-> parts[1], conflict |-> FALSE]
  ELSE IF Cardinality(kinds(parts)) > 1 THEN [val |-> restrictivePickMixed(leaf, parts), conflict |-> TRUE]
  ELSE CASE k = "bool" -> [val |-> mergeBoolRestrictive(leaf, vals(parts)), conflict |-> differ]
         [] k = "num"  -> [val |-> mergeNumericRestrictive(leaf, vals(parts)), conflict |-> differ]
         [] k = "str"  -> [val |-> mergeStringRestrictive(vals(parts)), conflict |-> differ]
         [] k = "arr"  -> mergeArrayRestrictive(parts)
         [] OTHER -> [val |-> parts[1], conflict |-> FALSE]

\* flattenContributions: the values the payloads have at a path, in the order of the profiles
contributions(inputs, path) ==
  LET with == {i \in DOMAIN inputs : path \in DOMAIN inputs[i]}
      nth(j) == CHOOSE i \in with : Cardinality({h \in with : h <= i}) = j
  IN  [j \in 1..Cardinality(with) |-> inputs[nth(j)][path]]

\* unflattenLeaves writes the leaves in the order of their paths: a leaf in the place of an
\* object that another payload has is replaced by the object.
unflattenLeaves(leaves) ==
  [p \in {q \in DOMAIN leaves : ~\E r \in DOMAIN leaves : IsStrictPrefix(q, r)} |-> leaves[p]]

\* MergeAssignedPayloads: the effective payload and the profiles in conflict, by their places
\* in inputs
MergeAssignedPayloads(inputs) ==
  LET paths == UNION {DOMAIN inputs[i] : i \in DOMAIN inputs}
      merged(p) == mergeContributions(leafKind(p), contributions(inputs, p))
  IN  [payload |-> unflattenLeaves([p \in paths |-> merged(p).val]),
       conflicts |-> {i \in DOMAIN inputs : \E p \in DOMAIN inputs[i] : merged(p).conflict}]

-----------------------------------------------------------------------------

\* One setting of up to three profiles, in the order the query returned them; the query sorts
\* by name, which is not unique.
VARIABLES leaf, parts

mergeVars == <<leaf, parts>>

JsonValues == {Bool(0), Bool(1), Num(1), Num(2), Str(1), Str(2), Null, Obj} \cup
              {Arr(s) : s \in {<<>>, <<1>>, <<2>>, <<2, 1>>, <<5>>, <<6>>, <<1, 5>>}}

MergeInit == leaf \in LeafKinds /\ parts \in UNION {[1..n -> JsonValues] : n \in 1..3}

\* Which value is the strict one, independently of how values are merged: kinds have an order of
\* their own (null and Booleans share a place); a setting that disables is strict when true and a
\* minimum when large, any other setting when false, when small and when its text sorts first.
Weight(k) == CASE k = "str" -> 0 [] k = "num" -> 1 [] k = "arr" -> 2 [] k = "obj" -> 6 [] OTHER -> 3
Rising(l, k) == (l = "neg" /\ k = "bool") \/ (l = "min" /\ k = "num")

\* a is at least as strict as b at a leaf l.
Stricter(l, a, b) ==
  IF a.k # b.k THEN Weight(a.k) < Weight(b.k)
  ELSE IF a.k = "arr" THEN arrayLeq(a.v, b.v)
  ELSE IF Rising(l, a.k) THEN b.v <= a.v ELSE a.v <= b.v

\* What the merge should be, from the set of values alone: the strictest of them, except that
\* arrays that differ are united.
Expected(l, S) ==
  IF Cardinality(S) > 1 /\ \A x \in S : x.k = "arr"
  THEN Arr(sorted(UNION {{x.v[i] : i \in DOMAIN x.v} : x \in S}))
  ELSE CHOOSE x \in S : \A y \in S : Stricter(l, x, y)

\* The order of the profiles decides two things only: whether null stands before or after the
\* Booleans of a setting, and which array with a number in it comes first.
OrderMatters(p) ==
  \/ {"null", "bool"} \subseteq kinds(p)
  \/ kinds(p) = {"arr"} /\ \E i \in DOMAIN p : ~allStrings(p[i])

\* The values p at a leaf l merge into what the set of them calls for.
MergesAsSet(l, p) ==
  LET m == mergeContributions(l, p)  S == {p[i] : i \in DOMAIN p} IN
  m.val = Expected(l, S) /\ m.conflict = (Cardinality(S) > 1)

\* "merges multiple declarative profile payloads using restrictive-wins semantics": the merged
\* setting is as strict as the strictest profile, and disagreement is reported, in whatever
\* order the profiles come.
MergeIsRestrictive == OrderMatters(parts) \/ MergesAsSet(leaf, parts)
=============================================================================
