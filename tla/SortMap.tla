------------------------------ MODULE SortMap ------------------------------
(***************************************************************************)
(* src/sort.rs and src/map.rs: the heapsort by a 32-bit key and the map it *)
(* freezes a vector into.  Entries are records with the key in pid.        *)
(***************************************************************************)
EXTENDS Integers, Sequences, SequencesExt

(* Vectors are indexed from 0 in the source.                               *)
KeyOf(s, i) == s[i + 1].pid

SwapItems(s, i, j) ==
  [s EXCEPT ![i + 1] = s[j + 1], ![j + 1] = s[i + 1]]

(* sift_down, within the first n entries.  Mutant: only the left child.    *)
LeftChild(s, i, n) == 2 * i + 1
LargerChild(s, i, n) ==
  LET left == 2 * i + 1
      right == left + 1
  IN IF right < n /\ KeyOf(s, right) > KeyOf(s, left) THEN right ELSE left

sift_down(s, i, n) ==
  LET sift[w \in [at : Nat, s : [DOMAIN s -> Range(s)]]] ==
        IF 2 * w.at + 1 >= n THEN w.s
        ELSE LET c == LargerChild(w.s, w.at, n)
             IN IF KeyOf(w.s, w.at) >= KeyOf(w.s, c) THEN w.s
                ELSE sift[[at |-> c, s |-> SwapItems(w.s, w.at, c)]]
  IN sift[[at |-> i, s |-> s]]

(* sort_raw: heapify from the last parent, then move the root behind the   *)
(* shrinking heap.                                                         *)
Heapify(s) ==
  LET half == Len(s) \div 2
      heap[k \in 0 .. half] ==
        IF k = 0 THEN s ELSE sift_down(heap[k - 1], half - k, Len(s))
  IN heap[half]

sort_by_u32_key(s) ==
  LET len == Len(s)
      sorted[k \in 0 .. len - 1] ==
        IF k = 0 THEN Heapify(s)
        ELSE sift_down(SwapItems(sorted[k - 1], 0, len - k), 0, len - k)
  IN IF len < 2 THEN s ELSE sorted[len - 1]

(* dedup_in_place with freeze_map's closure: an entry with the key of the  *)
(* last keeper is merged into it.  The closures of both callers add up     *)
(* some fields, `added`.                                                   *)
Merged(a, b, added) ==
  [f \in DOMAIN a |-> IF f \in added THEN a[f] + b[f] ELSE a[f]]

KeepOrMerge(kept, e, added) ==
  IF kept # <<>> /\ kept[Len(kept)].pid = e.pid
    THEN [kept EXCEPT ![Len(kept)] = Merged(@, e, added)]
    ELSE Append(kept, e)

dedup_in_place(s, added) ==
  LET kept[n \in 0 .. Len(s)] == IF n = 0 THEN <<>> ELSE KeepOrMerge(kept[n - 1], s[n], added)
  IN kept[Len(s)]

freeze_map(s, added) == dedup_in_place(sort_by_u32_key(s), added)

(* Map::new's assertion: sorted by key, without duplicates.                *)
IsMap(s) == \A i \in 1 .. Len(s) - 1 : s[i].pid < s[i + 1].pid

(* Map::get, by binary search; the index from 1, or 0.                     *)
IndexOf(s, pid) ==
  LET find[r \in [lo : 0 .. Len(s), hi : 0 .. Len(s)]] ==
        IF r.lo >= r.hi THEN 0
        ELSE LET mid == (r.lo + r.hi) \div 2
             IN CASE KeyOf(s, mid) = pid -> mid + 1
                  [] KeyOf(s, mid) < pid -> find[[r EXCEPT !.lo = mid + 1]]
                  [] OTHER -> find[[r EXCEPT !.hi = mid]]
  IN find[[lo |-> 0, hi |-> Len(s)]]

(* A vector to which a loop pushes the entries of s at these indices.      *)
Pushed(s, indices) ==
  LET v[n \in 0 .. Len(s)] ==
        IF n = 0 THEN <<>> ELSE IF n \in indices THEN Append(v[n - 1], s[n]) ELSE v[n - 1]
  IN v[Len(s)]

(* The numbers that entries of one pid add up to, in a field.              *)
Total(c) ==
  LET sum[n \in 0 .. Len(c)] == IF n = 0 THEN 0 ELSE sum[n - 1] + c[n]
  IN sum[Len(c)]

SumFor(s, pid, field) ==
  Total([k \in DOMAIN s |-> IF s[k].pid = pid THEN s[k][field] ELSE 0])

============================================================================
