------------------------- MODULE MessageTableProofs -------------------------
(***************************************************************************)
(* Theorems about the tables that build fills, for every golden, every     *)
(* automaton and every order of the groups.                                *)
(***************************************************************************)
EXTENDS MessageTable, SequenceTheorems, FiniteSetTheorems, TLAPS

-----------------------------------------------------------------------------
(* Keys of stacks                                                          *)

LEMMA KeyFrames ==
  ASSUME NEW s \in Seq(Nat), s # <<>>, NEW d \in Nat \ {0}
  PROVE  /\ key_of(s, d) \in Seq(Nat)
         /\ Len(key_of(s, d)) = Shallower(d, Len(s))
         /\ Len(key_of(s, d)) \in 1..Len(s)
         /\ \A j \in 1..Len(key_of(s, d)) :
              key_of(s, d)[j] = s[Len(s) - Len(key_of(s, d)) + j]
<1> DEFINE l == Shallower(d, Len(s))
<1>1. l \in 1..Len(s) /\ l \in Nat /\ Len(s) \in Nat
  BY DEF Shallower
<1>2. \A i \in (Len(s) + 1 - l)..Len(s) : s[i] \in Nat
  BY <1>1
<1>3. /\ SubSeq(s, Len(s) + 1 - l, Len(s)) \in Seq(Nat)
      /\ Len(SubSeq(s, Len(s) + 1 - l, Len(s))) = l
      /\ \A i \in 1..l : SubSeq(s, Len(s) + 1 - l, Len(s))[i] = s[Len(s) - l + i]
  <2> DEFINE m == Len(s) + 1 - l
             e == Len(s)
  <2>1. m \in Int /\ e \in Int /\ \A i \in m..e : s[i] \in Nat
    BY <1>1, <1>2
  <2>2. m <= e /\ e - m + 1 = l /\ \A i \in 1..l : m + i - 1 = Len(s) - l + i
    BY <1>1
  <2> HIDE DEF l, m, e
  <2>3. /\ SubSeq(s, m, e) \in Seq(Nat)
        /\ Len(SubSeq(s, m, e)) = IF m <= e THEN e - m + 1 ELSE 0
        /\ \A i \in 1..(e - m + 1) : SubSeq(s, m, e)[i] = s[m + i - 1]
    BY <2>1, SubSeqProperties
  <2>4. /\ SubSeq(s, m, e) \in Seq(Nat)
        /\ Len(SubSeq(s, m, e)) = l
        /\ \A i \in 1..l : SubSeq(s, m, e)[i] = s[Len(s) - l + i]
    BY <2>2, <2>3
  <2> QED BY <2>4 DEF m, e
<1> QED BY <1>1, <1>3 DEF key_of

LEMMA DepthsRefine ==
  ASSUME NEW l \in Nat, NEW m \in Nat, NEW d \in Nat,
         Shallower(d + 1, l) = Shallower(d + 1, m)
  PROVE  Shallower(d, l) = Shallower(d, m) /\ Shallower(d, l) \in 0..Shallower(d + 1, l)
BY DEF Shallower

\* Stacks that share a key share every shallower one.
LEMMA KeyRefines ==
  ASSUME NEW s \in Seq(Nat), s # <<>>, NEW u \in Seq(Nat), u # <<>>, NEW d \in Nat \ {0}
  PROVE  key_of(s, d + 1) = key_of(u, d + 1) => key_of(s, d) = key_of(u, d)
<1>1. d + 1 \in Nat \ {0} /\ Len(s) \in Nat /\ Len(u) \in Nat
  OBVIOUS
<1>2. /\ Len(key_of(s, d + 1)) = Shallower(d + 1, Len(s))
      /\ \A j \in 1..Len(key_of(s, d + 1)) :
            key_of(s, d + 1)[j] = s[Len(s) - Len(key_of(s, d + 1)) + j]
  BY <1>1, KeyFrames
<1>3. /\ Len(key_of(u, d + 1)) = Shallower(d + 1, Len(u))
      /\ \A j \in 1..Len(key_of(u, d + 1)) :
            key_of(u, d + 1)[j] = u[Len(u) - Len(key_of(u, d + 1)) + j]
  BY <1>1, KeyFrames
<1>4. /\ key_of(s, d) \in Seq(Nat) /\ Len(key_of(s, d)) = Shallower(d, Len(s))
      /\ \A j \in 1..Len(key_of(s, d)) : key_of(s, d)[j] = s[Len(s) - Len(key_of(s, d)) + j]
  BY KeyFrames
<1>5. /\ key_of(u, d) \in Seq(Nat) /\ Len(key_of(u, d)) = Shallower(d, Len(u))
      /\ \A j \in 1..Len(key_of(u, d)) : key_of(u, d)[j] = u[Len(u) - Len(key_of(u, d)) + j]
  BY KeyFrames
<1> HAVE key_of(s, d + 1) = key_of(u, d + 1)
<1>6. /\ Len(key_of(s, d + 1)) = Shallower(d + 1, Len(u))
      /\ \A j \in 1..Len(key_of(s, d + 1)) :
            key_of(s, d + 1)[j] = u[Len(u) - Len(key_of(s, d + 1)) + j]
  BY <1>3, Zenon
<1> DEFINE a == Shallower(d + 1, Len(s))
           b == Shallower(d, Len(s))
<1>7. Shallower(d, Len(u)) = b /\ b \in 0..a /\ a \in Nat
  <2>1. Shallower(d + 1, Len(s)) = Shallower(d + 1, Len(u))
    BY <1>2, <1>6
  <2> QED BY <1>1, <2>1, DepthsRefine DEF Shallower
<1>8. /\ \A j \in 1..a : /\ key_of(s, d + 1)[j] = s[Len(s) - a + j]
                         /\ key_of(s, d + 1)[j] = u[Len(u) - a + j]
      /\ \A j \in 1..b : /\ key_of(s, d)[j] = s[Len(s) - b + j]
                         /\ key_of(u, d)[j] = u[Len(u) - b + j]
  BY <1>2, <1>4, <1>5, <1>6, <1>7
<1> HIDE DEF a, b
<1>9. \A j \in 1..b : key_of(s, d)[j] = key_of(u, d)[j]
  <2> TAKE j \in 1..b
  <2>1. /\ a - b + j \in 1..a
        /\ Len(s) - a + (a - b + j) = Len(s) - b + j
        /\ Len(u) - a + (a - b + j) = Len(u) - b + j
    BY <1>1, <1>7
  <2>2. /\ key_of(s, d + 1)[a - b + j] = s[Len(s) - a + (a - b + j)]
        /\ key_of(s, d + 1)[a - b + j] = u[Len(u) - a + (a - b + j)]
    BY <1>8, <2>1
  <2>3. key_of(s, d)[j] = s[Len(s) - b + j] /\ key_of(u, d)[j] = u[Len(u) - b + j]
    BY <1>8
  <2> QED BY <2>1, <2>2, <2>3
<1> QED BY <1>4, <1>5, <1>7, <1>9, SeqEqual DEF b

\* A stack that ends in a key of rooted stacks has that key: a key that reaches the
\* bottom of a stack is not the end of a longer one.
LEMMA SuffixHasKey ==
  ASSUME NEW s \in Stack, NEW u \in Stack, NEW d \in Nat \ {0}
  PROVE  Suffix(key_of(s, d), u) => key_of(u, d) = key_of(s, d)
<1>1. /\ s \in Seq(Nat) /\ s # <<>> /\ u \in Seq(Nat) /\ u # <<>>
      /\ \A j \in 1..Len(s) : s[j] = 0 <=> j = 1
      /\ \A j \in 1..Len(u) : u[j] = 0 <=> j = 1
  BY DEF Stack, Rooted
<1>2. /\ Len(key_of(s, d)) = Shallower(d, Len(s)) /\ Len(key_of(s, d)) \in 1..Len(s)
      /\ \A j \in 1..Len(key_of(s, d)) : key_of(s, d)[j] = s[Len(s) - Len(key_of(s, d)) + j]
  BY <1>1, KeyFrames
<1>3. /\ Len(s) \in Nat /\ Len(u) \in Nat /\ Len(key_of(s, d)) \in Nat \ {0}
      /\ Len(key_of(s, d)) = d \/ (Len(key_of(s, d)) = Len(s) /\ Len(s) < d)
  <2>1. Len(s) \in Nat /\ Len(u) \in Nat
    BY <1>1
  <2>2. /\ Shallower(d, Len(s)) = d \/ (Shallower(d, Len(s)) = Len(s) /\ Len(s) < d)
        /\ Len(s) > 0 => Shallower(d, Len(s)) \in Nat \ {0}
    BY <2>1 DEF Shallower
  <2> QED BY <1>2, <2>1, <2>2
<1>4. \A e \in Nat \ {0} : e <= Len(u) =>
        /\ Len(key_of(u, e)) = e
        /\ \A j \in 1..e : key_of(u, e)[j] = u[Len(u) - e + j]
  <2> TAKE e \in Nat \ {0}
  <2>1. /\ Len(key_of(u, e)) = Shallower(e, Len(u))
        /\ \A j \in 1..Len(key_of(u, e)) : key_of(u, e)[j] = u[Len(u) - Len(key_of(u, e)) + j]
    BY <1>1, KeyFrames
  <2>2. e <= Len(u) => Shallower(e, Len(u)) = e
    BY <1>3 DEF Shallower
  <2> QED BY <2>1, <2>2
<1> HAVE Suffix(key_of(s, d), u)
<1>5. CASE Len(key_of(s, d)) = d
  BY <1>5 DEF Suffix
<1>6. CASE Len(key_of(s, d)) = Len(s) /\ Len(s) < d
  <2>1. Len(s) <= Len(u) /\ key_of(s, d) = key_of(u, Len(s)) /\ Len(s) \in Nat \ {0}
    BY <1>3, <1>6 DEF Suffix
  <2>2. key_of(s, d)[1] = s[Len(s) - Len(s) + 1] /\ Len(s) - Len(s) + 1 = 1
    BY <1>2, <1>6, <2>1
  <2>3. key_of(s, d)[1] = u[Len(u) - Len(s) + 1]
    BY <1>4, <2>1
  <2>4. s[1] = 0 /\ Len(u) - Len(s) + 1 \in 1..Len(u)
    BY <1>1, <1>3, <2>1
  <2>5. Len(u) - Len(s) + 1 = 1
    BY <1>1, <2>2, <2>3, <2>4
  <2>6. Len(u) = Len(s)
    BY <1>3, <2>5
  <2>7. key_of(u, d) = key_of(u, Len(s))
    <3>1. Shallower(d, Len(u)) = Len(s) /\ Shallower(Len(s), Len(u)) = Len(s)
      BY <1>3, <1>6, <2>6 DEF Shallower
    <3> QED BY <3>1 DEF key_of
  <2> QED BY <2>1, <2>7
<1> QED BY <1>3, <1>5, <1>6

-----------------------------------------------------------------------------
(* The inductive invariant: a group waiting to be keyed is all of the      *)
(* claims on its key, not just those that came down from the last depth.   *)

Filled == phase \in {"build", "done"}

\* The parts of the state that the arguments below depend on.
Shape ==
  /\ golden \in Goldens /\ built \in {"old", "new"} /\ ids \in {"old", "new"}
  /\ table \in Tables
  /\ items = [t \in Tables |-> items[t]]
  /\ out = [t \in Tables |-> out[t]]
  /\ phase \in {"start", "ids", "tree", "exit"} => items = [t \in Tables |-> {}]
  /\ ~Filled => work = {} /\ out = [t \in Tables |-> <<>>] /\ table = "failing"

\* A sentence that claims a key of a table has a stack there.
Recorded ==
  \A t \in Tables : \A i \in items[t] : StackOf(t, i, built) \in Stack

Sharing(t, k, d) == {j \in items[t] : key_of(StackOf(t, j, built), d) = k}

GroupsExact ==
  \A w \in work :
    /\ w.depth \in Nat \ {0}
    /\ \E i \in items[table] :
         w.group = Sharing(table, key_of(StackOf(table, i, built), w.depth), w.depth)

TableInv == Shape /\ Recorded /\ GroupsExact /\ NeverGuessed

LEMMA RecordedStack ==
  ASSUME golden \in Goldens, built \in {"old", "new"}, NEW i \in DOMAIN golden,
         golden[i].fails # None, NEW t \in Tables, StackOf(t, i, built) # None
  PROVE  StackOf(t, i, built) \in Stack
<1> DEFINE E == [entry : STRING, sentence : Seq(STRING), message : DOMAIN Named,
                fails : Failure \cup {None}]
<1>1. golden \in Seq(E)
  BY MessageAssumption
<1>2. \A e \in E : e.fails \in Failure \cup {None}
  OBVIOUS
<1> HIDE DEF E
<1>3. golden[i] \in E
  BY <1>1
<1>4. golden[i].fails \in Failure
  BY <1>2, <1>3
<1>5. golden[i].fails.stack \in Stack
  BY <1>4 DEF Failure
<1>6. golden[i].fails.reduced[built] \in Stack \cup {None}
  BY <1>4 DEF Failure
<1> QED BY <1>5, <1>6 DEF StackOf, Tables

\* The groups of a call are exact when the group of the call is.
LEMMA CallsExact ==
  ASSUME NEW t \in Tables, Recorded, NEW d \in Nat \ {0}, NEW group, NEW w \in Calls(t, group, d),
         group \subseteq items[t],
         \A i \in group : \A j \in items[t] :
            key_of(StackOf(t, i, built), d) = key_of(StackOf(t, j, built), d) => j \in group
  PROVE  /\ w.depth = d
         /\ \E i \in group : w.group = Sharing(t, key_of(StackOf(t, i, built), d), d)
<1>1. PICK g \in Groups(t, group, d) : w = [group |-> g, depth |-> d]
  BY DEF Calls
<1>2. PICK i \in group :
        g = {j \in group : key_of(StackOf(t, j, built), d) = key_of(StackOf(t, i, built), d)}
  BY DEF Groups
<1>3. g = Sharing(t, key_of(StackOf(t, i, built), d), d)
  BY <1>2 DEF Sharing
<1> QED BY <1>1, <1>3

\* The key of an exact group is the key of each of its claims.
LEMMA KeyOfGroup ==
  ASSUME NEW w \in work, GroupsExact
  PROVE  /\ w.group # {}
         /\ w.group = Sharing(table, KeyOf(w), w.depth)
<1>1. PICK i \in items[table] :
        w.group = Sharing(table, key_of(StackOf(table, i, built), w.depth), w.depth)
  BY DEF GroupsExact
<1>2. i \in w.group
  BY <1>1 DEF Sharing
<1>3. (CHOOSE j \in w.group : TRUE) \in w.group
  BY <1>2
<1>4. KeyOf(w) = key_of(StackOf(table, i, built), w.depth)
  BY <1>1, <1>3 DEF KeyOf, Sharing
<1> QED BY <1>1, <1>2, <1>4

\* The claims on the key of an exact group are the group.
LEMMA ClaimsAreGroup ==
  ASSUME NEW w \in work, table \in Tables, GroupsExact, Recorded
  PROVE  Claims(table, KeyOf(w)) \subseteq w.group
<1>1. w.depth \in Nat \ {0} /\ w.group # {} /\ w.group = Sharing(table, KeyOf(w), w.depth)
  BY KeyOfGroup DEF GroupsExact
<1>2. PICK i \in items[table] : KeyOf(w) = key_of(StackOf(table, i, built), w.depth)
  BY <1>1 DEF Sharing
<1> SUFFICES ASSUME NEW j \in items[table], Suffix(KeyOf(w), StackOf(table, j, built))
             PROVE  key_of(StackOf(table, j, built), w.depth) = KeyOf(w)
  BY <1>1 DEF Claims, Sharing
<1>3. StackOf(table, i, built) \in Stack /\ StackOf(table, j, built) \in Stack
  BY DEF Recorded
<1> QED BY <1>1, <1>2, <1>3, SuffixHasKey

\* What the invariant says of keys and groups depends on these variables only.
keyVars == <<golden, built, items, table, work, out>>

LEMMA KeysUnchanged ==
  ASSUME UNCHANGED keyVars
  PROVE  /\ Recorded => Recorded'
         /\ GroupsExact => GroupsExact'
         /\ NeverGuessed => NeverGuessed'
<1>1. \A t, i : StackOf(t, i, built)' = StackOf(t, i, built) /\ Value(i)' = Value(i)
  BY DEF keyVars, StackOf, Value, Signature
<1>2. Recorded => Recorded'
  BY <1>1 DEF keyVars, Recorded
<1>3. GroupsExact => GroupsExact'
  BY <1>1 DEF keyVars, GroupsExact, Sharing
<1>4. NeverGuessed => NeverGuessed'
  BY <1>1 DEF keyVars, NeverGuessed, Claims
<1> QED BY <1>2, <1>3, <1>4

\* Keying a group changes neither the sentences nor who claims what.
LEMMA GroupFrame ==
  ASSUME UNCHANGED <<golden, built, items, table>>
  PROVE  /\ \A t, i : StackOf(t, i, built)' = StackOf(t, i, built)
         /\ \A i : Value(i)' = Value(i)
         /\ \A t, k, d : Sharing(t, k, d)' = Sharing(t, k, d)
         /\ \A t, k : Claims(t, k)' = Claims(t, k)
         /\ Recorded => Recorded'
<1>1. \A t, i : StackOf(t, i, built)' = StackOf(t, i, built) /\ Value(i)' = Value(i)
  BY DEF StackOf, Value, Signature
<1> QED BY <1>1 DEF Sharing, Claims, Recorded

-----------------------------------------------------------------------------
(* The steps of build                                                      *)

LEMMA ResolveStep ==
  ASSUME TableInv, phase = "build", NEW w \in work, resolve(w),
         UNCHANGED <<golden, built, items, table>>
  PROVE  Recorded' /\ GroupsExact' /\ NeverGuessed'
<1>1. Recorded'
  BY GroupFrame DEF TableInv
<1>2. GroupsExact'
  <2>1. work' \subseteq work
    BY DEF resolve
  <2> QED BY <2>1, GroupFrame DEF TableInv, GroupsExact
<1>3. ASSUME NEW t \in Tables, NEW k \in DOMAIN out'[t], out'[t][k] # Deeper,
             NEW i \in Claims(t, k)
      PROVE  Value(i) = out'[t][k]
  <2>1. out = [u \in Tables |-> out[u]] /\ table \in Tables
    BY DEF TableInv, Shape
  <2>2. CASE t = table /\ k = KeyOf(w)
    <3>1. i \in w.group /\ (CHOOSE j \in w.group : TRUE) \in w.group
      BY <1>3, <2>1, <2>2, ClaimsAreGroup DEF TableInv
    <3>2. out'[t][k] = Value(CHOOSE j \in w.group : TRUE)
      BY <2>1, <2>2 DEF resolve, Put
    <3> QED BY <3>1, <3>2 DEF resolve, Resolved
  <2>3. CASE ~(t = table /\ k = KeyOf(w))
    <3>1. k \in DOMAIN out[t] /\ out'[t][k] = out[t][k]
      BY <1>3, <2>1, <2>3 DEF resolve, Put
    <3> QED BY <1>3, <3>1 DEF TableInv, NeverGuessed
  <2> QED BY <2>2, <2>3
<1> QED BY <1>1, <1>2, <1>3, GroupFrame DEF NeverGuessed

LEMMA DropStep ==
  ASSUME TableInv, phase = "build", NEW w \in work, drop(w),
         UNCHANGED <<golden, built, items, table>>
  PROVE  Recorded' /\ GroupsExact' /\ NeverGuessed'
<1>1. work' \subseteq work /\ out' = out
  BY DEF drop
<1> QED BY <1>1, GroupFrame DEF TableInv, GroupsExact, NeverGuessed

LEMMA DeepenStep ==
  ASSUME TableInv, phase = "build", NEW w \in work, deepen(w),
         UNCHANGED <<golden, built, items, table>>
  PROVE  Recorded' /\ GroupsExact' /\ NeverGuessed'
<1> DEFINE d == w.depth
<1>1. Recorded'
  BY GroupFrame DEF TableInv
<1>2. table \in Tables /\ d \in Nat \ {0} /\ d + 1 \in Nat \ {0} /\ Recorded
  BY DEF TableInv, Shape, GroupsExact
<1>3. w.group = Sharing(table, KeyOf(w), d) /\ w.group \subseteq items[table]
  BY KeyOfGroup DEF TableInv, Sharing
<1>4. ASSUME NEW i \in w.group, NEW j \in items[table],
             key_of(StackOf(table, i, built), d + 1) = key_of(StackOf(table, j, built), d + 1)
      PROVE  j \in w.group
  <2>1. StackOf(table, i, built) \in Stack /\ StackOf(table, j, built) \in Stack
    BY <1>2, <1>3 DEF Recorded
  <2>2. /\ StackOf(table, i, built) \in Seq(Nat) /\ StackOf(table, i, built) # <<>>
        /\ StackOf(table, j, built) \in Seq(Nat) /\ StackOf(table, j, built) # <<>>
    BY <2>1 DEF Stack, Rooted
  <2>3. key_of(StackOf(table, i, built), d) = key_of(StackOf(table, j, built), d)
    BY <1>2, <1>4, <2>2, KeyRefines
  <2> QED BY <1>3, <2>3 DEF Sharing
<1>5. ASSUME NEW c \in Calls(table, w.group, d + 1)
      PROVE  /\ c.depth \in Nat \ {0}
             /\ \E i \in items[table] :
                  c.group = Sharing(table, key_of(StackOf(table, i, built), c.depth), c.depth)
  BY <1>2, <1>3, <1>4, CallsExact
<1>6. GroupsExact'
  <2>1. work' = (work \ {w}) \cup Calls(table, w.group, d + 1)
    BY DEF deepen
  <2>2. \A c \in work' :
          /\ c.depth \in Nat \ {0}
          /\ \E i \in items[table] :
               c.group = Sharing(table, key_of(StackOf(table, i, built), c.depth), c.depth)
    BY <1>5, <2>1 DEF TableInv, GroupsExact
  <2> QED BY <2>2, GroupFrame DEF GroupsExact
<1>7. ASSUME NEW t \in Tables, NEW k \in DOMAIN out'[t], out'[t][k] # Deeper
      PROVE  k \in DOMAIN out[t] /\ out'[t][k] = out[t][k]
  <2>1. out = [u \in Tables |-> out[u]]
    BY DEF TableInv, Shape
  <2> QED BY <1>2, <1>7, <2>1 DEF deepen, Put
<1>8. NeverGuessed'
  BY <1>7, GroupFrame DEF TableInv, NeverGuessed
<1> QED BY <1>1, <1>6, <1>8

LEMMA BuildStep ==
  ASSUME TableInv, buildGroup
  PROVE  TableInv'
<1>1. PICK w \in work : resolve(w) \/ drop(w) \/ deepen(w)
  BY DEF buildGroup
<1>2. phase = "build" /\ UNCHANGED <<golden, built, ids, items, table, phase>>
  BY DEF buildGroup
<1>3. Recorded' /\ GroupsExact' /\ NeverGuessed'
  BY <1>1, <1>2, ResolveStep, DropStep, DeepenStep
<1>4. out' = [t \in Tables |-> out'[t]]
  BY <1>1 DEF TableInv, Shape, resolve, drop, deepen
<1>5. Shape'
  BY <1>2, <1>4 DEF TableInv, Shape, Filled
<1> QED BY <1>3, <1>5 DEF TableInv

\* A table that is started on works on groups that are exact.
LEMMA StartExact ==
  ASSUME NEW t \in Tables, Recorded,
         UNCHANGED <<golden, built, items>>, table' = t, work' = Calls(t, items[t], 1)
  PROVE  GroupsExact'
<1>1. ASSUME NEW c \in work'
      PROVE  /\ c.depth \in Nat \ {0}
             /\ \E i \in items[t] :
                  c.group = Sharing(t, key_of(StackOf(t, i, built), c.depth), c.depth)
  BY CallsExact
<1>2. /\ \A i : StackOf(t, i, built)' = StackOf(t, i, built)
      /\ \A k, d : Sharing(t, k, d)' = Sharing(t, k, d)
  BY DEF StackOf, Sharing
<1>3. \A i : StackOf(table, i, built)' = StackOf(t, i, built)
  BY DEF StackOf
<1>4. \A k, d : Sharing(table, k, d)' = Sharing(t, k, d)
  BY <1>3 DEF Sharing
<1> QED BY <1>1, <1>3, <1>4 DEF GroupsExact

\* The messages in the tables do not depend on which table is worked on.
LEMMA GuessFrame ==
  ASSUME UNCHANGED <<golden, built, items, out>>
  PROVE  /\ Recorded => Recorded'
         /\ NeverGuessed => NeverGuessed'
<1>1. \A t, i : StackOf(t, i, built)' = StackOf(t, i, built) /\ Value(i)' = Value(i)
  BY DEF StackOf, Value, Signature
<1>2. \A t, k : Claims(t, k)' = Claims(t, k)
  BY <1>1 DEF Claims
<1> QED BY <1>1, <1>2 DEF Recorded, NeverGuessed

LEMMA TableInduction == TableInv /\ [Next]_vars => TableInv'
<1> SUFFICES ASSUME TableInv, [Next]_vars PROVE TableInv'
  OBVIOUS
<1>1. ASSUME UNCHANGED keyVars, Shape' PROVE TableInv'
  BY <1>1, KeysUnchanged DEF TableInv
<1>2. ASSUME work' = {}, out' = [t \in Tables |-> <<>>], Recorded', Shape' PROVE TableInv'
  <2>1. GroupsExact'
    BY <1>2 DEF GroupsExact
  <2>2. NeverGuessed'
    BY <1>2 DEF NeverGuessed
  <2> QED BY <1>2, <2>1, <2>2 DEF TableInv
<1> USE DEF TableInv
<1>3. CASE on_error_reduce_ids
  BY <1>1, <1>3 DEF on_error_reduce_ids, keyVars, Shape, Filled
<1>4. CASE write_error_reduce
  BY <1>1, <1>4 DEF write_error_reduce, keyVars, Shape, Filled
<1>5. CASE moonBuild
  <2>1. Shape' /\ work' = {} /\ out' = [t \in Tables |-> <<>>] /\ items' = [t \in Tables |-> {}]
    BY <1>5 DEF moonBuild, Shape, Filled
  <2>2. Recorded'
    BY <2>1 DEF Recorded
  <2> QED BY <1>2, <2>1, <2>2
<1>6. CASE states_of
  BY <1>1, <1>6 DEF states_of, keyVars, Shape, Filled
<1>7. CASE skipDummy
  BY <1>1, <1>7 DEF skipDummy, keyVars, Shape, Filled
<1>8. CASE parsedFine
  BY <1>1, <1>8 DEF parsedFine, keyVars, Shape, Filled
<1>9. CASE misplace
  BY <1>1, <1>9 DEF misplace, keyVars, Shape, Filled
<1>10. CASE record
  <2>1. Shape' /\ work' = {} /\ out' = [t \in Tables |-> <<>>]
    BY <1>10 DEF record, Filtering, Shape, Filled
  <2>2. n \in DOMAIN golden /\ golden[n].fails # None
    BY <1>10 DEF record, Filtering, es
  <2>3. ASSUME NEW t \in Tables, NEW i \in items'[t] PROVE StackOf(t, i, built) \in Stack
    <3>1. i \in items[t] \/ (i = n /\ StackOf(t, n, built) # None)
      BY <1>10, <2>3 DEF record
    <3> QED BY <2>2, <3>1, RecordedStack DEF Recorded, Shape
  <2>4. \A t, i : StackOf(t, i, built)' = StackOf(t, i, built)
    BY <1>10 DEF record, StackOf
  <2>5. Recorded'
    BY <2>3, <2>4 DEF Recorded
  <2> QED BY <1>2, <2>1, <2>5
<1>11. CASE startBuild
  <2>1. Shape' /\ table = "failing" /\ UNCHANGED <<golden, built, items, table, out>>
    BY <1>11 DEF startBuild, Shape, Filled
  <2>2. GroupsExact'
    BY <1>11, <2>1, StartExact DEF startBuild, Tables
  <2> QED BY <2>1, <2>2, GuessFrame
<1>12. CASE secondTable
  <2>1. Shape' /\ table' = "reduced" /\ UNCHANGED <<golden, built, items, out>>
    BY <1>12 DEF secondTable, Shape, Filled, Tables
  <2>2. GroupsExact'
    BY <1>12, <2>1, StartExact DEF secondTable, Tables
  <2> QED BY <2>1, <2>2, GuessFrame
<1>13. CASE buildGroup
  BY <1>13, BuildStep
<1>14. CASE writeTable
  BY <1>1, <1>14 DEF writeTable, keyVars, Shape, Filled
<1>15. CASE UNCHANGED vars
  BY <1>1, <1>15 DEF vars, keyVars, Shape, Filled
<1> QED
  BY <1>3, <1>4, <1>5, <1>6, <1>7, <1>8, <1>9, <1>10, <1>11, <1>12, <1>13, <1>14, <1>15 DEF Next

\* "A key two different reference messages claim is dropped rather than guessed at": for
\* every golden and every automaton, a message in a table is the message of every
\* sentence whose stack ends in its key.
THEOREM TableNeverGuesses == Spec => []NeverGuessed
<1>1. Init => TableInv
  <2> SUFFICES ASSUME Init PROVE TableInv
    OBVIOUS
  <2>1. Shape
    BY DEF Init, Shape, Filled, Tables
  <2>2. Recorded /\ GroupsExact /\ NeverGuessed
    BY DEF Init, Recorded, GroupsExact, NeverGuessed
  <2> QED BY <2>1, <2>2 DEF TableInv
<1>2. TableInv => NeverGuessed
  BY DEF TableInv
<1> QED BY <1>1, <1>2, TableInduction, PTL DEF Spec

-----------------------------------------------------------------------------
(* Keys are as shallow as they can be                                      *)

LEMMA KeyIsSuffix ==
  ASSUME NEW s \in Stack, NEW d \in Nat \ {0}
  PROVE  Suffix(key_of(s, d), s)
<1>1. s \in Seq(Nat) /\ s # <<>> /\ Len(s) \in Nat
  BY DEF Stack, Rooted
<1>2. Len(key_of(s, d)) = Shallower(d, Len(s)) /\ Len(key_of(s, d)) \in 1..Len(s)
  BY <1>1, KeyFrames
<1>3. Shallower(Shallower(d, Len(s)), Len(s)) = Shallower(d, Len(s))
  BY <1>1 DEF Shallower
<1>4. key_of(s, Shallower(d, Len(s))) = key_of(s, d)
  BY <1>3 DEF key_of
<1> QED BY <1>1, <1>2, <1>4 DEF Suffix

\* If one of two rooted stacks with a key has a frame below it, so has the other.
LEMMA BothDeeper ==
  ASSUME NEW s \in Stack, NEW u \in Stack, NEW d \in Nat \ {0},
         Len(u) > d, key_of(s, d) = key_of(u, d)
  PROVE  Len(s) > d
<1>1. /\ s \in Seq(Nat) /\ s # <<>> /\ u \in Seq(Nat) /\ u # <<>>
      /\ \A j \in 1..Len(s) : s[j] = 0 <=> j = 1
      /\ \A j \in 1..Len(u) : u[j] = 0 <=> j = 1
      /\ Len(s) \in Nat \ {0} /\ Len(u) \in Nat
  BY DEF Stack, Rooted
<1> SUFFICES ASSUME Len(s) <= d PROVE FALSE
  BY <1>1
<1>2. key_of(s, d) = s
  <2>1. Shallower(d, Len(s)) = Len(s)
    BY <1>1 DEF Shallower
  <2>2. key_of(s, d) = SubSeq(s, 1, Len(s))
    BY <1>1, <2>1 DEF key_of
  <2> QED BY <1>1, <2>2, SubSeqFull
<1>3. s[1] = u[Len(u) + 1 - d] /\ Len(u) + 1 - d \in 2..Len(u)
  <2>1. \A j \in 1..Len(key_of(u, d)) : key_of(u, d)[j] = u[Len(u) - Len(key_of(u, d)) + j]
    BY <1>1, KeyFrames
  <2>2. Len(key_of(u, d)) = d
    <3>1. Len(key_of(u, d)) = Shallower(d, Len(u))
      BY <1>1, KeyFrames
    <3>2. Shallower(d, Len(u)) = d
      BY <1>1 DEF Shallower
    <3> QED BY <3>1, <3>2
  <2>3. key_of(u, d)[1] = u[Len(u) - d + 1]
    BY <2>1, <2>2
  <2> QED BY <1>1, <1>2, <2>3
<1> QED BY <1>1, <1>3, SMTT(60)

LEMMA TailOfKey ==
  ASSUME NEW s \in Seq(Nat), NEW d \in Nat \ {0}, Len(s) > d
  PROVE  Tail(key_of(s, d + 1)) = key_of(s, d)
<1>1. Shallower(d + 1, Len(s)) = d + 1 /\ Shallower(d, Len(s)) = d
  BY DEF Shallower
<1>2. /\ key_of(s, d + 1) = SubSeq(s, Len(s) + 1 - (d + 1), Len(s))
      /\ key_of(s, d) = SubSeq(s, Len(s) + 1 - d, Len(s))
  BY <1>1 DEF key_of
<1> DEFINE m == Len(s) - d
           e == Len(s)
<1>3. m \in 1..Len(s) /\ e \in m..Len(s)
  OBVIOUS
<1>4. Len(s) + 1 - (d + 1) = m /\ Len(s) + 1 - d = m + 1
  OBVIOUS
<1>5. Tail(SubSeq(s, m, e)) = SubSeq(s, m + 1, e)
  <2> HIDE DEF m, e
  <2> QED BY <1>3, HeadTailOfSubSeq
<1> QED BY <1>2, <1>4, <1>5

\* A key is contested one frame further up.
ContestedAbove(t, k) == \E i, j \in Claims(t, Tail(k)) : Value(i) # Value(j)

\* A group waiting to be keyed below the first frame was contested one frame up.
WorkIsContested ==
  \A w \in work : Len(KeyOf(w)) > 1 => ContestedAbove(table, KeyOf(w))

ShallowInv == TableInv /\ WorkIsContested /\ KeyIsShallowest

\* The groups that a contested group is split into.
LEMMA SplitIsContested ==
  ASSUME TableInv, NEW w \in work, ~Resolved(w), HasDeeper(w), NEW i \in w.group
  PROVE  ContestedAbove(table, key_of(StackOf(table, i, built), w.depth + 1))
<1> DEFINE d == w.depth
<1>1. d \in Nat \ {0} /\ Recorded /\ table \in Tables
  BY DEF TableInv, Shape, GroupsExact
<1>2. w.group = Sharing(table, KeyOf(w), d)
  BY KeyOfGroup DEF TableInv
<1>3. \A a \in w.group : /\ a \in items[table] /\ StackOf(table, a, built) \in Stack
                         /\ key_of(StackOf(table, a, built), d) = KeyOf(w)
  BY <1>1, <1>2 DEF Sharing, Recorded
<1>4. PICK h \in w.group : Len(StackOf(table, h, built)) > d
  BY DEF HasDeeper
<1>5. Len(StackOf(table, i, built)) > d
  BY <1>1, <1>3, <1>4, BothDeeper
<1>6. Tail(key_of(StackOf(table, i, built), d + 1)) = KeyOf(w)
  <2>1. StackOf(table, i, built) \in Seq(Nat)
    BY <1>3 DEF Stack
  <2>2. Tail(key_of(StackOf(table, i, built), d + 1)) = key_of(StackOf(table, i, built), d)
    BY <1>1, <1>5, <2>1, TailOfKey
  <2> QED BY <1>3, <2>2
<1>7. \A a \in w.group : a \in Claims(table, KeyOf(w))
  BY <1>1, <1>3, KeyIsSuffix DEF Claims
<1>8. PICK a \in w.group, b \in w.group : Value(a) # Value(b)
  BY DEF Resolved
<1> QED BY <1>6, <1>7, <1>8 DEF ContestedAbove

LEMMA FirstFrame ==
  ASSUME NEW t \in Tables, Recorded, NEW c \in Calls(t, items[t], 1)
  PROVE  Len(key_of(StackOf(t, CHOOSE i \in c.group : TRUE, built), c.depth)) = 1
<1> DEFINE k == key_of(StackOf(t, CHOOSE i \in c.group : TRUE, built), c.depth)
<1>1. PICK i \in items[t] :
        c.depth = 1 /\ c.group = Sharing(t, key_of(StackOf(t, i, built), 1), 1)
  BY CallsExact
<1>2. (CHOOSE j \in c.group : TRUE) \in c.group
  BY <1>1 DEF Sharing
<1>3. PICK j \in items[t] : k = key_of(StackOf(t, j, built), 1)
  BY <1>1, <1>2 DEF Sharing
<1>4. StackOf(t, j, built) \in Seq(Nat) /\ StackOf(t, j, built) # <<>>
  BY DEF Recorded, Stack, Rooted
<1> DEFINE l == Len(StackOf(t, j, built))
<1>5. Len(k) = Shallower(1, l) /\ l \in Nat /\ l # 0
  BY <1>3, <1>4, KeyFrames
<1>6. Shallower(1, l) = 1
  <2> HIDE DEF l
  <2> QED BY <1>5 DEF Shallower
<1> QED BY <1>5, <1>6

LEMMA KeyOfFrame ==
  ASSUME UNCHANGED <<golden, built, items, table>>
  PROVE  /\ \A w : KeyOf(w)' = KeyOf(w)
         /\ \A t, k : ContestedAbove(t, k)' <=> ContestedAbove(t, k)
<1>1. /\ \A t, i : StackOf(t, i, built)' = StackOf(t, i, built)
      /\ \A i : Value(i)' = Value(i)
      /\ \A t, k : Claims(t, k)' = Claims(t, k)
  BY GroupFrame
<1>2. \A w : KeyOf(w)' = KeyOf(w)
  BY <1>1 DEF KeyOf
<1>3. \A t, k : ContestedAbove(t, k)' <=> ContestedAbove(t, k)
  BY <1>1 DEF ContestedAbove
<1> QED BY <1>2, <1>3

LEMMA ShallowUnchanged ==
  ASSUME UNCHANGED keyVars, WorkIsContested, KeyIsShallowest
  PROVE  WorkIsContested' /\ KeyIsShallowest'
<1>1. UNCHANGED <<golden, built, items, table>> /\ work' = work /\ out' = out
  BY DEF keyVars
<1>2. WorkIsContested'
  BY <1>1, KeyOfFrame DEF WorkIsContested
<1>3. KeyIsShallowest'
  BY <1>1, GroupFrame DEF KeyIsShallowest
<1> QED BY <1>2, <1>3

LEMMA ShallowBuildStep ==
  ASSUME ShallowInv, buildGroup
  PROVE  WorkIsContested' /\ KeyIsShallowest'
<1>1. PICK w \in work : resolve(w) \/ drop(w) \/ deepen(w)
  BY DEF buildGroup
<1>2. UNCHANGED <<golden, built, items, table>> /\ table \in Tables
      /\ out = [t \in Tables |-> out[t]]
  BY DEF buildGroup, ShallowInv, TableInv, Shape
<1>3. ASSUME NEW c \in work' PROVE Len(KeyOf(c)) > 1 => ContestedAbove(table, KeyOf(c))
  <2>1. CASE c \in work
    BY <2>1 DEF ShallowInv, WorkIsContested
  <2>2. CASE c \notin work
    <3>1. deepen(w) /\ c \in Calls(table, w.group, w.depth + 1)
      BY <1>1, <1>3, <2>2 DEF resolve, drop, deepen
    <3>2. PICK i \in w.group :
            c.group = {j \in w.group : key_of(StackOf(table, j, built), w.depth + 1) =
                                       key_of(StackOf(table, i, built), w.depth + 1)}
          /\ c.depth = w.depth + 1
      BY <3>1 DEF Calls, Groups
    <3>3. (CHOOSE j \in c.group : TRUE) \in c.group
      BY <3>2
    <3>4. PICK j \in w.group : KeyOf(c) = key_of(StackOf(table, j, built), w.depth + 1)
      BY <3>2, <3>3 DEF KeyOf
    <3>5. ContestedAbove(table, KeyOf(c))
      BY <3>1, <3>4, SplitIsContested DEF ShallowInv, deepen
    <3> QED BY <3>5
  <2> QED BY <2>1, <2>2
<1>4. WorkIsContested'
  BY <1>2, <1>3, KeyOfFrame DEF WorkIsContested
<1>5. ASSUME NEW t \in Tables, NEW k \in DOMAIN out'[t], Len(k) > 1
      PROVE  ContestedAbove(t, k)
  <2>1. CASE k \in DOMAIN out[t]
    BY <1>5, <2>1 DEF ShallowInv, KeyIsShallowest, ContestedAbove
  <2>2. CASE k \notin DOMAIN out[t]
    <3>1. t = table /\ k = KeyOf(w)
      BY <1>1, <1>2, <1>5, <2>2 DEF resolve, drop, deepen, Put
    <3> QED BY <1>5, <3>1 DEF ShallowInv, WorkIsContested
  <2> QED BY <2>1, <2>2
<1>6. KeyIsShallowest'
  BY <1>2, <1>5, GroupFrame DEF KeyIsShallowest, ContestedAbove
<1> QED BY <1>4, <1>6

LEMMA ShallowInduction == ShallowInv /\ [Next]_vars => ShallowInv'
<1> SUFFICES ASSUME ShallowInv, [Next]_vars PROVE ShallowInv'
  OBVIOUS
<1>1. TableInv'
  BY TableInduction DEF ShallowInv
<1> SUFFICES WorkIsContested' /\ KeyIsShallowest'
  BY <1>1 DEF ShallowInv
<1>2. CASE UNCHANGED keyVars
  BY <1>2, ShallowUnchanged DEF ShallowInv
<1>3. ASSUME work' = {}, out' = [t \in Tables |-> <<>>] PROVE WorkIsContested' /\ KeyIsShallowest'
  BY <1>3 DEF WorkIsContested, KeyIsShallowest
<1>4. CASE moonBuild \/ record
  <2>1. work' = {} /\ out' = [t \in Tables |-> <<>>]
    BY <1>4 DEF ShallowInv, TableInv, Shape, Filled, moonBuild, record, Filtering
  <2> QED BY <1>3, <2>1
<1>5. ASSUME NEW t \in Tables, UNCHANGED <<golden, built, items, out>>,
             table' = t, work' = Calls(t, items[t], 1)
      PROVE  WorkIsContested' /\ KeyIsShallowest'
  <2>1. ASSUME NEW c \in Calls(t, items[t], 1) PROVE Len(KeyOf(c)') = 1
    <3>1. KeyOf(c)' = key_of(StackOf(t, CHOOSE i \in c.group : TRUE, built), c.depth)
      BY <1>5 DEF KeyOf, StackOf
    <3> QED BY <3>1, FirstFrame DEF ShallowInv, TableInv
  <2>2. \A c \in work' : Len(KeyOf(c)') = 1
    BY <1>5, <2>1
  <2>3. \A c \in work' : ~(Len(KeyOf(c)') > 1)
    BY <2>2
  <2>4. WorkIsContested'
    BY <2>3, Zenon DEF WorkIsContested
  <2>5. KeyIsShallowest'
    <3>1. \A u, i : StackOf(u, i, built)' = StackOf(u, i, built) /\ Value(i)' = Value(i)
      BY <1>5 DEF StackOf, Value, Signature
    <3>2. \A u, k : Claims(u, k)' = Claims(u, k)
      BY <1>5, <3>1 DEF Claims
    <3> QED BY <1>5, <3>1, <3>2 DEF ShallowInv, KeyIsShallowest
  <2> QED BY <2>4, <2>5
<1>6. CASE startBuild
  <2>1. table = "failing"
    BY <1>6 DEF ShallowInv, TableInv, Shape, Filled, startBuild
  <2> QED BY <1>5, <1>6, <2>1 DEF startBuild, Tables
<1>7. CASE secondTable
  BY <1>5, <1>7 DEF secondTable, Tables
<1>8. CASE buildGroup
  BY <1>8, ShallowBuildStep
<1>9. CASE \/ on_error_reduce_ids \/ write_error_reduce \/ states_of \/ skipDummy
           \/ parsedFine \/ misplace \/ writeTable \/ UNCHANGED vars
  BY <1>2, <1>9 DEF on_error_reduce_ids, write_error_reduce, states_of, skipDummy,
                    parsedFine, misplace, writeTable, vars, keyVars
<1> QED BY <1>4, <1>6, <1>7, <1>8, <1>9 DEF Next

\* No key is deeper than telling the claims apart takes: for every golden and whatever
\* the stacks and signatures, one frame less of any key in a table is claimed with two
\* different pairs of signature and message (which may be two signatures of one message).
THEOREM TableIsShallow == Spec => []KeyIsShallowest
<1>1. Init => ShallowInv
  <2> SUFFICES ASSUME Init PROVE ShallowInv
    OBVIOUS
  <2>1. Shape
    BY DEF Init, Shape, Filled, Tables
  <2>2. Recorded /\ GroupsExact /\ NeverGuessed
    BY DEF Init, Recorded, GroupsExact, NeverGuessed
  <2>3. WorkIsContested /\ KeyIsShallowest
    BY DEF Init, WorkIsContested, KeyIsShallowest
  <2> QED BY <2>1, <2>2, <2>3 DEF TableInv, ShallowInv
<1>2. ShallowInv => KeyIsShallowest
  BY DEF ShallowInv
<1> QED BY <1>1, <1>2, ShallowInduction, PTL DEF Spec
-----------------------------------------------------------------------------
(* What was recorded is found, unless it was dropped.  A sentence is       *)
(* followed through the table o being built: its message is found in it,   *)
(* its group is still to do, or none of its frames has an entry that tells.*)

KeyAt(t, i, d) == key_of(StackOf(t, i, built), d)
Frames(t, i) == Len(StackOf(t, i, built))

\* For the first d - 1 frames of sentence i the table says to look deeper.
Chained(o, t, i, d) ==
  \A e \in 1..(d - 1) : KeyAt(t, i, e) \in DOMAIN o /\ o[KeyAt(t, i, e)] = Deeper

Found(o, t, i) ==
  \E d \in 1..Frames(t, i) :
    Chained(o, t, i, d) /\ KeyAt(t, i, d) \in DOMAIN o /\ o[KeyAt(t, i, d)] = Value(i)

Missing(o, t, i) ==
  Chained(o, t, i, Frames(t, i)) /\ KeyAt(t, i, Frames(t, i)) \notin DOMAIN o

\* For a sentence of group w the table goes no deeper yet than the key of the group.
WaitsIn(o, t, w, i) ==
  /\ w.depth <= Frames(t, i)
  /\ Chained(o, t, i, w.depth)
  /\ \A e \in w.depth..Frames(t, i) : KeyAt(t, i, e) \notin DOMAIN o

LEMMA KeyLength ==
  ASSUME NEW s \in Stack, NEW d \in 1..Len(s)
  PROVE  Len(s) \in Nat \ {0} /\ Len(key_of(s, d)) = d
<1>1. s \in Seq(Nat) /\ s # <<>> /\ Len(s) \in Nat
  BY DEF Stack, Rooted
<1>2. d \in Nat \ {0} /\ Shallower(d, Len(s)) = d /\ Len(s) # 0
  BY <1>1 DEF Shallower
<1>3. Len(key_of(s, d)) = Shallower(d, Len(s))
  BY <1>1, <1>2, KeyFrames
<1> QED BY <1>1, <1>2, <1>3

LEMMA FrameKeys ==
  ASSUME Recorded, NEW t \in Tables, NEW i \in items[t]
  PROVE  /\ StackOf(t, i, built) \in Stack
         /\ Frames(t, i) \in Nat \ {0}
         /\ \A d \in 1..Frames(t, i) : Len(KeyAt(t, i, d)) = d
<1>1. StackOf(t, i, built) \in Stack
  BY DEF Recorded
<1>2. Len(StackOf(t, i, built)) \in Nat \ {0}
  BY <1>1, LenProperties DEF Stack, Rooted
<1> QED BY <1>1, <1>2, KeyLength DEF Frames, KeyAt

\* The keys, frames and values of the sentences are those of the golden and the build.
LEMMA PlacesFrame ==
  ASSUME UNCHANGED <<golden, built>>
  PROVE  /\ \A t, i : Frames(t, i)' = Frames(t, i)
         /\ \A t, i : Chained(out[t], t, i, Frames(t, i))' = Chained(out'[t], t, i, Frames(t, i))
         /\ \A t, i : Found(out[t], t, i)' = Found(out'[t], t, i)
         /\ \A t, i : Missing(out[t], t, i)' = Missing(out'[t], t, i)
         /\ \A w, i : WaitsIn(out[table], table, w, i)' = WaitsIn(out'[table'], table', w, i)
<1>1. \A t, i : StackOf(t, i, built)' = StackOf(t, i, built)
  BY DEF StackOf
<1>2. \A i : Value(i)' = Value(i)
  BY DEF Value, Signature
<1>3. \A t, i, d : KeyAt(t, i, d)' = KeyAt(t, i, d)
  BY <1>1 DEF KeyAt
<1>4. \A t, i : Frames(t, i)' = Frames(t, i)
  BY <1>1 DEF Frames
<1>5. \A t, i : Chained(out[t], t, i, Frames(t, i))' = Chained(out'[t], t, i, Frames(t, i))
  BY <1>3, <1>4 DEF Chained
<1>6. \A t, i : Found(out[t], t, i)' = Found(out'[t], t, i)
  BY <1>2, <1>3, <1>4 DEF Found, Chained
<1>7. \A t, i : Missing(out[t], t, i)' = Missing(out'[t], t, i)
  BY <1>3, <1>4, <1>5 DEF Missing
<1>8. \A w, i : WaitsIn(out[table], table, w, i)' = WaitsIn(out'[table'], table', w, i)
  <2>1. \A i, d : KeyAt(table, i, d)' = KeyAt(table', i, d)
    BY <1>1 DEF KeyAt, StackOf
  <2>2. \A i : Frames(table, i)' = Frames(table', i)
    BY <1>1 DEF Frames, StackOf
  <2> QED BY <2>1, <2>2 DEF WaitsIn, Chained
<1> QED BY <1>4, <1>5, <1>6, <1>7, <1>8

\* A sentence is not both found and missing.
LEMMA FoundOrMissing ==
  ASSUME NEW o, NEW t, NEW i, Frames(t, i) \in Nat, Value(i) # Deeper
  PROVE  ~(Found(o, t, i) /\ Missing(o, t, i))
<1> SUFFICES ASSUME NEW d \in 1..Frames(t, i), KeyAt(t, i, d) \in DOMAIN o,
                    o[KeyAt(t, i, d)] = Value(i), Missing(o, t, i)
             PROVE  FALSE
  BY DEF Found
<1>1. CASE d = Frames(t, i)
  BY <1>1 DEF Missing
<1>2. CASE d # Frames(t, i)
  <2>1. d \in 1..(Frames(t, i) - 1)
    BY <1>2
  <2> QED BY <2>1 DEF Missing, Chained
<1> QED BY <1>1, <1>2

\* An entry that is added takes none away.
Extends(p, o) == \A k \in DOMAIN o : k \in DOMAIN p /\ p[k] = o[k]

LEMMA ExtendKeeps ==
  ASSUME NEW o, NEW p, Extends(p, o), NEW t, NEW i
  PROVE  /\ \A d : Chained(o, t, i, d) => Chained(p, t, i, d)
         /\ Found(o, t, i) => Found(p, t, i)
<1>1. \A d : Chained(o, t, i, d) => Chained(p, t, i, d)
  BY DEF Chained, Extends
<1>2. Found(o, t, i) => Found(p, t, i)
  BY <1>1 DEF Found, Extends
<1> QED BY <1>1, <1>2
\* Every sentence passed is counted once, and one that claims a key fails.
Counted ==
  /\ n \in Nat \ {0} /\ parsed_fine \in Nat /\ misplaced \in Nat
  /\ Cardinality(es \cap 1..(n - 1)) = parsed_fine + misplaced + Cardinality(items["failing"])
  /\ items["reduced"] \subseteq items["failing"]
  /\ items["failing"] \subseteq es \cap 1..(n - 1)
  /\ \A i \in items["failing"] : golden[i].fails # None

Open(t, i) == t = table /\ \E w \in work : i \in w.group
Lost(t, i) == ~Open(t, i) /\ Missing(out[t], t, i)
Misses(t) == {i \in items[t] : Lost(t, i)}
Started(t) == Filled /\ (t = "failing" \/ table = "reduced")

\* No sentence is in two groups.
Apart ==
  \A w \in work : /\ w = [group |-> w.group, depth |-> w.depth]
                  /\ \A v \in work : v # w => v.group \cap w.group = {}
Waiting == \A w \in work : \A i \in w.group : WaitsIn(out[table], table, w, i)

\* A sentence that claims a key of a table is found, open or lost, and the lost are counted.
Placed ==
  \A t \in Tables :
    /\ Started(t) => /\ \A i \in items[t] : Found(out[t], t, i) \/ Open(t, i) \/ Lost(t, i)
                     /\ dropped[t] = Cardinality(Misses(t))
    /\ ~Started(t) => out[t] = <<>> /\ dropped[t] = 0

\* b is the length of the longest key, if there is any.
Longest(tables, b) ==
  /\ \A t \in Tables : \A k \in DOMAIN tables[t] : Len(k) \in 0..b
  /\ b # 0 => \E t \in Tables : \E k \in DOMAIN tables[t] : Len(k) = b

\* The tables are dictionaries whose keys have a greatest length.
Keyed ==
  /\ dropped = [t \in Tables |-> dropped[t]]
  /\ \A t \in Tables : out[t] = [k \in DOMAIN out[t] |-> out[t][k]]
  /\ \E b \in Nat : Longest(out, b)

PlaceInv == Apart /\ Waiting /\ Placed /\ Keyed

LEMMA ItemFacts ==
  ASSUME Shape, Counted, NEW t \in Tables
  PROVE  /\ items[t] \subseteq items["failing"] /\ IsFiniteSet(items[t])
         /\ \A i \in items[t] : Value(i) \notin {None, Deeper}
<1>1. items[t] \subseteq items["failing"]
  BY DEF Counted, Tables
<1>2. IsFiniteSet(1..(n - 1))
  BY FS_Interval DEF Counted
<1>3. items[t] \in SUBSET (1..(n - 1))
  BY <1>1 DEF Counted
<1>4. IsFiniteSet(items[t])
  BY <1>2, <1>3, FS_Subset
<1>5. ASSUME NEW i \in items[t] PROVE Value(i) \notin {None, Deeper}
  <2> DEFINE E == [entry : STRING, sentence : Seq(STRING), message : DOMAIN Named,
                   fails : Failure \cup {None}]
  <2>1. i \in DOMAIN golden /\ golden[i].fails # None
    BY <1>1, <1>5 DEF Counted, es
  <2>2. golden \in Seq(E)
    BY MessageAssumption DEF Shape
  <2>3. \A e \in E : e.message \in DOMAIN Named /\ e.fails \in Failure \cup {None}
    OBVIOUS
  <2> HIDE DEF E
  <2>4. golden[i].message \in DOMAIN Named /\ golden[i].fails \in Failure
    BY <2>1, <2>2, <2>3
  <2>5. golden[i].fails.signature \in SUBSET STRING
    BY <2>4 DEF Failure
  <2>6. Value(i) \in [signature : SUBSET STRING, message : DOMAIN Named]
    BY <2>4, <2>5 DEF Value, Signature
  <2> QED BY <2>6, MessageAssumption
<1> QED BY <1>1, <1>4, <1>5

\* What a group's key is to its sentences, and that it is no frame of any other.
LEMMA KeyOfSentence ==
  ASSUME TableInv, Waiting, NEW w \in work
  PROVE  /\ w.depth \in Nat \ {0} /\ w.group # {} /\ w.group \subseteq items[table]
         /\ \A i \in w.group : w.depth \in 1..Frames(table, i) /\ KeyAt(table, i, w.depth) = KeyOf(w)
         /\ \A i \in items[table] : \A e \in 1..Frames(table, i) :
               KeyAt(table, i, e) = KeyOf(w) => e = w.depth /\ i \in w.group
<1>1. w.depth \in Nat \ {0} /\ w.group # {} /\ w.group = Sharing(table, KeyOf(w), w.depth)
  BY KeyOfGroup DEF TableInv, GroupsExact
<1>2. table \in Tables /\ Recorded
  BY DEF TableInv, Shape
<1>3. w.group \subseteq items[table]
  BY <1>1 DEF Sharing
<1>4. ASSUME NEW i \in w.group
      PROVE  w.depth \in 1..Frames(table, i) /\ KeyAt(table, i, w.depth) = KeyOf(w)
  <2>1. w.depth <= Frames(table, i)
    BY <1>4 DEF Waiting, WaitsIn
  <2>2. Frames(table, i) \in Nat
    BY <1>2, <1>3, <1>4, FrameKeys
  <2> QED BY <1>1, <1>4, <2>1, <2>2 DEF Sharing, KeyAt
<1>5. PICK j \in w.group : TRUE
  BY <1>1
<1>6. Len(KeyOf(w)) = w.depth
  BY <1>2, <1>3, <1>4, <1>5, FrameKeys
<1>7. ASSUME NEW i \in items[table], NEW e \in 1..Frames(table, i), KeyAt(table, i, e) = KeyOf(w)
      PROVE  e = w.depth /\ i \in w.group
  <2>1. e = w.depth
    BY <1>2, <1>6, <1>7, FrameKeys
  <2> QED BY <1>1, <1>7, <2>1 DEF Sharing, KeyAt
<1> QED BY <1>1, <1>3, <1>4, <1>7

\* The entry made for a group: it is new, and of no sentence outside the group.
LEMMA EntryAdded ==
  ASSUME TableInv, Waiting, Apart, NEW w \in work, NEW x,
         NEW p, p = Put(out[table], KeyOf(w), x)
  PROVE  /\ Extends(p, out[table]) /\ KeyOf(w) \in DOMAIN p /\ p[KeyOf(w)] = x
         /\ \A i \in items[table] : i \notin w.group /\ Missing(out[table], table, i) =>
               Missing(p, table, i)
         /\ \A v \in work : \A i \in v.group : v # w => WaitsIn(p, table, v, i)
<1>1. /\ w.depth \in Nat \ {0} /\ w.group # {} /\ w.group \subseteq items[table]
      /\ \A i \in w.group : w.depth \in 1..Frames(table, i) /\ KeyAt(table, i, w.depth) = KeyOf(w)
      /\ \A i \in items[table] : \A e \in 1..Frames(table, i) :
            KeyAt(table, i, e) = KeyOf(w) => e = w.depth /\ i \in w.group
  BY KeyOfSentence
<1>2. KeyOf(w) \notin DOMAIN out[table]
  <2>1. PICK j \in w.group : TRUE
    BY <1>1
  <2>2. w.depth \in w.depth..Frames(table, j)
    BY <1>1, <2>1
  <2> QED BY <1>1, <2>1, <2>2 DEF Waiting, WaitsIn
<1>3. /\ DOMAIN p = DOMAIN out[table] \cup {KeyOf(w)}
      /\ \A k \in DOMAIN p : p[k] = IF k = KeyOf(w) THEN x ELSE out[table][k]
  BY DEF Put
<1>4. Extends(p, out[table]) /\ KeyOf(w) \in DOMAIN p /\ p[KeyOf(w)] = x
  BY <1>2, <1>3 DEF Extends
<1>5. table \in Tables /\ Recorded
  BY DEF TableInv, Shape
<1>6. ASSUME NEW i \in items[table], i \notin w.group, NEW e \in 1..Frames(table, i)
      PROVE  KeyAt(table, i, e) \in DOMAIN p <=> KeyAt(table, i, e) \in DOMAIN out[table]
  BY <1>1, <1>3, <1>6
<1>7. ASSUME NEW i \in items[table], i \notin w.group, Missing(out[table], table, i)
      PROVE  Missing(p, table, i)
  <2>1. Frames(table, i) \in 1..Frames(table, i)
    BY <1>5, FrameKeys
  <2> QED BY <1>4, <1>6, <1>7, <2>1, ExtendKeeps DEF Missing
<1>8. ASSUME NEW v \in work, NEW i \in v.group, v # w PROVE WaitsIn(p, table, v, i)
  <2>1. i \notin w.group
    BY <1>8 DEF Apart
  <2>2. /\ i \in items[table] /\ v.depth \in Nat \ {0}
        /\ v.depth \in 1..Frames(table, i)
    BY <1>8, KeyOfSentence
  <2>3. WaitsIn(out[table], table, v, i)
    BY <1>8 DEF Waiting
  <2>4. \A e \in v.depth..Frames(table, i) : e \in 1..Frames(table, i)
    BY <2>2
  <2>5. \A e \in v.depth..Frames(table, i) : KeyAt(table, i, e) \notin DOMAIN p
    BY <1>6, <2>1, <2>2, <2>3, <2>4 DEF WaitsIn
  <2> QED BY <1>4, <2>3, <2>5, ExtendKeeps DEF WaitsIn
<1> QED BY <1>4, <1>7, <1>8
\* One step of build: the sentences in L are lost, the others found or still waiting.
LEMMA PlacesAdvance ==
  ASSUME TableInv, Counted, PlaceInv, phase = "build",
         UNCHANGED <<golden, built, items, table, phase>>,
         NEW o, o = out'[table], Extends(o, out[table]),
         \A t \in Tables : t # table => out'[t] = out[t] /\ dropped'[t] = dropped[t],
         NEW L \in SUBSET items[table],
         dropped'[table] = dropped[table] + Cardinality(L),
         \A i \in L : Open(table, i) /\ Missing(o, table, i) /\ ~\E v \in work' : i \in v.group,
         \A i \in items[table] \ L :
            Open(table, i) => Found(o, table, i) \/ \E v \in work' : i \in v.group,
         \A i \in items[table] :
            Lost(table, i) => Missing(o, table, i) /\ ~\E v \in work' : i \in v.group
  PROVE  Placed'
<1>1. /\ table \in Tables /\ Shape /\ Recorded
      /\ \A t \in Tables : t = "failing" \/ t = "reduced"
  BY DEF TableInv, Shape, Tables
<1>2. Started(table) /\ \A t : Started(t)' <=> Started(t)
  BY <1>1 DEF Started, Filled
<1>3. /\ \A t, i : Found(out[t], t, i)' = Found(out'[t], t, i)
      /\ \A t, i : Missing(out[t], t, i)' = Missing(out'[t], t, i)
  BY PlacesFrame
<1>4. ASSUME NEW t \in Tables, t # table
      PROVE  /\ Started(t)' => /\ \A i \in items'[t] : Found(out[t], t, i)' \/ Open(t, i)' \/ Lost(t, i)'
                               /\ dropped'[t] = Cardinality(Misses(t)')
             /\ ~Started(t)' => out'[t] = <<>> /\ dropped'[t] = 0
  <2>1. \A i : ~Open(t, i) /\ ~Open(t, i)'
    BY <1>4 DEF Open
  <2>2. out'[t] = out[t] /\ dropped'[t] = dropped[t] /\ items'[t] = items[t]
    BY <1>4
  <2>3. \A i : (Found(out[t], t, i)' <=> Found(out[t], t, i)) /\ (Lost(t, i)' <=> Lost(t, i))
    BY <1>3, <2>1, <2>2 DEF Lost
  <2>4. Misses(t)' = Misses(t)
    BY <2>2, <2>3 DEF Misses
  <2> QED BY <1>2, <1>4, <2>1, <2>2, <2>3, <2>4 DEF PlaceInv, Placed
<1>5. /\ \A i \in items[table] : Found(out[table], table, i) \/ Open(table, i) \/ Lost(table, i)
      /\ dropped[table] = Cardinality(Misses(table))
  BY <1>1, <1>2 DEF PlaceInv, Placed
<1>6. \A i : /\ Open(table, i)' <=> \E v \in work' : i \in v.group
             /\ Lost(table, i)' <=> ~Open(table, i)' /\ Missing(o, table, i)
             /\ Found(out[table], table, i)' <=> Found(o, table, i)
  <2>1. table' = table
    OBVIOUS
  <2> QED BY <1>3, <2>1 DEF Open, Lost, Found, Missing, Chained, KeyAt, Frames, StackOf, Value, Signature
<1>7. \A i \in items[table] : Found(out[table], table, i) => Found(o, table, i)
  BY ExtendKeeps
<1>8. \A i \in items[table] : ~(Found(o, table, i) /\ Missing(o, table, i))
  <2> TAKE i \in items[table]
  <2>1. Frames(table, i) \in Nat /\ Value(i) # Deeper
    BY <1>1, FrameKeys, ItemFacts
  <2> QED BY <2>1, FoundOrMissing
<1>9. \A i \in items[table] : Found(out[table], table, i)' \/ Open(table, i)' \/ Lost(table, i)'
  BY <1>5, <1>6, <1>7
<1>10. Misses(table)' = Misses(table) \cup L
  <2>1. Misses(table)' = {i \in items[table] : Lost(table, i)'}
    BY DEF Misses
  <2>2. \A i \in items[table] : Lost(table, i)' <=> Lost(table, i) \/ i \in L
    BY <1>5, <1>6, <1>7, <1>8
  <2> QED BY <2>1, <2>2 DEF Misses
<1>11. Cardinality(Misses(table) \cup L) = Cardinality(Misses(table)) + Cardinality(L)
  <2>1. IsFiniteSet(items[table]) /\ Misses(table) \in SUBSET items[table]
    BY <1>1, ItemFacts DEF Misses
  <2>2. IsFiniteSet(Misses(table)) /\ IsFiniteSet(L)
    BY <2>1, FS_Subset
  <2>3. Misses(table) \cap L = {}
    BY DEF Misses, Lost
  <2>4. /\ Cardinality(Misses(table) \cup L)
             = Cardinality(Misses(table)) + Cardinality(L) - Cardinality(Misses(table) \cap L)
        /\ Cardinality(Misses(table)) \in Nat /\ Cardinality(L) \in Nat
    BY <2>2, FS_Union, FS_CardinalityType
  <2>5. Cardinality(Misses(table) \cap L) = 0
    BY <2>3, FS_EmptySet
  <2> QED BY <2>4, <2>5
<1>12. dropped'[table] = Cardinality(Misses(table)')
  BY <1>5, <1>10, <1>11
<1>13. ASSUME NEW t \in Tables, t = table
       PROVE  /\ Started(t)' => /\ \A i \in items'[t] : Found(out[t], t, i)' \/ Open(t, i)' \/ Lost(t, i)'
                                /\ dropped'[t] = Cardinality(Misses(t)')
              /\ ~Started(t)' => out'[t] = <<>> /\ dropped'[t] = 0
  <2>1. Started(t)'
    BY <1>2, <1>13
  <2>2. items'[t] = items[table] /\ out'[t] = o
    BY <1>13
  <2>3. \A i : /\ Found(out[t], t, i)' <=> Found(out[table], table, i)'
               /\ Open(t, i)' <=> Open(table, i)'
               /\ Lost(t, i)' <=> Lost(table, i)'
    BY <1>3, <1>6, <1>13, <2>2 DEF Open, Lost
  <2>4. dropped'[t] = Cardinality(Misses(t)')
    <3>1. Misses(t)' = Misses(table)'
      BY <1>13, <2>3 DEF Misses
    <3> QED BY <1>12, <1>13, <3>1
  <2> QED BY <1>9, <2>1, <2>2, <2>3, <2>4
<1> QED BY <1>4, <1>13 DEF Placed
\* The groups of a call split the group it is made for.
LEMMA CallsSplit ==
  ASSUME NEW t, NEW group, NEW d
  PROVE  /\ \A i \in group : \E c \in Calls(t, group, d) : i \in c.group
         /\ \A c \in Calls(t, group, d) :
              /\ c = [group |-> c.group, depth |-> c.depth]
              /\ c.depth = d /\ c.group \subseteq group
              /\ \A b \in Calls(t, group, d) : b # c => b.group \cap c.group = {}
<1> DEFINE G(i) == {j \in group : key_of(StackOf(t, j, built), d) = key_of(StackOf(t, i, built), d)}
           C(i) == [group |-> G(i), depth |-> d]
<1>1. Calls(t, group, d) = {C(i) : i \in group}
  BY DEF Calls, Groups
<1>2. \A i \in group : i \in C(i).group
  OBVIOUS
<1>3. \A i \in group : \E c \in Calls(t, group, d) : i \in c.group
  BY <1>1, <1>2
<1>4. ASSUME NEW c \in Calls(t, group, d)
      PROVE  /\ c = [group |-> c.group, depth |-> c.depth]
             /\ c.depth = d /\ c.group \subseteq group
             /\ \A b \in Calls(t, group, d) : b # c => b.group \cap c.group = {}
  <2>1. PICK i \in group : c = C(i)
    BY <1>1
  <2>2. ASSUME NEW b \in Calls(t, group, d), NEW a \in b.group \cap c.group PROVE b = c
    <3>1. PICK h \in group : b = C(h)
      BY <1>1
    <3>2. key_of(StackOf(t, h, built), d) = key_of(StackOf(t, i, built), d)
      BY <2>1, <2>2, <3>1
    <3>3. G(h) = G(i)
      BY <3>2
    <3> QED BY <2>1, <3>1, <3>3
  <2> QED BY <2>1, <2>2
<1> QED BY <1>3, <1>4

LEMMA KeyedAdvance ==
  ASSUME TableInv, Waiting, Keyed, NEW w \in work, NEW x,
         out' = [out EXCEPT ![table] = Put(out[table], KeyOf(w), x)],
         dropped' = [t \in Tables |-> dropped'[t]]
  PROVE  Keyed'
<1>1. table \in Tables /\ Recorded /\ out = [t \in Tables |-> out[t]]
  BY DEF TableInv, Shape
<1>2. PICK j \in w.group : TRUE
  BY KeyOfSentence
<1>3. Len(KeyOf(w)) = w.depth /\ w.depth \in Nat
  BY <1>1, <1>2, KeyOfSentence, FrameKeys
<1>4. \A t \in Tables : out'[t] = [k \in DOMAIN out'[t] |-> out'[t][k]]
  <2> TAKE t \in Tables
  <2>1. CASE t = table
    BY <1>1, <2>1 DEF Put
  <2>2. CASE t # table
    BY <1>1, <2>2 DEF Keyed
  <2> QED BY <2>1, <2>2
<1>5. PICK b \in Nat : Longest(out, b)
  BY DEF Keyed
<1>6. PICK c \in Nat : b <= c /\ w.depth <= c /\ (c = b \/ c = w.depth)
  BY <1>3
<1>7. /\ \A t \in Tables : \A k \in DOMAIN out'[t] : k \in DOMAIN out[t] \/ k = KeyOf(w)
      /\ \A t \in Tables : \A k \in DOMAIN out[t] : k \in DOMAIN out'[t]
      /\ KeyOf(w) \in DOMAIN out'[table]
  BY <1>1 DEF Put
<1>8. Longest(out', c)
  <2>1. ASSUME NEW t \in Tables, NEW k \in DOMAIN out'[t] PROVE Len(k) \in 0..c
    <3>1. CASE k \in DOMAIN out[t]
      <4>1. Len(k) \in 0..b
        BY <1>5, <3>1 DEF Longest
      <4> QED BY <1>6, <4>1
    <3>2. CASE k = KeyOf(w)
      BY <1>3, <1>6, <3>2
    <3> QED BY <1>7, <2>1, <3>1, <3>2
  <2>2. ASSUME c # 0 PROVE \E t \in Tables : \E k \in DOMAIN out'[t] : Len(k) = c
    <3>1. CASE c = b
      BY <1>5, <1>7, <2>2, <3>1 DEF Longest
    <3>2. CASE c = w.depth
      BY <1>1, <1>3, <1>7, <3>2
    <3> QED BY <1>6, <3>1, <3>2
  <2> QED BY <2>1, <2>2 DEF Longest
<1> QED BY <1>4, <1>8 DEF Keyed

LEMMA ResolvePlaces ==
  ASSUME TableInv, Counted, PlaceInv, phase = "build", NEW w \in work, resolve(w),
         UNCHANGED <<golden, built, items, table, phase>>
  PROVE  PlaceInv'
<1>1. /\ table \in Tables /\ out = [t \in Tables |-> out[t]]
      /\ Apart /\ Waiting /\ Placed
  BY DEF TableInv, Shape, PlaceInv
<1>2. PICK x : x = Value(CHOOSE i \in w.group : TRUE)
  OBVIOUS
<1>3. PICK o : o = Put(out[table], KeyOf(w), x)
  OBVIOUS
<1>4. /\ out' = [out EXCEPT ![table] = o] /\ work' = work \ {w} /\ dropped' = dropped
      /\ o = out'[table]
  BY <1>1, <1>2, <1>3 DEF resolve
<1>5. /\ Extends(o, out[table]) /\ KeyOf(w) \in DOMAIN o /\ o[KeyOf(w)] = x
      /\ \A i \in items[table] : i \notin w.group /\ Missing(out[table], table, i) =>
            Missing(o, table, i)
      /\ \A v \in work : \A i \in v.group : v # w => WaitsIn(o, table, v, i)
  BY <1>1, <1>3, EntryAdded
<1>6. /\ w.depth \in Nat \ {0} /\ w.group # {} /\ w.group \subseteq items[table]
      /\ \A i \in w.group : w.depth \in 1..Frames(table, i) /\ KeyAt(table, i, w.depth) = KeyOf(w)
  BY <1>1, KeyOfSentence
<1>7. \A i \in w.group : Value(i) = x
  BY <1>2, <1>6 DEF resolve, Resolved
<1>8. ASSUME NEW i \in w.group PROVE Found(o, table, i)
  <2>1. Chained(o, table, i, w.depth)
    BY <1>1, <1>5, ExtendKeeps DEF Waiting, WaitsIn
  <2> QED BY <1>5, <1>6, <1>7, <2>1 DEF Found
<1>9. ASSUME NEW i \in items[table], Lost(table, i)
      PROVE  Missing(o, table, i) /\ ~\E v \in work' : i \in v.group
  BY <1>4, <1>5, <1>9 DEF Lost, Open
<1>10. ASSUME NEW i \in items[table], Open(table, i)
       PROVE  Found(o, table, i) \/ \E v \in work' : i \in v.group
  BY <1>4, <1>8, <1>10 DEF Open
<1>11. dropped'[table] = dropped[table] + Cardinality({})
  <2>1. dropped[table] \in Nat
    <3>1. dropped[table] = Cardinality(Misses(table))
      BY <1>1 DEF Placed, Started, Filled, Tables
    <3>2. IsFiniteSet(Misses(table))
      BY <1>1, ItemFacts, FS_Subset DEF TableInv, Misses
    <3> QED BY <3>1, <3>2, FS_CardinalityType
  <2> QED BY <1>4, <2>1, FS_EmptySet
<1>12. \A t \in Tables : t # table => out'[t] = out[t] /\ dropped'[t] = dropped[t]
  BY <1>1, <1>4
<1>13. Placed'
  <2> DEFINE L == {}
  <2>1. L \in SUBSET items[table]
    OBVIOUS
  <2>2. \A i \in L : Open(table, i) /\ Missing(o, table, i) /\ ~\E v \in work' : i \in v.group
    OBVIOUS
  <2>3. \A i \in items[table] \ L :
           Open(table, i) => Found(o, table, i) \/ \E v \in work' : i \in v.group
    BY <1>10
  <2>4. dropped'[table] = dropped[table] + Cardinality(L)
    BY <1>11
  <2> HIDE DEF L
  <2> QED BY <1>4, <1>5, <1>9, <1>12, <2>1, <2>2, <2>3, <2>4, PlacesAdvance
<1>14. Apart'
  BY <1>1, <1>4 DEF Apart
<1>15. Waiting'
  <2>1. \A v, i : WaitsIn(out[table], table, v, i)' <=> WaitsIn(o, table, v, i)
    BY <1>4, PlacesFrame
  <2> QED BY <1>4, <1>5, <2>1 DEF Waiting
<1>16. Keyed'
  BY <1>1, <1>3, <1>4, KeyedAdvance DEF PlaceInv, Keyed
<1> QED BY <1>13, <1>14, <1>15, <1>16 DEF PlaceInv

LEMMA DropPlaces ==
  ASSUME TableInv, Counted, PlaceInv, phase = "build", NEW w \in work, drop(w),
         UNCHANGED <<golden, built, items, table, phase>>
  PROVE  PlaceInv'
<1>1. /\ table \in Tables /\ out = [t \in Tables |-> out[t]] /\ Recorded
      /\ Apart /\ Waiting /\ Placed
  BY DEF TableInv, Shape, PlaceInv
<1>2. PICK o : o = out[table]
  OBVIOUS
<1>3. /\ dropped' = [dropped EXCEPT ![table] = @ + Cardinality(w.group)]
      /\ work' = work \ {w} /\ out' = out
  BY DEF drop
<1>4. /\ w.depth \in Nat \ {0} /\ w.group # {} /\ w.group \subseteq items[table]
      /\ \A i \in w.group : w.depth \in 1..Frames(table, i) /\ KeyAt(table, i, w.depth) = KeyOf(w)
  BY <1>1, KeyOfSentence
<1>5. ASSUME NEW i \in w.group
      PROVE  Open(table, i) /\ Missing(o, table, i) /\ ~\E v \in work' : i \in v.group
  <2>1. Frames(table, i) \in Nat /\ ~(Frames(table, i) > w.depth)
    BY <1>1, <1>4, <1>5, FrameKeys DEF drop, HasDeeper, Frames
  <2>2. Frames(table, i) = w.depth
    BY <1>4, <1>5, <2>1
  <2>3. WaitsIn(out[table], table, w, i)
    BY <1>1 DEF Waiting
  <2>4. Missing(o, table, i)
    BY <1>2, <1>4, <2>2, <2>3 DEF Missing, WaitsIn
  <2>5. ~\E v \in work' : i \in v.group
    BY <1>1, <1>3 DEF Apart
  <2> QED BY <2>4, <2>5 DEF Open
<1>6. \A i \in items[table] \ w.group :
        Open(table, i) => Found(o, table, i) \/ \E v \in work' : i \in v.group
  BY <1>3 DEF Open
<1>7. \A i \in items[table] :
        Lost(table, i) => Missing(o, table, i) /\ ~\E v \in work' : i \in v.group
  BY <1>2, <1>3 DEF Lost, Open
<1>8. Placed'
  <2>1. o = out'[table] /\ Extends(o, out[table])
    BY <1>2, <1>3 DEF Extends
  <2>2. DOMAIN dropped = Tables
    BY DEF PlaceInv, Keyed
  <2>3. /\ \A t \in Tables : t # table => out'[t] = out[t] /\ dropped'[t] = dropped[t]
        /\ dropped'[table] = dropped[table] + Cardinality(w.group)
    BY <1>1, <1>3, <2>2
  <2>4. w.group \in SUBSET items[table]
    BY <1>4
  <2> QED BY <1>5, <1>6, <1>7, <2>1, <2>3, <2>4, PlacesAdvance
<1>9. Apart'
  BY <1>1, <1>3 DEF Apart
<1>10. Waiting'
  <2>1. \A v, i : WaitsIn(out[table], table, v, i)' <=> WaitsIn(out[table], table, v, i)
    BY <1>3, PlacesFrame
  <2> QED BY <1>1, <1>3, <2>1 DEF Waiting
<1>11. Keyed'
  BY <1>3 DEF PlaceInv, Keyed
<1> QED BY <1>8, <1>9, <1>10, <1>11 DEF PlaceInv
LEMMA DeepenPlaces ==
  ASSUME TableInv, Counted, PlaceInv, phase = "build", NEW w \in work, deepen(w),
         UNCHANGED <<golden, built, items, table, phase>>
  PROVE  PlaceInv'
<1>1. /\ table \in Tables /\ out = [t \in Tables |-> out[t]] /\ Recorded
      /\ Apart /\ Waiting /\ Placed
  BY DEF TableInv, Shape, PlaceInv
<1>2. PICK o : o = Put(out[table], KeyOf(w), Deeper)
  OBVIOUS
<1>3. PICK Subgroups : Subgroups = Calls(table, w.group, w.depth + 1)
  OBVIOUS
<1>4. /\ out' = [out EXCEPT ![table] = o] /\ dropped' = dropped /\ o = out'[table]
      /\ work' = (work \ {w}) \cup Subgroups
  BY <1>1, <1>2, <1>3 DEF deepen
<1>5. /\ Extends(o, out[table]) /\ KeyOf(w) \in DOMAIN o /\ o[KeyOf(w)] = Deeper
      /\ \A i \in items[table] : i \notin w.group /\ Missing(out[table], table, i) =>
            Missing(o, table, i)
      /\ \A v \in work : \A i \in v.group : v # w => WaitsIn(o, table, v, i)
  BY <1>1, <1>2, EntryAdded
<1>6. /\ w.depth \in Nat \ {0} /\ w.group # {} /\ w.group \subseteq items[table]
      /\ \A i \in w.group : w.depth \in 1..Frames(table, i) /\ KeyAt(table, i, w.depth) = KeyOf(w)
      /\ \A i \in items[table] : \A e \in 1..Frames(table, i) :
            KeyAt(table, i, e) = KeyOf(w) => e = w.depth /\ i \in w.group
  BY <1>1, KeyOfSentence
<1>7. /\ \A i \in w.group : \E c \in Subgroups : i \in c.group
      /\ \A c \in Subgroups :
           /\ c = [group |-> c.group, depth |-> c.depth]
           /\ c.depth = w.depth + 1 /\ c.group \subseteq w.group
           /\ \A b \in Subgroups : b # c => b.group \cap c.group = {}
  BY <1>3, CallsSplit
<1>8. ASSUME NEW i \in w.group
      PROVE  /\ Frames(table, i) \in Nat /\ w.depth < Frames(table, i)
             /\ Chained(o, table, i, w.depth + 1)
             /\ \A e \in (w.depth + 1)..Frames(table, i) : KeyAt(table, i, e) \notin DOMAIN o
  <2>1. PICK h \in w.group : Len(StackOf(table, h, built)) > w.depth
    BY DEF deepen, HasDeeper
  <2>2. /\ StackOf(table, i, built) \in Stack /\ StackOf(table, h, built) \in Stack
        /\ Frames(table, i) \in Nat
    BY <1>1, <1>6, <1>8, FrameKeys
  <2>3. key_of(StackOf(table, i, built), w.depth) = key_of(StackOf(table, h, built), w.depth)
    BY <1>6, <1>8 DEF KeyAt
  <2>4. w.depth < Frames(table, i)
    BY <1>6, <2>1, <2>2, <2>3, BothDeeper DEF Frames
  <2>5. WaitsIn(out[table], table, w, i)
    BY <1>1 DEF Waiting
  <2>6. Chained(o, table, i, w.depth)
    BY <1>5, <2>5, ExtendKeeps DEF WaitsIn
  <2>7. Chained(o, table, i, w.depth + 1)
    <3> SUFFICES ASSUME NEW e \in 1..((w.depth + 1) - 1)
                 PROVE  KeyAt(table, i, e) \in DOMAIN o /\ o[KeyAt(table, i, e)] = Deeper
      BY DEF Chained
    <3>1. CASE e = w.depth
      BY <1>5, <1>6, <3>1
    <3>2. CASE e # w.depth
      <4>1. e \in 1..(w.depth - 1)
        BY <1>6, <3>2
      <4> QED BY <2>6, <4>1 DEF Chained
    <3> QED BY <3>1, <3>2
  <2>8. ASSUME NEW e \in (w.depth + 1)..Frames(table, i) PROVE KeyAt(table, i, e) \notin DOMAIN o
    <3>1. e \in w.depth..Frames(table, i) /\ e \in 1..Frames(table, i) /\ e # w.depth
      BY <1>6, <2>2
    <3>2. KeyAt(table, i, e) \notin DOMAIN out[table]
      BY <2>5, <3>1 DEF WaitsIn
    <3>3. KeyAt(table, i, e) # KeyOf(w)
      BY <1>6, <1>8, <3>1
    <3> QED BY <1>2, <3>2, <3>3 DEF Put
  <2> QED BY <2>2, <2>4, <2>7, <2>8
<1>9. ASSUME NEW i \in items[table], Lost(table, i)
      PROVE  Missing(o, table, i) /\ ~\E v \in work' : i \in v.group
  <2>1. ~\E v \in work : i \in v.group
    BY <1>9 DEF Lost, Open
  <2> QED BY <1>4, <1>5, <1>7, <1>9, <2>1 DEF Lost
<1>10. ASSUME NEW i \in items[table], Open(table, i)
       PROVE  \E v \in work' : i \in v.group
  BY <1>4, <1>7, <1>10 DEF Open
<1>11. dropped'[table] = dropped[table] + Cardinality({})
  <2>1. dropped[table] \in Nat
    <3>1. dropped[table] = Cardinality(Misses(table))
      BY <1>1 DEF Placed, Started, Filled, Tables
    <3>2. IsFiniteSet(Misses(table))
      BY <1>1, ItemFacts, FS_Subset DEF TableInv, Misses
    <3> QED BY <3>1, <3>2, FS_CardinalityType
  <2> QED BY <1>4, <2>1, FS_EmptySet
<1>12. \A t \in Tables : t # table => out'[t] = out[t] /\ dropped'[t] = dropped[t]
  BY <1>1, <1>4
<1>13. Placed'
  <2> DEFINE L == {}
  <2>1. L \in SUBSET items[table]
    OBVIOUS
  <2>2. \A i \in L : Open(table, i) /\ Missing(o, table, i) /\ ~\E v \in work' : i \in v.group
    OBVIOUS
  <2>3. \A i \in items[table] \ L :
           Open(table, i) => Found(o, table, i) \/ \E v \in work' : i \in v.group
    BY <1>10
  <2>4. dropped'[table] = dropped[table] + Cardinality(L)
    BY <1>11
  <2> HIDE DEF L
  <2> QED BY <1>4, <1>5, <1>9, <1>12, <2>1, <2>2, <2>3, <2>4, PlacesAdvance
<1>14. Apart'
  <2>1. \A v \in work \ {w} : \A c \in Subgroups : v.group \cap c.group = {}
    BY <1>1, <1>7 DEF Apart
  <2> QED BY <1>1, <1>4, <1>7, <2>1 DEF Apart
<1>15. Waiting'
  <2>1. \A v, i : WaitsIn(out[table], table, v, i)' <=> WaitsIn(o, table, v, i)
    BY <1>4, PlacesFrame
  <2>2. ASSUME NEW v \in Subgroups, NEW i \in v.group PROVE WaitsIn(o, table, v, i)
    <3>1. i \in w.group /\ v.depth = w.depth + 1
      BY <1>7, <2>2
    <3> QED BY <1>6, <1>8, <3>1 DEF WaitsIn
  <2> QED BY <1>4, <1>5, <2>1, <2>2 DEF Waiting
<1>16. Keyed'
  BY <1>1, <1>2, <1>4, KeyedAdvance DEF PlaceInv, Keyed
<1> QED BY <1>13, <1>14, <1>15, <1>16 DEF PlaceInv
\* A table that is started on: all of its sentences wait.
LEMMA StartPlaces ==
  ASSUME TableInv, PlaceInv, NEW t \in Tables, work = {}, out[t] = <<>>, dropped[t] = 0,
         UNCHANGED <<golden, built, items, out, dropped>>,
         table' = t, work' = Calls(t, items[t], 1), Started(t)',
         \A u \in Tables : u # t => (Started(u)' <=> Started(u))
  PROVE  PlaceInv'
<1>1. Recorded /\ Placed /\ Keyed
  BY DEF TableInv, PlaceInv
<1>2. /\ \A i \in items[t] : \E c \in work' : i \in c.group
      /\ \A c \in work' :
           /\ c = [group |-> c.group, depth |-> c.depth]
           /\ c.depth = 1 /\ c.group \subseteq items[t]
           /\ \A b \in work' : b # c => b.group \cap c.group = {}
  BY CallsSplit
<1>3. Apart'
  BY <1>2 DEF Apart
<1>4. Waiting'
  <2> SUFFICES ASSUME NEW c \in work', NEW i \in c.group PROVE WaitsIn(out[table], table, c, i)'
    BY DEF Waiting
  <2>1. WaitsIn(out[table], table, c, i)' <=> WaitsIn(out'[t], t, c, i)
    BY PlacesFrame
  <2>2. i \in items[t] /\ c.depth = 1 /\ out'[t] = <<>>
    BY <1>2
  <2>3. Frames(t, i) \in Nat \ {0}
    BY <1>1, <2>2, FrameKeys
  <2>4. DOMAIN <<>> = {}
    OBVIOUS
  <2> QED BY <2>1, <2>2, <2>3, <2>4 DEF WaitsIn, Chained
<1>5. ASSUME NEW u \in Tables
      PROVE  /\ Started(u)' => /\ \A i \in items'[u] : Found(out[u], u, i)' \/ Open(u, i)' \/ Lost(u, i)'
                               /\ dropped'[u] = Cardinality(Misses(u)')
             /\ ~Started(u)' => out'[u] = <<>> /\ dropped'[u] = 0
  <2>1. CASE u = t
    <3>1. \A i \in items'[u] : Open(u, i)'
      BY <1>2, <2>1 DEF Open
    <3>2. Misses(u)' = {}
      BY <3>1 DEF Misses, Lost
    <3>3. dropped'[u] = Cardinality(Misses(u)')
      BY <2>1, <3>2, FS_EmptySet
    <3> QED BY <2>1, <3>1, <3>3
  <2>2. CASE u # t
    <3>1. \A i : ~Open(u, i) /\ ~Open(u, i)'
      BY <2>2 DEF Open
    <3>2. \A i : /\ Found(out[u], u, i)' <=> Found(out[u], u, i)
                 /\ Lost(u, i)' <=> Lost(u, i)
      BY <3>1, PlacesFrame DEF Lost
    <3>3. Misses(u)' = Misses(u)
      BY <3>2 DEF Misses
    <3> QED BY <1>1, <2>2, <3>1, <3>2, <3>3 DEF Placed
  <2> QED BY <2>1, <2>2
<1>6. Keyed'
  BY <1>1 DEF Keyed
<1> QED BY <1>3, <1>4, <1>5, <1>6 DEF PlaceInv, Placed

\* Before the tables are built there is nothing to place.
LEMMA IdlePlaces ==
  ASSUME TableInv, PlaceInv, ~Filled, ~Filled', UNCHANGED <<work, out, dropped>>
  PROVE  PlaceInv'
<1>1. work' = {} /\ out' = [t \in Tables |-> <<>>]
  BY DEF TableInv, Shape
<1>2. \A t \in Tables : out'[t] = <<>> /\ dropped'[t] = 0
  BY <1>1 DEF PlaceInv, Placed, Started
<1>3. Apart' /\ Waiting'
  BY <1>1 DEF Apart, Waiting
<1>4. Placed'
  BY <1>2 DEF Placed, Started
<1>5. Keyed'
  BY DEF PlaceInv, Keyed
<1> QED BY <1>3, <1>4, <1>5 DEF PlaceInv

\* Where the sentences stand depends on these variables only.
LEMMA PlacesUnchanged ==
  ASSUME PlaceInv, UNCHANGED <<golden, built, items, table, work, out, dropped>>, Filled' <=> Filled
  PROVE  PlaceInv'
<1>1. /\ \A t, i : /\ Found(out[t], t, i)' <=> Found(out[t], t, i)
                   /\ Missing(out[t], t, i)' <=> Missing(out[t], t, i)
      /\ \A w, i : WaitsIn(out[table], table, w, i)' <=> WaitsIn(out[table], table, w, i)
  BY PlacesFrame
<1>2. \A t, i : (Open(t, i)' <=> Open(t, i)) /\ (Lost(t, i)' <=> Lost(t, i))
  BY <1>1 DEF Open, Lost
<1>3. \A t : Misses(t)' = Misses(t) /\ (Started(t)' <=> Started(t))
  BY <1>2 DEF Misses, Started
<1>4. Apart' /\ Waiting' /\ Keyed'
  BY <1>1 DEF PlaceInv, Apart, Waiting, Keyed
<1>5. Placed'
  BY <1>1, <1>2, <1>3 DEF PlaceInv, Placed
<1> QED BY <1>4, <1>5 DEF PlaceInv

LEMMA PlaceInduction == TableInv /\ Counted /\ PlaceInv /\ [Next]_vars => PlaceInv'
<1> SUFFICES ASSUME TableInv, Counted, PlaceInv, [Next]_vars PROVE PlaceInv'
  OBVIOUS
<1>1. CASE \/ on_error_reduce_ids \/ write_error_reduce \/ moonBuild \/ states_of
           \/ skipDummy \/ parsedFine \/ misplace \/ record
  <2>1. ~Filled /\ ~Filled' /\ UNCHANGED <<work, out, dropped>>
    BY <1>1 DEF Filled, Filtering, on_error_reduce_ids, write_error_reduce, moonBuild,
                states_of, skipDummy, parsedFine, misplace, record
  <2> QED BY <2>1, IdlePlaces
<1>2. CASE startBuild
  <2>1. /\ table = "failing" /\ work = {} /\ ~Filled /\ Filled'
        /\ UNCHANGED <<golden, built, items, table, out, dropped>>
        /\ work' = Calls("failing", items["failing"], 1)
    BY <1>2 DEF startBuild, TableInv, Shape, Filled
  <2>2. out["failing"] = <<>> /\ dropped["failing"] = 0 /\ "failing" \in Tables
    BY <2>1 DEF PlaceInv, Placed, Started, Tables
  <2>3. /\ Started("failing")'
        /\ \A u \in Tables : u # "failing" => (Started(u)' <=> Started(u))
    BY <2>1 DEF Started, Tables
  <2> QED BY <2>1, <2>2, <2>3, StartPlaces
<1>3. CASE secondTable
  <2>1. /\ table = "failing" /\ work = {} /\ Filled /\ Filled' /\ table' = "reduced"
        /\ UNCHANGED <<golden, built, items, out, dropped>>
        /\ work' = Calls("reduced", items["reduced"], 1)
    BY <1>3 DEF secondTable, Filled
  <2>2. out["reduced"] = <<>> /\ dropped["reduced"] = 0 /\ "reduced" \in Tables
    BY <2>1 DEF PlaceInv, Placed, Started, Tables
  <2>3. /\ Started("reduced")'
        /\ \A u \in Tables : u # "reduced" => (Started(u)' <=> Started(u))
    BY <2>1 DEF Started, Tables
  <2> QED BY <2>1, <2>2, <2>3, StartPlaces
<1>4. CASE buildGroup
  BY <1>4, ResolvePlaces, DropPlaces, DeepenPlaces DEF buildGroup
<1>5. CASE writeTable \/ UNCHANGED vars
  <2>1. /\ UNCHANGED <<golden, built, items, table, work, out, dropped>>
        /\ Filled' <=> Filled
    BY <1>5 DEF writeTable, vars, Filled
  <2> QED BY <2>1, PlacesUnchanged
<1> QED BY <1>1, <1>2, <1>3, <1>4, <1>5 DEF Next
-----------------------------------------------------------------------------
(* Every sentence passed is counted once                                   *)

\* How far the loop over the sentences is.
Passed == es \cap 1..(n - 1)

LEMMA PassOne ==
  ASSUME n \in Nat \ {0}, n' = n + 1, golden' = golden
  PROVE  /\ Passed' = Passed \cup (es \cap {n}) /\ IsFiniteSet(Passed)
         /\ Cardinality(Passed) \in Nat
         /\ Cardinality(Passed') = IF n \in es THEN Cardinality(Passed) + 1 ELSE Cardinality(Passed)
<1>1. es' = es
  BY DEF es
<1>2. 1..(n' - 1) = 1..(n - 1) \cup {n}
  OBVIOUS
<1>3. Passed' = Passed \cup (es \cap {n})
  BY <1>1, <1>2 DEF Passed
<1>4. IsFiniteSet(1..(n - 1)) /\ Passed \in SUBSET (1..(n - 1))
  BY FS_Interval DEF Passed
<1>5. IsFiniteSet(Passed) /\ Cardinality(Passed) \in Nat
  BY <1>4, FS_Subset, FS_CardinalityType
<1>6. CASE n \in es
  <2>1. Passed' = Passed \cup {n} /\ n \notin Passed
    BY <1>3, <1>6 DEF Passed
  <2> QED BY <1>3, <1>5, <1>6, <2>1, FS_AddElement
<1>7. CASE n \notin es
  <2>1. Passed' = Passed
    BY <1>3, <1>7
  <2> QED BY <1>3, <1>5, <1>7, <2>1
<1> QED BY <1>6, <1>7

LEMMA CountInduction == TableInv /\ Counted /\ [Next]_vars => Counted'
<1> SUFFICES ASSUME TableInv, Counted, [Next]_vars PROVE Counted'
  OBVIOUS
<1>1. CASE UNCHANGED <<golden, n, parsed_fine, misplaced, items>>
  BY <1>1 DEF Counted, es
<1>2. ASSUME n' = n + 1, golden' = golden
      PROVE  /\ n' \in Nat \ {0}
             /\ es' = es /\ 1..(n - 1) \subseteq 1..(n' - 1)
             /\ Cardinality(es \cap 1..(n - 1)) \in Nat
             /\ Cardinality(es' \cap 1..(n' - 1)) =
                  IF n \in es THEN Cardinality(es \cap 1..(n - 1)) + 1
                  ELSE Cardinality(es \cap 1..(n - 1))
  <2>1. n \in Nat \ {0}
    BY DEF Counted
  <2>2. /\ Cardinality(Passed) \in Nat
        /\ Cardinality(Passed') = IF n \in es THEN Cardinality(Passed) + 1 ELSE Cardinality(Passed)
    BY <1>2, <2>1, PassOne
  <2>3. n' \in Nat \ {0} /\ 1..(n - 1) \subseteq 1..(n' - 1)
    BY <1>2, <2>1
  <2> QED BY <1>2, <2>2, <2>3 DEF Passed, es
<1>3. Cardinality(items["failing"]) \in Nat /\ IsFiniteSet(items["failing"])
  BY ItemFacts, FS_CardinalityType DEF TableInv, Tables
<1>4. CASE skipDummy
  <2>1. n' = n + 1 /\ golden' = golden /\ n \notin es
        /\ UNCHANGED <<parsed_fine, misplaced, items>>
    BY <1>4 DEF skipDummy
  <2> QED BY <1>2, <2>1 DEF Counted
<1>5. CASE parsedFine
  <2>1. n' = n + 1 /\ golden' = golden /\ n \in es /\ parsed_fine' = parsed_fine + 1
        /\ UNCHANGED <<misplaced, items>>
    BY <1>5 DEF parsedFine, Filtering
  <2> QED BY <1>2, <1>3, <2>1 DEF Counted
<1>6. CASE misplace
  <2>1. n' = n + 1 /\ golden' = golden /\ n \in es /\ misplaced' = misplaced + 1
        /\ UNCHANGED <<parsed_fine, items>>
    BY <1>6 DEF misplace, Filtering
  <2> QED BY <1>2, <1>3, <2>1 DEF Counted
<1>7. CASE record
  <2>1. n' = n + 1 /\ golden' = golden /\ n \in es /\ golden[n].fails # None
        /\ UNCHANGED <<parsed_fine, misplaced>>
    BY <1>7 DEF record, Filtering
  <2>2. StackOf("failing", n, built) # None
    <3> DEFINE E == [entry : STRING, sentence : Seq(STRING), message : DOMAIN Named,
                     fails : Failure \cup {None}]
    <3>1. golden \in Seq(E) /\ n \in DOMAIN golden
      BY <2>1, MessageAssumption DEF TableInv, Shape, es
    <3>2. \A e \in E : e.fails \in Failure \cup {None}
      OBVIOUS
    <3> HIDE DEF E
    <3>3. golden[n].fails \in Failure
      BY <2>1, <3>1, <3>2
    <3>4. golden[n].fails.stack \in Stack
      BY <3>3 DEF Failure
    <3> QED BY <3>4, MessageAssumption DEF StackOf
  <2>3. /\ items'["failing"] = items["failing"] \cup {n}
        /\ items'["reduced"] \subseteq items["reduced"] \cup {n}
    BY <1>7, <2>2 DEF record, Tables
  <2>4. n \notin items["failing"] /\ n \in 1..(n' - 1)
    BY <2>1 DEF Counted
  <2>5. Cardinality(items'["failing"]) = Cardinality(items["failing"]) + 1
    BY <1>3, <2>3, <2>4, FS_AddElement
  <2>6. Cardinality(es' \cap 1..(n' - 1)) = parsed_fine' + misplaced' + Cardinality(items'["failing"])
    BY <1>2, <1>3, <2>1, <2>5 DEF Counted
  <2>7. /\ items'["reduced"] \subseteq items'["failing"]
        /\ items'["failing"] \subseteq es' \cap 1..(n' - 1)
        /\ \A i \in items'["failing"] : golden'[i].fails # None
    BY <1>2, <2>1, <2>3, <2>4 DEF Counted
  <2> QED BY <1>2, <2>1, <2>6, <2>7 DEF Counted
<1>8. CASE \/ on_error_reduce_ids \/ write_error_reduce \/ moonBuild \/ states_of \/ startBuild
           \/ secondTable \/ buildGroup \/ writeTable \/ UNCHANGED vars
  BY <1>1, <1>8 DEF on_error_reduce_ids, write_error_reduce, moonBuild, states_of, startBuild,
                    secondTable, buildGroup, writeTable, vars
<1> QED BY <1>4, <1>5, <1>6, <1>7, <1>8 DEF Next

-----------------------------------------------------------------------------
(* The written file                                                        *)

\* The tree was built with the ids that are on disk, and the tables that were built are
\* what was written.
Finished ==
  /\ phase \in {"start", "ids", "tree", "filter", "build", "done", "exit"}
  /\ phase \in {"tree", "filter", "build", "done"} => ids = built
  /\ phase = "done" => /\ table = "reduced" /\ work = {}
                       /\ written = [tables |-> out, depth |-> max_depth]

LEMMA FinishInduction == TableInv /\ Finished /\ [Next]_vars => Finished'
<1> SUFFICES ASSUME TableInv, Finished, [Next]_vars PROVE Finished'
  OBVIOUS
<1>1. CASE \/ on_error_reduce_ids \/ write_error_reduce \/ moonBuild \/ states_of
           \/ skipDummy \/ parsedFine \/ misplace \/ record \/ startBuild \/ secondTable \/ buildGroup
  BY <1>1 DEF Finished, on_error_reduce_ids, write_error_reduce, moonBuild, states_of, Filtering,
              skipDummy, parsedFine, misplace, record, startBuild, secondTable, buildGroup
<1>2. CASE writeTable
  <2>1. max_depth' = max_depth
    BY <1>2 DEF writeTable, max_depth
  <2> QED BY <1>2, <2>1 DEF Finished, writeTable
<1>3. CASE UNCHANGED vars
  <2>1. max_depth' = max_depth
    BY <1>3 DEF vars, max_depth
  <2> QED BY <1>3, <2>1 DEF Finished, vars
<1> QED BY <1>1, <1>2, <1>3 DEF Next

RecordInv == TableInv /\ PlaceInv /\ Counted /\ Finished

LEMMA RecordInvariant == Spec => []RecordInv
<1>1. Init => RecordInv
  <2> SUFFICES ASSUME Init PROVE RecordInv
    OBVIOUS
  <2>1. Shape
    BY DEF Init, Shape, Filled, Tables
  <2>2. Recorded /\ GroupsExact /\ NeverGuessed
    BY DEF Init, Recorded, GroupsExact, NeverGuessed
  <2>3. Apart /\ Waiting
    BY DEF Init, Apart, Waiting
  <2>4. Placed
    BY DEF Init, Placed, Started, Filled
  <2>5. Keyed
    <3>1. \A t \in Tables : out[t] = <<>> /\ DOMAIN out[t] = {}
      BY DEF Init
    <3>2. \A t \in Tables : out[t] = [k \in DOMAIN out[t] |-> out[t][k]]
      BY <3>1
    <3>3. Longest(out, 0)
      BY <3>1 DEF Longest
    <3>4. dropped = [t \in Tables |-> dropped[t]]
      BY DEF Init
    <3> QED BY <3>2, <3>3, <3>4 DEF Keyed
  <2>6. Counted
    <3>1. 1..(n - 1) = {} /\ items["failing"] = {} /\ items["reduced"] = {}
      BY DEF Init, Tables
    <3>2. es \cap 1..(n - 1) = {} /\ Cardinality({}) = 0
      BY <3>1, FS_EmptySet
    <3>3. n = 1 /\ parsed_fine = 0 /\ misplaced = 0
      BY DEF Init
    <3> QED BY <3>1, <3>2, <3>3 DEF Counted
  <2>7. Finished
    BY DEF Init, Finished
  <2> QED BY <2>1, <2>2, <2>3, <2>4, <2>5, <2>6, <2>7 DEF RecordInv, TableInv, PlaceInv
<1>2. RecordInv /\ [Next]_vars => RecordInv'
  BY TableInduction, PlaceInduction, CountInduction, FinishInduction DEF RecordInv
<1> QED BY <1>1, <1>2, PTL DEF Spec
LEMMA DeepestKey ==
  ASSUME Keyed, out["failing"] # <<>>
  PROVE  /\ max_depth \in Nat
         /\ \A t \in Tables : \A k \in DOMAIN out[t] : Len(k) <= max_depth
<1> DEFINE lengths == {Len(k) : k \in DOMAIN out["failing"] \cup DOMAIN out["reduced"]}
<1>1. PICK b \in Nat : Longest(out, b)
  BY DEF Keyed
<1>2. lengths \subseteq 0..b /\ lengths \in SUBSET Nat
  <2>1. \A t \in Tables : \A k \in DOMAIN out[t] : Len(k) \in 0..b
    BY <1>1 DEF Longest
  <2> QED BY <2>1 DEF Tables
<1>3. DOMAIN out["failing"] # {}
  <2>1. out["failing"] = [k \in DOMAIN out["failing"] |-> out["failing"][k]]
    BY DEF Keyed, Tables
  <2>2. \A f : f = [k \in {} |-> f[k]] => f = <<>>
    OBVIOUS
  <2> QED BY <2>1, <2>2
<1>4. lengths # {}
  BY <1>3
<1>5. \E x \in lengths : \A y \in lengths : x >= y
  <2>1. b \in lengths
    <3>1. CASE b = 0
      BY <1>2, <1>4, <3>1
    <3>2. CASE b # 0
      BY <1>1, <3>2 DEF Longest, Tables
    <3> QED BY <3>1, <3>2
  <2>2. \A y \in lengths : b >= y
    BY <1>2
  <2> QED BY <2>1, <2>2
<1>6. max_depth = Max(lengths)
  BY DEF max_depth
<1>7. Max(lengths) \in lengths /\ \A y \in lengths : Max(lengths) >= y
  BY <1>5 DEF Max
<1>8. \A t \in Tables : \A k \in DOMAIN out[t] : Len(k) \in lengths
  BY DEF Tables
<1> QED BY <1>2, <1>6, <1>7, <1>8

LEMMA LeastOf == ASSUME NEW S \in SUBSET Nat, NEW m \in S, \A y \in S : m <= y PROVE Min(S) = m
<1>1. Min(S) \in S /\ \A y \in S : Min(S) <= y
  BY DEF Min
<1>2. Min(S) \in Nat /\ m \in Nat /\ Min(S) <= m /\ m <= Min(S)
  BY <1>1
<1> QED BY <1>2

\* The lookup of a sentence's failure in the written tables.
LEMMA LookupFinds ==
  ASSUME RecordInv, phase = "done", out["failing"] # <<>>,
         NEW t \in Tables, NEW i \in items[t], Found(out[t], t, i)
  PROVE  lookup(StackOf(t, i, ids), Signature(i), t) = Value(i)
<1> DEFINE s == StackOf(t, i, ids)
           keys == written.tables[t]
           entry(d) == IF key_of(s, d) \in DOMAIN keys THEN keys[key_of(s, d)] ELSE None
           ends == {d \in 1..Shallower(Len(s), written.depth) : entry(d) # Deeper}
           found == entry(Min(ends))
<1>1. /\ ids = built /\ written.tables = out /\ written.depth = max_depth
      /\ Recorded /\ Shape /\ Counted /\ Keyed
  BY DEF RecordInv, Finished, TableInv, PlaceInv
<1>2. /\ Len(s) = Frames(t, i) /\ keys = out[t]
      /\ \A d : key_of(s, d) = KeyAt(t, i, d)
  BY <1>1 DEF Frames, KeyAt
<1>3. PICK d \in 1..Frames(t, i) :
        /\ Chained(out[t], t, i, d)
        /\ KeyAt(t, i, d) \in DOMAIN out[t] /\ out[t][KeyAt(t, i, d)] = Value(i)
  BY DEF Found
<1>4. Frames(t, i) \in Nat \ {0} /\ Len(KeyAt(t, i, d)) = d /\ Value(i) \notin {None, Deeper}
  BY <1>1, FrameKeys, ItemFacts
<1>5. max_depth \in Nat /\ d <= max_depth
  BY <1>1, <1>3, <1>4, DeepestKey
<1>6. d \in 1..Shallower(Len(s), written.depth)
  BY <1>1, <1>2, <1>4, <1>5 DEF Shallower
<1>7. entry(d) = Value(i)
  BY <1>2, <1>3
<1>8. d \in ends
  BY <1>4, <1>6, <1>7
<1>9. \A e \in 1..(d - 1) : entry(e) = Deeper
  BY <1>2, <1>3 DEF Chained
<1>10. ends \in SUBSET Nat /\ \A e \in ends : e \in 1..Shallower(Len(s), written.depth) /\ entry(e) # Deeper
  OBVIOUS
<1>11. \A e \in ends : d <= e
  BY <1>9, <1>10
<1>12. Min(ends) = d
  <2> HIDE DEF ends
  <2> QED BY <1>8, <1>10, <1>11, LeastOf
<1>13. found = Value(i) /\ ends # {} /\ found # None
  BY <1>4, <1>7, <1>8, <1>12
<1>14. found.signature = Signature(i)
  BY <1>13 DEF Value
<1> HIDE DEF found, ends
<1>15. lookup(s, Signature(i), t) = IF ends = {} \/ found = None THEN None
        ELSE IF found.signature = Signature(i) \/ message_fits(found.message, Signature(i))
             THEN found ELSE None
  BY DEF lookup, found, ends
<1> QED BY <1>13, <1>14, <1>15

LEMMA LookupMisses ==
  ASSUME RecordInv, phase = "done", out["failing"] # <<>>,
         NEW t \in Tables, NEW i \in items[t], Missing(out[t], t, i)
  PROVE  lookup(StackOf(t, i, ids), Signature(i), t) = None
<1> DEFINE s == StackOf(t, i, ids)
           keys == written.tables[t]
           entry(d) == IF key_of(s, d) \in DOMAIN keys THEN keys[key_of(s, d)] ELSE None
           ends == {d \in 1..Shallower(Len(s), written.depth) : entry(d) # Deeper}
           found == entry(Min(ends))
<1>1. /\ ids = built /\ written.tables = out /\ written.depth = max_depth
      /\ Recorded /\ Shape /\ Keyed
  BY DEF RecordInv, Finished, TableInv, PlaceInv
<1>2. /\ Len(s) = Frames(t, i) /\ keys = out[t]
      /\ \A d : key_of(s, d) = KeyAt(t, i, d)
  BY <1>1 DEF Frames, KeyAt
<1>3. Frames(t, i) \in Nat \ {0} /\ max_depth \in Nat
  BY <1>1, FrameKeys, DeepestKey
<1>4. \A e \in 1..(Frames(t, i) - 1) : entry(e) = Deeper
  BY <1>2 DEF Missing, Chained
<1>5. entry(Frames(t, i)) = None
  BY <1>2 DEF Missing
<1>6. \A e \in 1..Shallower(Len(s), written.depth) : e \in 1..Frames(t, i)
  BY <1>1, <1>2, <1>3 DEF Shallower
<1>7. \A e \in ends : e = Frames(t, i)
  BY <1>3, <1>4, <1>6
<1>8. ends # {} => Min(ends) = Frames(t, i)
  <2> SUFFICES ASSUME ends # {} PROVE Min(ends) = Frames(t, i)
    OBVIOUS
  <2>1. ends \in SUBSET Nat /\ Frames(t, i) \in ends /\ \A e \in ends : Frames(t, i) <= e
    BY <1>3, <1>7
  <2> HIDE DEF ends
  <2> QED BY <2>1, LeastOf
<1>9. ends # {} => found = None
  BY <1>5, <1>8
<1> HIDE DEF found, ends
<1>10. lookup(s, Signature(i), t) = IF ends = {} \/ found = None THEN None
        ELSE IF found.signature = Signature(i) \/ message_fits(found.message, Signature(i))
             THEN found ELSE None
  BY DEF lookup, found, ends
<1> QED BY <1>9, <1>10

\* With the %on_error_reduce set it was generated beside, and whatever order the groups
\* come in, the table finds every sentence that claims a key except those counted as
\* dropped: for every golden and every automaton.
THEOREM TableIsComplete == Spec => []RecordedOrDropped
<1>1. RecordInv => MessageTypeOK
  <2> SUFFICES ASSUME RecordInv PROVE MessageTypeOK
    OBVIOUS
  <2>1. TableInv /\ Shape /\ Counted /\ Waiting /\ Finished
    BY DEF RecordInv, TableInv, PlaceInv
  <2>2. ASSUME NEW w \in work
        PROVE  /\ w.group # {} /\ w.group \subseteq items[table]
               /\ \E i \in w.group : w.depth <= Len(StackOf(table, i, built))
    BY <2>1, KeyOfSentence DEF Waiting, WaitsIn, Frames
  <2>3. items["failing"] \subseteq 1..(n - 1)
    BY <2>1 DEF Counted
  <2> QED BY <2>1, <2>2, <2>3 DEF MessageTypeOK, Shape, Counted, Finished
<1>2. RecordInv => RecordedOrDropped
  <2> SUFFICES ASSUME RecordInv, phase = "done", written.tables["failing"] # <<>>, NEW t \in Tables
               PROVE  Cardinality({i \in items[t] :
                        lookup(StackOf(t, i, ids), Signature(i), t) # Value(i)}) = dropped[t]
    BY <1>1 DEF RecordedOrDropped
  <2>1. /\ written.tables = out /\ work = {} /\ table = "reduced"
        /\ Placed /\ Shape /\ Counted
    BY DEF RecordInv, Finished, PlaceInv, TableInv
  <2>2. Started(t)
    BY <2>1 DEF Started, Filled, Tables
  <2>3. /\ \A i \in items[t] : Found(out[t], t, i) \/ Lost(t, i)
        /\ dropped[t] = Cardinality(Misses(t))
    BY <2>1, <2>2 DEF Placed, Open
  <2>4. ASSUME NEW i \in items[t]
        PROVE  lookup(StackOf(t, i, ids), Signature(i), t) # Value(i) <=> Lost(t, i)
    <3>1. Value(i) # None /\ Value(i) # Deeper
      BY <2>1, <2>4, ItemFacts
    <3>2. CASE Lost(t, i)
      BY <2>1, <2>4, <3>1, <3>2, LookupMisses DEF Lost
    <3>3. CASE ~Lost(t, i)
      BY <2>1, <2>3, <2>4, <3>3, LookupFinds
    <3> QED BY <3>2, <3>3
  <2>5. {i \in items[t] : lookup(StackOf(t, i, ids), Signature(i), t) # Value(i)} = Misses(t)
    BY <2>4 DEF Misses
  <2> QED BY <2>3, <2>5
<1> QED BY <1>2, RecordInvariant, PTL
=============================================================================
