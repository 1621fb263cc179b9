------------------------------ MODULE Rems_proofs ------------------------------
(* What syncs with REMS and applications promise, for any applicants,          *)
(* organizations, licenses, requests and handlers. The two specifications,     *)
(* SyncSpec and Spec, have no variables in common.                             *)
EXTENDS RemsPublication, RemsApplications, FiniteSetTheorems, SequenceTheorems, TLAPS

(***************************************************************************)
(*                              PUBLICATION                                *)
(*                                                                         *)
(* A sync is a list of what is left to do, and every step may put more in  *)
(* front of it. The invariant says what such a list looks like: operations *)
(* come in an order, what is used goes after what uses it, and what goes   *)
(* comes again if the dataset needs it.                                    *)
(***************************************************************************)

-----------------------------------------------------------------------------
(* What the entities in REMS and the rows about them look like. *)

IsReference(i) == rems[i].type = "license" /\ rems[i].what \in {"reference"} \X {1, 2}
IsTerms(i) == rems[i].type = "license" /\ rems[i].what \in {"terms"} \X (0 .. MaxTerms)

\* Entity i has been made for key k.
IsFor(i, k) ==
    \/ k = Terms /\ IsTerms(i)
    \/ k = Reference /\ IsReference(i)
    \/ k = Resource /\ rems[i].type = "resource"
    \/ k = Form /\ rems[i].type = "form"
    \/ k = Item /\ rems[i].type = "item"
    \/ k[1] = "workflow" /\ rems[i].type = "workflow" /\ rems[i].what = << k[2], k[3] >>

HasOne(j, type) ==
    \E i \in rems[j].uses : rems[i].type = type /\ \A x \in rems[j].uses : rems[x].type = type
      => x = i

EntitiesFit ==
    \A j \in Id :
        /\ rems[j].uses \subseteq Id
        /\ rems[j].type = "item" =>
              /\ HasOne(j, "resource") /\ HasOne(j, "workflow")
              /\ \A i \in rems[j].uses : rems[i].type \in {"resource", "workflow", "form"}
        /\ rems[j].type = "resource" => \A i \in rems[j].uses : rems[i].type = "license"
        /\ rems[j].type \notin {"item", "resource"} => rems[j].uses = {}
        /\ label = 1 /\ IsReference(j) => rems[j].what = << "reference", 1 >>

RowsFit(d) ==
    /\ d.custom \subseteq Id
    /\ \A i \in d.custom : IsTerms(i)
    /\ \A k \in Key : d.row[k] # 0 => d.row[k] \in Id /\ IsFor(d.row[k], k)
    /\ d.row[Terms] # 0 => d.row[Terms] \in d.custom

-----------------------------------------------------------------------------
(* The list of what is left to do. *)

Pending(s) == {s[n] : n \in DOMAIN s}

IsEarly(op) == op[1] \in {"archive", "disable", "hide", "close"}
IsFixed(op) == ~IsEarly(op) /\ op[1] \notin {"create", "forget"}

KeyRank(k) ==
    CASE k = Terms -> 3 [] k = Reference -> 4 [] k = Resource -> 7 [] k = Form -> 8
      [] k = Item -> 9 [] OTHER -> 1

Rank(op) ==
    CASE op[1] \in {"ensure", "create"} -> KeyRank(op[2])
      [] op[1] = "closeAll" -> 1
      [] op[1] = "organization" -> 2
      [] op[1] = "licenses" -> 5
      [] op[1] \in {"unused", "forget"} -> 6
      [] op[1] = "archiveAll" -> IF op[2] = "item" THEN 2 ELSE 3
      [] OTHER -> 0

Follows(op, next) == ~IsEarly(op) => IsFixed(next) /\ Rank(op) < Rank(next)

Ordered(s) == \A n, m \in DOMAIN s : n < m => Follows(s[n], s[m])

Paired(s) ==
    \A n \in DOMAIN s : s[n][1] = "disable" => n + 1 \in DOMAIN s /\ s[n+1] = << "hide", s[n][2] >>

Needed(w) ==
    {Workflow(w), Reference, Resource, Item}
    \cup {k \in {Terms} : w.terms # 0} \cup {k \in {Form} : w.manual}

Leaving(s, i) == {<< "archive", i >>, << "hide", i >>} \cap Pending(s) # {}

Soon(s, k) == {<< "ensure", k >>, << "create", k >>} \cap Pending(s) # {}

OpsFit(s) ==
    \A op \in Pending(s) :
        /\ op[1] \in {"archive", "disable", "hide"} =>
              /\ op[2] \in Id
              /\ rems[op[2]].type \in {"license", "resource", "item"}
              /\ label = 1 => ~IsReference(op[2])
        /\ op[1] = "archive" /\ IsTerms(op[2]) => op[2] \in sync.db.custom
        /\ op[1] \in {"ensure", "create", "organization", "licenses"} => sync.publish
        /\ op[1] \in {"archiveAll", "closeAll"} => ~sync.publish
        /\ op[1] \in {"ensure", "create"} => op[2] \in Needed(sync.db.want)

UsersFirst(s) ==
    \A n \in DOMAIN s : s[n][1] = "hide" /\ ~IsReference(s[n][2]) =>
        \A j \in Active("resource") \cup Active("item") :
            s[n][2] \in rems[j].uses /\ rems[s[n][2]].type \in {"license", "resource"} =>
                \E m \in DOMAIN s : m < n /\ s[m] \in {<< "archive", j >>, << "hide", j >>}

\* The row of the terms is not forgotten.
ForgetsNothing(s) ==
    << "forget", 0 >> \in Pending(s) =>
        \/ Row(Terms) = 0
        \/ sync.publish /\ sync.db.want.terms # 0
        \/ Leaving(s, Row(Terms))

\* What is made anew has gone before.
Replaced(s) == \A k \in Key : << "create", k >> \in Pending(s) /\ Row(k) # 0 => Leaving(s, Row(k))

NeededFollow(s) ==
    sync.publish => \A op \in Pending(s), k \in Needed(sync.db.want) :
        ~IsEarly(op) /\ Rank(op) < KeyRank(k) => << "ensure", k >> \in Pending(s)

\* What goes comes again, if it is needed.
Again(s, i) ==
    /\ rems[i].type = "item" => Soon(s, Item)
    /\ rems[i].type = "resource" => Soon(s, Resource)
    /\ rems[i].type = "license" => << "ensure", Resource >> \in Pending(s)
    /\ i = Row(Terms) /\ sync.db.want.terms # 0 => Soon(s, Terms)
    /\ i = Row(Reference) => Soon(s, Reference)

ComesAgain(s) == sync.publish => \A i \in Id : Leaving(s, i) => Again(s, i)

ListFits(s) ==
    /\ Ordered(s)
    /\ Paired(s)
    /\ OpsFit(s)
    /\ UsersFirst(s)
    /\ ForgetsNothing(s)
    /\ Replaced(s)
    /\ NeededFollow(s)
    /\ ComesAgain(s)

IsMade ==
    sync.publish /\ ~sync.db.error =>
        \A k \in Needed(sync.db.want) : ~Soon(sync.todo, k) =>
            /\ Row(k) # 0
            /\ rems[Row(k)].uses = Wanted(k).uses
            /\ k # Reference => rems[Row(k)].what = Wanted(k).what

SyncFits ==
    sync # None =>
        /\ RowsFit(sync.db)
        /\ ListFits(sync.todo)
        /\ IsMade
        /\ sync.db.error => sync.todo = << >>

-----------------------------------------------------------------------------
(* Rows and REMS agree, as long as nothing was rolled back. *)

Cur == IF sync = None THEN db ELSE sync.db

RowsAgree ==
    crashes = 0 =>
        /\ \A k \in Key : Cur.row[k] # 0 => rems[Cur.row[k]].state # "archived"
        /\ Active("item") \subseteq {Cur.row[Item]}
        /\ Active("resource") \subseteq {Cur.row[Resource]}
        /\ \A j \in Active("item") : Cur.row[Resource] # 0 /\ Cur.row[Resource] \in rems[j].uses

\* An entity that is disabled is archived next.
HalfArchived ==
    crashes = 0 /\ label = 1 => \A i \in Id : rems[i].state = "disabled" =>
        sync # None /\ sync.todo # << >> /\ sync.todo[1] = << "hide", i >>

\* What is in REMS goes, once the list says what that is, and so do open applications.
TakesAway(s) ==
    \A type \in {"item", "resource"} : << "archiveAll", type >> \notin Pending(s) =>
        \A j \in Active(type) : Leaving(s, j)

ClosesOpen(s) ==
    << "closeAll", 0 >> \notin Pending(s) =>
        \A a \in Applicant : IsOpen(a) => << "close", a >> \in Pending(s)

Unpublishes ==
    crashes = 0 /\ sync # None /\ ~sync.publish /\ ~sync.db.error =>
        TakesAway(sync.todo) /\ ClosesOpen(sync.todo)

PublishesForRems ==
    sync # None /\ "stale" \notin Kinds =>
        /\ sync.publish = IsRems(sync.db.want)
        /\ sync.kept = [want |-> sync.db.want, error |-> FALSE]

\* The rows d of what a dataset needs.
RowsMade(d) ==
    \A k \in Needed(d.want) :
        /\ d.row[k] # 0
        /\ k = Terms => rems[d.row[k]].what = << "terms", d.want.terms >>
        /\ k = Resource =>
              rems[d.row[k]].uses =
                  {d.row[Reference]} \cup (IF d.want.terms = 0 THEN {} ELSE {d.row[Terms]})
        /\ k = Item =>
              rems[d.row[k]].uses =
                  {d.row[Resource], d.row[Workflow(d.want)]}
                  \cup (IF d.want.manual THEN {d.row[Form]} ELSE {})

PublishedIsMade == IsRems(db.want) /\ ~db.error => RowsMade(db)

DBFits == RowsFit(db)

-----------------------------------------------------------------------------
(* Lists of operations: what is in them and in which order. *)

LEMMA ListFacts ==
    ASSUME NEW s \in Seq(Op)
    PROVE  /\ Len(s) \in Nat
           /\ DOMAIN s = 1 .. Len(s)
           /\ \A n \in DOMAIN s : s[n] \in Op
           /\ s # << >> => 1 \in DOMAIN s
           /\ s = << >> => DOMAIN s = {}
<1>1. Len(s) \in Nat /\ DOMAIN s = 1 .. Len(s) /\ \A n \in DOMAIN s : s[n] \in Op
  BY LenProperties, ElementOfSeq
<1>2. s # << >> => Len(s) \in Nat \ {0}
  BY EmptySeq
<1>3. s = << >> => Len(s) = 0
  BY EmptySeq
<1> QED BY <1>1, <1>2, <1>3

LEMMA TailFacts ==
    ASSUME NEW s \in Seq(Op), s # << >>
    PROVE  /\ Tail(s) \in Seq(Op)
           /\ DOMAIN Tail(s) = 1 .. (Len(s) - 1)
           /\ \A n \in DOMAIN Tail(s) : Tail(s)[n] = s[n + 1] /\ n + 1 \in DOMAIN s
           /\ Pending(s) = {s[1]} \cup Pending(Tail(s))
<1>1. /\ Tail(s) \in Seq(Op) /\ Len(Tail(s)) = Len(s) - 1
      /\ \A n \in 1 .. Len(Tail(s)) : Tail(s)[n] = s[n + 1]
  BY HeadTailProperties
<1>2. DOMAIN Tail(s) = 1 .. (Len(s) - 1) /\ DOMAIN s = 1 .. Len(s) /\ Len(s) \in Nat
      /\ 1 \in DOMAIN s
  BY <1>1, ListFacts
<1>3. \A n \in DOMAIN Tail(s) : Tail(s)[n] = s[n + 1] /\ n + 1 \in DOMAIN s
  BY <1>1, <1>2
<1>4. \A x \in Pending(s) : x \in {s[1]} \cup Pending(Tail(s))
  <2> SUFFICES ASSUME NEW n \in DOMAIN s, n # 1 PROVE s[n] \in Pending(Tail(s))
    BY DEF Pending
  <2>1. n - 1 \in DOMAIN Tail(s) /\ (n - 1) + 1 = n
    BY <1>2
  <2>2. s[n] = Tail(s)[n - 1]
    BY <2>1, <1>3
  <2> QED BY <2>1, <2>2 DEF Pending
<1>5. \A x \in {s[1]} \cup Pending(Tail(s)) : x \in Pending(s)
  BY <1>2, <1>3 DEF Pending
<1> QED BY <1>1, <1>2, <1>3, <1>4, <1>5

LEMMA ConcatFacts ==
    ASSUME NEW s \in Seq(Op), NEW t \in Seq(Op)
    PROVE  /\ s \o t \in Seq(Op)
           /\ \A n \in DOMAIN (s \o t) :
                 \/ n \in DOMAIN s /\ (s \o t)[n] = s[n]
                 \/ n > Len(s) /\ n - Len(s) \in DOMAIN t /\ (s \o t)[n] = t[n - Len(s)]
           /\ \A n \in DOMAIN s : n \in DOMAIN (s \o t) /\ (s \o t)[n] = s[n]
           /\ \A n \in DOMAIN t : n + Len(s) \in DOMAIN (s \o t) /\ (s \o t)[n + Len(s)] = t[n]
           /\ Pending(s \o t) = Pending(s) \cup Pending(t)
<1>1. /\ s \o t \in Seq(Op) /\ Len(s \o t) = Len(s) + Len(t)
      /\ \A i \in 1 .. Len(s) + Len(t) : (s \o t)[i] = IF i <= Len(s) THEN s[i] ELSE t[i - Len(s)]
  BY ConcatProperties
<1>2. /\ DOMAIN s = 1 .. Len(s) /\ DOMAIN t = 1 .. Len(t)
           /\ DOMAIN (s \o t) = 1 .. (Len(s) + Len(t))
      /\ Len(s) \in Nat /\ Len(t) \in Nat
  BY <1>1, ListFacts
<1>3. \A n \in DOMAIN (s \o t) :
                 \/ n \in DOMAIN s /\ (s \o t)[n] = s[n]
                 \/ n > Len(s) /\ n - Len(s) \in DOMAIN t /\ (s \o t)[n] = t[n - Len(s)]
  BY <1>1, <1>2
<1>4. \A n \in DOMAIN s : n \in DOMAIN (s \o t) /\ (s \o t)[n] = s[n]
  BY <1>1, <1>2
<1>5. \A n \in DOMAIN t : n + Len(s) \in DOMAIN (s \o t) /\ (s \o t)[n + Len(s)] = t[n]
  <2> SUFFICES ASSUME NEW n \in DOMAIN t
               PROVE  n + Len(s) \in DOMAIN (s \o t) /\ (s \o t)[n + Len(s)] = t[n]
    OBVIOUS
  <2>1. n + Len(s) \in 1 .. Len(s) + Len(t) /\ ~(n + Len(s) <= Len(s)) /\ (n + Len(s)) - Len(s) = n
    BY <1>2
  <2> QED BY <2>1, <1>1, <1>2
<1>6. \A x \in Pending(s \o t) : x \in Pending(s) \cup Pending(t)
  <2> SUFFICES ASSUME NEW n \in DOMAIN (s \o t)
               PROVE  (s \o t)[n] \in Pending(s) \cup Pending(t)
    BY DEF Pending
  <2> QED BY <1>3 DEF Pending
<1>7. \A x \in Pending(s) \cup Pending(t) : x \in Pending(s \o t)
  BY <1>4, <1>5, Zenon DEF Pending
<1>8. Pending(s \o t) = Pending(s) \cup Pending(t)
  BY <1>6, <1>7
<1> QED BY <1>1, <1>3, <1>4, <1>5, <1>8, Zenon

LEMMA OneFacts ==
    ASSUME NEW a \in Op
    PROVE  << a >> \in Seq(Op) /\ Pending(<< a >>) = {a} /\ Ordered(<< a >>)
           /\ (a[1] # "disable" => Paired(<< a >>))
BY DEF Pending, Ordered, Paired

LEMMA TwoFacts ==
    ASSUME NEW a \in Op, NEW b \in Op
    PROVE  /\ << a, b >> \in Seq(Op) /\ Pending(<< a, b >>) = {a, b}
           /\ (Follows(a, b) => Ordered(<< a, b >>))
           /\ (a[1] # "disable" /\ b[1] # "disable" => Paired(<< a, b >>))
BY DEF Pending, Ordered, Paired

LEMMA OrderedConcat ==
    ASSUME NEW s \in Seq(Op), NEW t \in Seq(Op), Ordered(s), Ordered(t),
           \A x \in Pending(s), y \in Pending(t) : Follows(x, y)
    PROVE  Ordered(s \o t)
<1> SUFFICES ASSUME NEW n \in DOMAIN (s \o t), NEW m \in DOMAIN (s \o t), n < m
             PROVE  Follows((s \o t)[n], (s \o t)[m])
  BY DEF Ordered
<1>1. DOMAIN s = 1 .. Len(s) /\ DOMAIN t = 1 .. Len(t) /\ Len(s) \in Nat /\ Len(t) \in Nat
      /\ DOMAIN (s \o t) \subseteq Nat
  BY ListFacts, ConcatFacts
<1>2. CASE n \in DOMAIN s /\ m \in DOMAIN s
  BY <1>2, ConcatFacts DEF Ordered
<1>3. CASE n \in DOMAIN s /\ m \notin DOMAIN s
  <2>1. (s \o t)[m] = t[m - Len(s)] /\ m - Len(s) \in DOMAIN t
    BY <1>3, ConcatFacts
  <2> QED BY <1>3, <2>1, ConcatFacts DEF Pending
<1>4. CASE n \notin DOMAIN s
  <2>1. (s \o t)[n] = t[n - Len(s)] /\ n - Len(s) \in DOMAIN t /\ n > Len(s)
    BY <1>4, ConcatFacts
  <2>2. m \notin DOMAIN s
    BY <2>1, <1>1
  <2>3. (s \o t)[m] = t[m - Len(s)] /\ m - Len(s) \in DOMAIN t
    BY <2>2, ConcatFacts
  <2>4. n - Len(s) < m - Len(s)
    BY <1>1
  <2> QED BY <2>1, <2>3, <2>4 DEF Ordered
<1> QED BY <1>2, <1>3, <1>4

LEMMA OrderedTail ==
    ASSUME NEW s \in Seq(Op), s # << >>, Ordered(s)
    PROVE  Ordered(Tail(s)) /\ \A x \in Pending(Tail(s)) : Follows(s[1], x)
<1>1. /\ \A n \in DOMAIN Tail(s) : Tail(s)[n] = s[n + 1] /\ n + 1 \in DOMAIN s
      /\ DOMAIN Tail(s) = 1 .. (Len(s) - 1) /\ Len(s) \in Nat /\ 1 \in DOMAIN s
  BY TailFacts, ListFacts
<1>2. Ordered(Tail(s))
  <2> SUFFICES ASSUME NEW n \in DOMAIN Tail(s), NEW m \in DOMAIN Tail(s), n < m
               PROVE  Follows(Tail(s)[n], Tail(s)[m])
    BY DEF Ordered
  <2>1. n + 1 < m + 1
    BY <1>1
  <2> QED BY <1>1, <2>1 DEF Ordered
<1>3. ASSUME NEW x \in Pending(Tail(s)) PROVE Follows(s[1], x)
  <2>1. PICK n \in DOMAIN Tail(s) : x = Tail(s)[n]
    BY <1>3 DEF Pending
  <2>2. x = s[n + 1] /\ n + 1 \in DOMAIN s /\ 1 < n + 1
    BY <2>1, <1>1
  <2> QED BY <2>2, <1>1 DEF Ordered
<1> QED BY <1>2, <1>3

LEMMA PairedConcat ==
    ASSUME NEW s \in Seq(Op), NEW t \in Seq(Op), Paired(s), Paired(t)
    PROVE  Paired(s \o t)
<1> SUFFICES ASSUME NEW n \in DOMAIN (s \o t), (s \o t)[n][1] = "disable"
             PROVE  n + 1 \in DOMAIN (s \o t) /\ (s \o t)[n + 1] = << "hide", (s \o t)[n][2] >>
  BY Zenon DEF Paired
<1>1. DOMAIN s = 1 .. Len(s) /\ DOMAIN t = 1 .. Len(t) /\ Len(s) \in Nat /\ Len(t) \in Nat
      /\ DOMAIN (s \o t) \subseteq Nat
  BY ListFacts, ConcatFacts
<1>2. CASE n \in DOMAIN s
  <2>1. (s \o t)[n] = s[n]
    BY <1>2, ConcatFacts
  <2>2. n + 1 \in DOMAIN s /\ s[n + 1] = << "hide", s[n][2] >>
    BY <1>2, <2>1 DEF Paired
  <2> QED BY <2>1, <2>2, ConcatFacts
<1>3. CASE n \notin DOMAIN s
  <2>1. (s \o t)[n] = t[n - Len(s)] /\ n - Len(s) \in DOMAIN t
    BY <1>3, ConcatFacts
  <2>2. (n - Len(s)) + 1 \in DOMAIN t /\ t[(n - Len(s)) + 1] = << "hide", t[n - Len(s)][2] >>
    BY <2>1 DEF Paired
  <2>3. ((n - Len(s)) + 1) + Len(s) = n + 1
    BY <1>1
  <2> QED BY <2>1, <2>2, <2>3, ConcatFacts, SMTT(20)
<1> QED BY <1>2, <1>3

LEMMA PairedTail ==
    ASSUME NEW s \in Seq(Op), s # << >>, Paired(s)
    PROVE  Paired(Tail(s))
<1>1. /\ \A n \in DOMAIN Tail(s) : Tail(s)[n] = s[n + 1] /\ n + 1 \in DOMAIN s
      /\ DOMAIN Tail(s) = 1 .. (Len(s) - 1) /\ Len(s) \in Nat /\ DOMAIN s = 1 .. Len(s)
  BY TailFacts, ListFacts
<1> SUFFICES ASSUME NEW n \in DOMAIN Tail(s), Tail(s)[n][1] = "disable"
             PROVE  n + 1 \in DOMAIN Tail(s) /\ Tail(s)[n + 1] = << "hide", Tail(s)[n][2] >>
  BY Zenon DEF Paired
<1>2. (n + 1) + 1 \in DOMAIN s /\ s[(n + 1) + 1] = << "hide", s[n + 1][2] >>
  BY <1>1 DEF Paired
<1>3. n + 1 \in DOMAIN Tail(s)
  BY <1>1, <1>2
<1> QED BY <1>1, <1>2, <1>3

\* What a set of calls is made of.
LEMMA EachFacts ==
    ASSUME NEW op, NEW S, IsFiniteSet(S), \A x \in S : << op, x >> \in Op
    PROVE  /\ Each(op, S) \in Seq(Op)
           /\ Pending(Each(op, S)) = {<< op, x >> : x \in S}
           /\ \A n, m \in DOMAIN Each(op, S) : n # m => Each(op, S)[n] # Each(op, S)[m]
<1> DEFINE N == Cardinality(S)
           f == SetToSeq(S)
<1>1. N \in Nat /\ ExistsBijection(1 .. N, S)
  BY FS_CardinalityType
<1>2. \E g \in [1 .. N -> S] : IsInjective(g)
  BY <1>1 DEF ExistsBijection, Bijection, Injection, IsInjective
<1>3. f \in [1 .. N -> S] /\ IsInjective(f)
  BY <1>2 DEF SetToSeq
<1>4. \A x \in S : \E n \in 1 .. N : f[n] = x
  <2> DEFINE T == {f[n] : n \in 1 .. N}
  <2>1. f \in Bijection(1 .. N, T)
    BY <1>3 DEF Bijection, Injection, Surjection, IsInjective
  <2>2. ExistsBijection(1 .. N, T)
    BY <2>1 DEF ExistsBijection
  <2>3. IsFiniteSet(T) /\ Cardinality(T) = N
    BY <1>1, <2>2, FS_NatBijection, FS_CountingElements
  <2>4. T \subseteq S
    BY <1>3
  <2>5. T = S
    BY <2>3, <2>4, FS_Subset
  <2> QED BY <2>5
<1>5. Each(op, S) = [n \in 1 .. N |-> << op, f[n] >>]
  BY <1>3 DEF Each
<1>6. \A n \in 1 .. N : << op, f[n] >> \in Op
  BY <1>3
<1>7. Each(op, S) \in Seq(Op)
  BY <1>1, <1>5, <1>6
<1>8. Pending(Each(op, S)) = {<< op, x >> : x \in S}
  BY <1>3, <1>4, <1>5 DEF Pending
<1>9. \A n, m \in 1 .. N : n # m => << op, f[n] >> # << op, f[m] >>
  BY <1>3 DEF IsInjective
<1> QED BY <1>5, <1>7, <1>8, <1>9

-----------------------------------------------------------------------------
(* Types. *)

LEMMA KeyFacts ==
    /\ {Terms, Reference, Resource, Form, Item} \subseteq Key
    /\ \A w \in Want : Workflow(w) \in Key
    /\ Terms # Reference /\ Terms # Resource /\ Terms # Form /\ Terms # Item
    /\ Reference # Resource /\ Reference # Form /\ Reference # Item
    /\ Resource # Form /\ Resource # Item /\ Form # Item
    /\ \A k \in Key \ {Terms, Reference, Resource, Form, Item} :
          k[1] = "workflow" /\ k[2] \in BOOLEAN /\ k[3] \in Org /\ k = << "workflow", k[2], k[3] >>
    /\ \A k \in {Terms, Reference, Resource, Form, Item} : k[1] # "workflow"
<1>1. \A w \in Want : Workflow(w) \in Key
  BY DEF Want, Workflow, Key
<1> QED
  BY <1>1 DEF Key, Terms, Reference, Resource, Form, Item

LEMMA NoneFacts ==
    /\ None \notin Sync
    /\ None \notin Filed
    /\ None \notin Org
BY NoneIsNoValue

LEMMA SyncFacts ==
    ASSUME SyncTypeOK, sync # None
    PROVE  /\ sync \in Sync
           /\ sync.todo \in Seq(Op)
           /\ sync.publish \in BOOLEAN
           /\ sync.db \in DB
           /\ sync.db.want \in Want
           /\ sync.db.row \in [Key -> Nat]
           /\ sync.db.custom \subseteq Nat
           /\ sync.db.error \in BOOLEAN
BY Zenon DEF SyncTypeOK, Sync, DB

LEMMA RemsFacts ==
    ASSUME SyncTypeOK
    PROVE  /\ Len(rems) \in Nat /\ Id = 1 .. Len(rems)
           /\ \A i \in Id : rems[i] \in Entity
           /\ IsFiniteSet(Id) /\ Id \subseteq Nat /\ 0 \notin Id
           /\ NewId \in Nat /\ NewId \notin Id /\ NewId # 0
<1>1. rems \in Seq(Entity)
  BY DEF SyncTypeOK
<1>2. Len(rems) \in Nat /\ Id = 1 .. Len(rems) /\ \A i \in Id : rems[i] \in Entity
  BY <1>1, LenProperties, ElementOfSeq DEF Id
<1>3. IsFiniteSet(Id)
  BY <1>2, FS_Interval
<1> QED BY <1>2, <1>3 DEF NewId

\* The first operation of the list.
LEMMA ArgFacts ==
    ASSUME SyncTypeOK, NEW op, Doing(op)
    PROVE  /\ sync # None /\ sync.todo # << >> /\ sync \in Sync
           /\ sync.todo \in Seq(Op) /\ sync.todo[1] \in Op
           /\ sync.todo[1] = << op, Arg >>
           /\ op \in {"ensure", "create"} => Arg \in Key
           /\ op \in {"archive", "disable", "hide"} => Arg \in Nat
           /\ op = "close" => Arg \in Applicant
           /\ op = "archiveAll" => Arg \in {"item", "resource"}
           /\ op \in {"organization", "licenses", "unused", "forget", "closeAll"} => Arg = 0
<1>1. sync # None /\ sync.todo # << >> /\ sync \in Sync /\ sync.todo \in Seq(Op)
      /\ sync.todo[1][1] = op
  BY SyncFacts DEF Doing
<1>2. sync.todo[1] \in Op
  BY <1>1, ListFacts
<1>3. sync.todo[1] = << sync.todo[1][1], sync.todo[1][2] >>
  BY <1>2 DEF Op
<1> QED BY <1>1, <1>2, <1>3 DEF Op, Arg

LEMMA WantedFacts ==
    ASSUME SyncTypeOK, sync # None, NEW k \in Key
    PROVE  /\ Wanted(k) \in Entity
           /\ Wanted(k).state = "active"
           /\ k = Terms => Wanted(k).type = "license"
                /\ Wanted(k).what = << "terms", sync.db.want.terms >>
                           /\ Wanted(k).uses = {}
           /\ k = Reference => Wanted(k).type = "license"
                /\ Wanted(k).what = << "reference", label >>
                           /\ Wanted(k).uses = {}
           /\ k = Resource => Wanted(k).type = "resource" /\ Wanted(k).what = << >>
                           /\ Wanted(k).uses = Licenses
           /\ k = Form => Wanted(k).type = "form" /\ Wanted(k).uses = {} /\ Wanted(k).what = << >>
           /\ k = Item => Wanted(k).type = "item" /\ Wanted(k).what = << >>
                /\ Wanted(k).uses = {Row(Resource), Row(Workflow(sync.db.want))}
                                      \cup (IF sync.db.want.manual THEN {Row(Form)} ELSE {})
           /\ k \notin {Terms, Reference, Resource, Form, Item} =>
                  Wanted(k).type = "workflow" /\ Wanted(k).what = << k[2], k[3] >>
                  /\ Wanted(k).uses = {}
<1>1. sync.db.want \in Want /\ \A x \in Key : Row(x) \in Nat
  BY SyncFacts DEF Row
<1>2. Row(Terms) \in Nat /\ Row(Reference) \in Nat /\ Row(Resource) \in Nat /\ Row(Form) \in Nat
      /\ Row(Workflow(sync.db.want)) \in Nat
  BY <1>1, KeyFacts
<1>3. Licenses \subseteq Nat
  BY <1>2 DEF Licenses
<1>4. label \in {1, 2} /\ sync.db.want.terms \in 0 .. MaxTerms
  BY <1>1 DEF SyncTypeOK, Want
<1>5. CASE k = Terms
  <2>1. Wanted(k) = [type |-> "license", what |-> << "terms", sync.db.want.terms >>,
        uses |-> {}, state |-> "active"]
    BY <1>5, KeyFacts DEF Wanted
  <2>2. Wanted(k) \in Entity
    BY <2>1, <1>4 DEF Entity, Made
  <2> QED BY <1>5, <2>1, <2>2, KeyFacts
<1>6. CASE k = Reference
  <2>1. Wanted(k) = [type |-> "license", what |-> << "reference", label >>, uses |-> {},
        state |-> "active"]
    BY <1>6, KeyFacts DEF Wanted
  <2>2. Wanted(k) \in Entity
    BY <2>1, <1>4 DEF Entity, Made
  <2> QED BY <1>6, <2>1, <2>2, KeyFacts
<1>7. CASE k = Resource
  <2>1. Wanted(k) = [type |-> "resource", what |-> << >>, uses |-> Licenses, state |-> "active"]
    BY <1>7, KeyFacts DEF Wanted
  <2>2. Wanted(k) \in Entity
    BY <2>1, <1>3 DEF Entity, Made
  <2> QED BY <1>7, <2>1, <2>2, KeyFacts
<1>8. CASE k = Form
  <2>1. Wanted(k) = [type |-> "form", what |-> << >>, uses |-> {}, state |-> "active"]
    BY <1>8, KeyFacts DEF Wanted
  <2>2. Wanted(k) \in Entity
    BY <2>1 DEF Entity, Made
  <2> QED BY <1>8, <2>1, <2>2, KeyFacts
<1>9. CASE k = Item
  <2>1. Wanted(k) = [type |-> "item", what |-> << >>,
                     uses |-> {Row(Resource), Row(Workflow(sync.db.want))}
                                      \cup (IF sync.db.want.manual THEN {Row(Form)} ELSE {}),
                     state |-> "active"]
    BY <1>9, KeyFacts DEF Wanted
  <2>2. Wanted(k) \in Entity
    BY <2>1, <1>2 DEF Entity, Made
  <2> QED BY <1>9, <2>1, <2>2, KeyFacts
<1>10. CASE k \notin {Terms, Reference, Resource, Form, Item}
  <2>1. Wanted(k) = [type |-> "workflow", what |-> << k[2], k[3] >>, uses |-> {},
        state |-> "active"]
    BY <1>10 DEF Wanted
  <2>2. Wanted(k) \in Entity
    BY <2>1, <1>10, KeyFacts DEF Entity, Made
  <2> QED BY <1>10, <2>1, <2>2
<1> QED BY <1>5, <1>6, <1>7, <1>8, <1>9, <1>10

\* What each step does to the sync and to its rows.
LEMMA PutFacts ==
    ASSUME SyncTypeOK, sync # None, sync.todo # << >>, NEW more \in Seq(Op), Put(more)
    PROVE  /\ sync' \in Sync /\ sync' # None
           /\ sync'.todo = more \o Tail(sync.todo)
           /\ sync'.db = sync.db /\ sync'.publish = sync.publish
           /\ sync'.org = sync.org /\ sync'.licenses = sync.licenses
           /\ sync'.kept = sync.kept
<1>1. more \o Tail(sync.todo) \in Seq(Op)
  BY SyncFacts, TailFacts, ConcatFacts
<1> QED BY <1>1, SyncFacts, NoneFacts, Zenon DEF Put, Sync

LEMMA GiveUpFacts ==
    ASSUME SyncTypeOK, sync # None, GiveUp
    PROVE  /\ sync' \in Sync /\ sync' # None
           /\ sync'.todo = << >>
           /\ sync'.db = [sync.db EXCEPT !.error = TRUE] /\ sync'.db.error = TRUE
           /\ sync'.db.row = sync.db.row /\ sync'.db.want = sync.db.want
           /\ sync'.db.custom = sync.db.custom
           /\ sync'.publish = sync.publish
           /\ sync'.org = sync.org /\ sync'.licenses = sync.licenses
           /\ sync'.kept = sync.kept
<1> DEFINE d == [sync.db EXCEPT !.error = TRUE]
<1>1. sync \in Sync /\ sync.db \in DB /\ << >> \in Seq(Op)
  BY SyncFacts
<1>2. d \in DB /\ d.error = TRUE /\ d.row = sync.db.row /\ d.want = sync.db.want
      /\ d.custom = sync.db.custom
  BY <1>1, Zenon DEF DB
<1>3. sync' = [sync EXCEPT !.todo = << >>, !.db = d]
  BY <1>1 DEF GiveUp, Sync
<1> HIDE DEF d
<1>4. sync' \in Sync /\ sync'.todo = << >> /\ sync'.db = d /\ sync'.publish = sync.publish
      /\ sync'.org = sync.org /\ sync'.licenses = sync.licenses
      /\ sync'.kept = sync.kept
  BY <1>1, <1>2, <1>3, Zenon DEF Sync
<1> QED BY <1>2, <1>4, NoneFacts DEF d

LEMMA ForgetFacts ==
    ASSUME SyncTypeOK, ForgetUnused
    PROVE  /\ sync' \in Sync /\ sync' # None
           /\ sync'.todo = Tail(sync.todo)
           /\ sync'.db.custom = sync.db.custom \cap Licenses
           /\ sync'.db.row = sync.db.row /\ sync'.db.want = sync.db.want
           /\ sync'.db.error = sync.db.error
           /\ sync'.publish = sync.publish
           /\ sync'.org = sync.org /\ sync'.licenses = sync.licenses
           /\ sync'.kept = sync.kept
<1> DEFINE d == [sync.db EXCEPT !.custom = @ \cap Licenses]
           t == Tail(sync.todo)
<1>1. sync \in Sync /\ sync.db \in DB /\ sync # None /\ t \in Seq(Op)
  BY SyncFacts, ArgFacts, TailFacts DEF ForgetUnused
<1>2. d \in DB /\ d.custom = sync.db.custom \cap Licenses /\ d.row = sync.db.row
      /\ d.want = sync.db.want /\ d.error = sync.db.error
  BY <1>1 DEF DB
<1>3. sync' = [sync EXCEPT !.todo = t, !.db = d]
  BY <1>1 DEF ForgetUnused, Sync
<1> HIDE DEF d, t
<1>4. sync' \in Sync /\ sync'.todo = t /\ sync'.db = d /\ sync'.publish = sync.publish
      /\ sync'.org = sync.org /\ sync'.licenses = sync.licenses
      /\ sync'.kept = sync.kept
  BY <1>1, <1>2, <1>3, Zenon DEF Sync
<1> QED BY <1>2, <1>4, NoneFacts DEF t

LEMMA CreateFacts ==
    ASSUME SyncTypeOK, Create
    PROVE  /\ sync' \in Sync /\ sync' # None
           /\ sync'.todo = Tail(sync.todo)
           /\ sync'.db.row = [sync.db.row EXCEPT ![Arg] = NewId]
           /\ sync'.db.custom = sync.db.custom \cup {i \in {NewId} : Arg = Terms}
           /\ sync'.db.want = sync.db.want
           /\ sync'.db.error = sync.db.error
           /\ sync'.publish = sync.publish
           /\ sync'.org = sync.org /\ sync'.licenses = sync.licenses
           /\ sync'.kept = sync.kept
           /\ rems' \in Seq(Entity)
           /\ Id' = Id \cup {NewId}
           /\ \A i \in Id : rems'[i] = rems[i]
           /\ rems'[NewId] = Wanted(Arg)
<1> DEFINE r == [sync.db.row EXCEPT ![Arg] = NewId]
           c == sync.db.custom \cup {i \in {NewId} : Arg = Terms}
           d == [sync.db EXCEPT !.row = r, !.custom = c]
           t == Tail(sync.todo)
<1>1. sync \in Sync /\ sync.db \in DB /\ sync # None /\ t \in Seq(Op) /\ Arg \in Key
  BY SyncFacts, ArgFacts, TailFacts DEF Create
<1>2. NewId \in Nat
  BY RemsFacts
<1>3. r \in [Key -> Nat] /\ c \subseteq Nat
  BY <1>1, <1>2 DEF DB
<1>4. sync' = [sync EXCEPT !.todo = t, !.db = d]
  BY <1>1, Zenon DEF Create, Sync, DB
<1> HIDE DEF r, c, t
<1>5. d \in DB /\ d.row = r /\ d.custom = c /\ d.want = sync.db.want /\ d.error = sync.db.error
  BY <1>1, <1>3, Zenon DEF DB
<1> HIDE DEF d
<1>6. sync' \in Sync /\ sync'.todo = t /\ sync'.db = d /\ sync'.publish = sync.publish
      /\ sync'.org = sync.org /\ sync'.licenses = sync.licenses
      /\ sync'.kept = sync.kept
  BY <1>1, <1>4, <1>5, Zenon DEF Sync
<1>7. rems \in Seq(Entity) /\ Wanted(Arg) \in Entity /\ rems' = Append(rems, Wanted(Arg))
  BY <1>1, WantedFacts DEF Create, SyncTypeOK
<1>8. /\ rems' \in Seq(Entity) /\ Len(rems') = Len(rems) + 1
      /\ \A i \in 1 .. Len(rems) : rems'[i] = rems[i]
      /\ rems'[Len(rems) + 1] = Wanted(Arg)
  BY <1>7, AppendProperties
<1>9. DOMAIN rems' = 1 .. Len(rems') /\ Len(rems) \in Nat /\ Id = 1 .. Len(rems)
  BY <1>8, LenProperties, RemsFacts
<1>10. Id' = Id \cup {NewId}
  BY <1>8, <1>9 DEF Id, NewId
<1> QED BY <1>5, <1>6, <1>8, <1>9, <1>10, NoneFacts DEF t, r, c, NewId

\* A change of an entity's state.
LEMMA StateFacts ==
    ASSUME SyncTypeOK, NEW i \in Nat, NEW st \in {"active", "disabled", "archived"},
           rems' = [rems EXCEPT ![i].state = st]
    PROVE  /\ rems' \in Seq(Entity)
           /\ Id' = Id
           /\ \A j \in Id : /\ rems'[j].type = rems[j].type
                            /\ rems'[j].what = rems[j].what
                            /\ rems'[j].uses = rems[j].uses
                            /\ j # i => rems'[j].state = rems[j].state
                            /\ j = i => rems'[j].state = st
<1>1. Id = 1 .. Len(rems) /\ Len(rems) \in Nat /\ \A j \in Id : rems[j] \in Entity
  BY RemsFacts
<1>2. \A j \in Id : /\ [rems[j] EXCEPT !.state = st] \in Entity
                    /\ [rems[j] EXCEPT !.state = st].type = rems[j].type
                    /\ [rems[j] EXCEPT !.state = st].what = rems[j].what
                    /\ [rems[j] EXCEPT !.state = st].uses = rems[j].uses
                    /\ [rems[j] EXCEPT !.state = st].state = st
  BY <1>1, SMTT(20) DEF Entity, Made
<1>3. rems' = [j \in Id |-> IF j = i THEN [rems[j] EXCEPT !.state = st] ELSE rems[j]]
  BY <1>1, Zenon DEF SyncTypeOK, Id
<1>4. rems' \in [1 .. Len(rems) -> Entity]
  BY <1>1, <1>2, <1>3, Zenon
<1>5. rems' \in Seq(Entity)
  BY <1>1, <1>4
<1> QED BY <1>1, <1>2, <1>3, <1>5 DEF Id

LEMMA DisableFacts ==
    ASSUME SyncTypeOK, Disable
    PROVE  /\ sync' \in Sync /\ sync' # None
           /\ sync'.todo = Tail(sync.todo)
           /\ sync'.db = sync.db /\ sync'.publish = sync.publish
           /\ sync'.org = sync.org /\ sync'.licenses = sync.licenses
           /\ sync'.kept = sync.kept
           /\ rems' \in Seq(Entity)
           /\ Id' = Id
           /\ \A j \in Id : /\ rems'[j].type = rems[j].type
                            /\ rems'[j].what = rems[j].what
                            /\ rems'[j].uses = rems[j].uses
                            /\ rems'[j].state = "archived" <=> rems[j].state = "archived"
                            /\ rems'[j].state = "disabled" => rems[j].state = "disabled" \/ j = Arg
<1>1. sync # None /\ sync.todo # << >> /\ Arg \in Nat /\ Put(<< >>) /\ << >> \in Seq(Op)
      /\ sync.todo \in Seq(Op)
  BY ArgFacts DEF Disable
<1>2. << >> \o Tail(sync.todo) = Tail(sync.todo)
  BY <1>1, TailFacts, ConcatEmptySeq
<1>3. rems' = [rems EXCEPT ![Arg].state =
                   IF rems[Arg].state = "active" THEN "disabled" ELSE rems[Arg].state]
  BY DEF Disable
<1>4. CASE rems[Arg].state = "active"
  <2>1. rems' = [rems EXCEPT ![Arg].state = "disabled"]
    BY <1>3, <1>4
  <2>2. /\ rems' \in Seq(Entity)
        /\ Id' = Id
        /\ \A j \in Id : /\ rems'[j].type = rems[j].type
                         /\ rems'[j].what = rems[j].what
                         /\ rems'[j].uses = rems[j].uses
                         /\ j # Arg => rems'[j].state = rems[j].state
                         /\ j = Arg => rems'[j].state = "disabled"
    BY <1>1, <2>1, StateFacts, Zenon
  <2> QED BY <1>1, <1>2, <1>4, <2>2, PutFacts, Zenon
<1>5. CASE rems[Arg].state # "active"
  <2>1. rems' = [rems EXCEPT ![Arg] = [rems[Arg] EXCEPT !.state = rems[Arg].state]]
    BY <1>3, <1>5
  <2>2. \A j \in Id : [rems[j] EXCEPT !.state = rems[j].state] = rems[j]
    BY RemsFacts DEF Entity, Made
  <2>3. rems = [j \in Id |-> rems[j]]
    BY RemsFacts DEF SyncTypeOK, Id
  <2>4. rems' = [j \in Id |-> IF j = Arg THEN [rems[j] EXCEPT !.state = rems[j].state] ELSE rems[j]]
    BY <2>1, <2>3, Zenon
  <2>5. rems' = rems
    BY <2>2, <2>3, <2>4
  <2> QED BY <1>1, <1>2, <2>5, PutFacts, Zenon DEF Id, SyncTypeOK
<1> QED BY <1>4, <1>5

\* REMS archives an entity.
Hides == Doing("hide") /\ ~InUse(Arg) /\ Hide

LEMMA HideFacts ==
    ASSUME SyncTypeOK, Hides
    PROVE  /\ sync' \in Sync /\ sync' # None
           /\ sync'.todo = Tail(sync.todo)
           /\ sync'.db.row = [k \in Key |-> IF sync.db.row[k] = Arg THEN 0 ELSE sync.db.row[k]]
           /\ sync'.db.custom = sync.db.custom
           /\ sync'.db.want = sync.db.want
           /\ sync'.db.error = sync.db.error
           /\ sync'.publish = sync.publish
           /\ sync'.org = sync.org /\ sync'.licenses = sync.licenses
           /\ sync'.kept = sync.kept
           /\ rems' \in Seq(Entity)
           /\ Id' = Id
           /\ \A j \in Id : /\ rems'[j].type = rems[j].type
                            /\ rems'[j].what = rems[j].what
                            /\ rems'[j].uses = rems[j].uses
                            /\ j # Arg => rems'[j].state = rems[j].state
                            /\ j = Arg => rems'[j].state = "archived"
<1> DEFINE r == [k \in Key |-> IF sync.db.row[k] = Arg THEN 0 ELSE sync.db.row[k]]
           d == [sync.db EXCEPT !.row = r]
           t == Tail(sync.todo)
<1>1. sync \in Sync /\ sync.db \in DB /\ sync # None /\ t \in Seq(Op) /\ Arg \in Nat
  BY SyncFacts, ArgFacts, TailFacts DEF Hides
<1>2. r \in [Key -> Nat]
  BY <1>1 DEF DB
<1>3. sync' = [sync EXCEPT !.todo = t, !.db = d] /\ rems' = [rems EXCEPT ![Arg].state = "archived"]
  BY <1>1 DEF Hides, Hide, Sync, DB
<1>4. /\ rems' \in Seq(Entity)
      /\ Id' = Id
      /\ \A j \in Id : /\ rems'[j].type = rems[j].type
                       /\ rems'[j].what = rems[j].what
                       /\ rems'[j].uses = rems[j].uses
                       /\ j # Arg => rems'[j].state = rems[j].state
                       /\ j = Arg => rems'[j].state = "archived"
  BY <1>1, <1>3, StateFacts, Zenon
<1> HIDE DEF r, t
<1>5. d \in DB /\ d.row = r /\ d.custom = sync.db.custom /\ d.want = sync.db.want
      /\ d.error = sync.db.error
  BY <1>1, <1>2, Zenon DEF DB
<1> HIDE DEF d
<1>6. sync' \in Sync /\ sync'.todo = t /\ sync'.db = d /\ sync'.publish = sync.publish
      /\ sync'.org = sync.org /\ sync'.licenses = sync.licenses
      /\ sync'.kept = sync.kept
  BY <1>1, <1>3, <1>5, Zenon DEF Sync
<1> QED BY <1>4, <1>5, <1>6, NoneFacts DEF t, r

-----------------------------------------------------------------------------
(* Steps that put more operations in the place of the first one. *)

\* What the invariant needs of them.
MoreFits(s, more) ==
    /\ more \in Seq(Op)
    /\ Ordered(more) /\ Paired(more)
    /\ \A x \in Pending(more) : ~IsEarly(x) => ~IsEarly(s[1]) /\ Rank(x) = Rank(s[1])
    /\ OpsFit(more)
    /\ UsersFirst(more)
    /\ s[1][1] = "archive" => << "hide", s[1][2] >> \in Pending(more)
    /\ s[1][1] # "hide"
    /\ ForgetsNothing(more)
    /\ Replaced(more)
    /\ sync.publish => \A i \in Id : Leaving(more, i) => Again(more \o Tail(s), i)

LEMMA LeavingPut ==
    ASSUME NEW s \in Seq(Op), s # << >>, NEW more, MoreFits(s, more), NEW i, Leaving(s, i)
    PROVE  Leaving(more \o Tail(s), i)
<1>1. Tail(s) \in Seq(Op) /\ Pending(s) = {s[1]} \cup Pending(Tail(s)) /\ more \in Seq(Op)
  BY TailFacts DEF MoreFits
<1>2. Pending(more \o Tail(s)) = Pending(more) \cup Pending(Tail(s))
  BY <1>1, ConcatFacts, Zenon
<1>3. CASE << "archive", i >> = s[1]
  <2>1. s[1][1] = "archive" /\ s[1][2] = i
    BY <1>3
  <2>2. << "hide", i >> \in Pending(more)
    BY <2>1 DEF MoreFits
  <2> QED BY <2>2, <1>2 DEF Leaving
<1>4. s[1] # << "hide", i >>
  BY DEF MoreFits
<1> QED BY <1>1, <1>2, <1>3, <1>4 DEF Leaving

LEMMA PutListFits ==
    ASSUME NEW s \in Seq(Op), s # << >>, ListFits(s), NEW more, MoreFits(s, more)
    PROVE  ListFits(more \o Tail(s))
<1> DEFINE t == more \o Tail(s)
<1>1. /\ Tail(s) \in Seq(Op) /\ more \in Seq(Op)
      /\ Pending(s) = {s[1]} \cup Pending(Tail(s))
      /\ DOMAIN Tail(s) = 1 .. (Len(s) - 1) /\ Len(s) \in Nat
      /\ \A n \in DOMAIN Tail(s) : Tail(s)[n] = s[n + 1] /\ n + 1 \in DOMAIN s
      /\ DOMAIN s = 1 .. Len(s)
  BY TailFacts, ListFacts DEF MoreFits
<1>a. /\ t \in Seq(Op) /\ Pending(t) = Pending(more) \cup Pending(Tail(s))
      /\ \A n \in DOMAIN t :
            \/ n \in DOMAIN more /\ t[n] = more[n]
            \/ n > Len(more) /\ n - Len(more) \in DOMAIN Tail(s) /\ t[n] = Tail(s)[n - Len(more)]
  BY <1>1, ConcatFacts, Zenon
<1>b. Len(more) \in Nat /\ DOMAIN more = 1 .. Len(more) /\ \A n \in DOMAIN t : n \in Nat
  BY <1>1, <1>a, ListFacts
<1>2. /\ t \in Seq(Op) /\ Pending(t) = Pending(more) \cup Pending(Tail(s))
      /\ Len(more) \in Nat /\ DOMAIN more = 1 .. Len(more)
      /\ \A n \in DOMAIN t : n \in Nat
  BY <1>a, <1>b
<1>3. Ordered(Tail(s)) /\ \A y \in Pending(Tail(s)) : Follows(s[1], y)
  BY OrderedTail DEF ListFits
<1>4. Ordered(t)
  <2>1. ASSUME NEW x \in Pending(more), NEW y \in Pending(Tail(s)) PROVE Follows(x, y)
    BY <1>3, <2>1 DEF MoreFits, Follows
  <2> QED BY <1>1, <1>3, <2>1, OrderedConcat, Zenon DEF MoreFits
<1>5. Paired(t)
  BY <1>1, PairedTail, PairedConcat, Zenon DEF ListFits, MoreFits
<1>6. OpsFit(t)
  BY <1>1, <1>2 DEF ListFits, MoreFits, OpsFit
<1>7. UsersFirst(t)
  <2> SUFFICES ASSUME NEW n \in DOMAIN t, t[n][1] = "hide", ~IsReference(t[n][2]),
                      NEW j \in Active("resource") \cup Active("item"),
                      t[n][2] \in rems[j].uses, rems[t[n][2]].type \in {"license", "resource"}
               PROVE  \E m \in DOMAIN t : m < n /\ t[m] \in {<< "archive", j >>, << "hide", j >>}
    BY Zenon DEF UsersFirst
  <2>1. CASE n \in DOMAIN more /\ t[n] = more[n]
    <3>1. PICK m \in DOMAIN more : m < n /\ more[m] \in {<< "archive", j >>, << "hide", j >>}
      BY <2>1 DEF MoreFits, UsersFirst
    <3>2. m \in DOMAIN t /\ t[m] = more[m]
      BY <1>1, ConcatFacts
    <3> QED BY <3>1, <3>2
  <2>2. CASE n > Len(more) /\ n - Len(more) \in DOMAIN Tail(s) /\ t[n] = Tail(s)[n - Len(more)]
    <3> DEFINE p == (n - Len(more)) + 1
    <3>1. p \in DOMAIN s /\ t[n] = s[p]
      BY <1>1, <2>2
    <3>2. PICK m \in DOMAIN s : m < p /\ s[m] \in {<< "archive", j >>, << "hide", j >>}
      BY <3>1, Zenon DEF ListFits, UsersFirst
    <3>3. CASE m = 1
      <4>1. s[1] = << "archive", j >>
        BY <3>2, <3>3 DEF MoreFits
      <4>2. << "hide", j >> \in Pending(more)
        BY <4>1 DEF MoreFits
      <4>3. PICK l \in DOMAIN more : more[l] = << "hide", j >>
        BY <4>2 DEF Pending
      <4>4. l \in DOMAIN t /\ t[l] = more[l] /\ l < n
        BY <1>1, <1>2, <2>2, ConcatFacts
      <4> QED BY <4>3, <4>4
    <3>4. CASE m # 1
      <4>1. m - 1 \in DOMAIN Tail(s) /\ (m - 1) + 1 = m
        BY <1>1, <3>2, <3>4, SMTT(20)
      <4>2. Tail(s)[m - 1] = s[m]
        BY <1>1, <4>1
      <4>3. (m - 1) + Len(more) \in DOMAIN t /\ t[(m - 1) + Len(more)] = s[m]
        BY <1>1, <4>1, <4>2, ConcatFacts, Zenon
      <4>4. (m - 1) + Len(more) < n
        BY <1>1, <1>2, <2>2, <3>2
      <4> QED BY <3>2, <4>3, <4>4, Zenon
    <3> QED BY <3>3, <3>4, Zenon
  <2> QED BY <1>a, <2>1, <2>2, Zenon
<1>8. ASSUME NEW i, Leaving(s, i) PROVE Leaving(t, i)
  BY <1>8, LeavingPut
<1>9. ASSUME NEW i, Leaving(more, i) PROVE Leaving(t, i)
  BY <1>2, <1>9 DEF Leaving
<1>10. ForgetsNothing(t)
  <2> SUFFICES ASSUME << "forget", 0 >> \in Pending(t)
               PROVE  Row(Terms) = 0 \/ (sync.publish /\ sync.db.want.terms # 0)
                      \/ Leaving(t, Row(Terms))
    BY DEF ForgetsNothing
  <2>1. CASE << "forget", 0 >> \in Pending(more)
    BY <1>9, <2>1 DEF MoreFits, ForgetsNothing
  <2>2. CASE << "forget", 0 >> \in Pending(s)
    BY <1>8, <2>2 DEF ListFits, ForgetsNothing
  <2> QED BY <1>1, <1>2, <2>1, <2>2
<1>11. Replaced(t)
  <2> SUFFICES ASSUME NEW k \in Key, << "create", k >> \in Pending(t), Row(k) # 0
               PROVE  Leaving(t, Row(k))
    BY DEF Replaced
  <2>1. CASE << "create", k >> \in Pending(more)
    BY <1>9, <2>1 DEF MoreFits, Replaced
  <2>2. CASE << "create", k >> \in Pending(s)
    BY <1>8, <2>2 DEF ListFits, Replaced
  <2> QED BY <1>1, <1>2, <2>1, <2>2
<1>12. NeededFollow(t)
  <2> SUFFICES ASSUME sync.publish, NEW op \in Pending(t), NEW k \in Needed(sync.db.want),
                      ~IsEarly(op), Rank(op) < KeyRank(k)
               PROVE  << "ensure", k >> \in Pending(t)
    BY DEF NeededFollow
  <2>1. Rank(<< "ensure", k >>) = KeyRank(k)
    BY DEF Rank
  <2>2. CASE op \in Pending(more)
    <3>1. ~IsEarly(s[1]) /\ Rank(op) = Rank(s[1])
      BY <2>2 DEF MoreFits
    <3>2. << "ensure", k >> \in Pending(s)
      BY <1>1, <3>1 DEF ListFits, NeededFollow
    <3>3. << "ensure", k >> # s[1]
      BY <2>1, <3>1 DEF KeyRank
    <3> QED BY <1>1, <1>2, <3>2, <3>3
  <2>3. CASE op \in Pending(Tail(s))
    <3>1. << "ensure", k >> \in Pending(s)
      BY <1>1, <2>3 DEF ListFits, NeededFollow
    <3>2. CASE s[1] = << "ensure", k >>
      <4>1. ~IsEarly(s[1])
        BY <3>2 DEF IsEarly
      <4>2. Rank(s[1]) < Rank(op)
        BY <1>3, <2>3, <4>1 DEF Follows
      <4> QED BY <2>1, <3>2, <4>2 DEF KeyRank, Rank
    <3> QED BY <1>1, <1>2, <3>1, <3>2
  <2> QED BY <1>2, <2>2, <2>3
<1>13. ComesAgain(t)
  <2> SUFFICES ASSUME sync.publish, NEW i \in Id, Leaving(t, i) PROVE Again(t, i)
    BY DEF ComesAgain
  <2>1. CASE Leaving(more, i)
    BY <2>1 DEF MoreFits
  <2>2. CASE Leaving(Tail(s), i)
    <3>1. Again(s, i)
      BY <1>1, <2>2 DEF ListFits, ComesAgain, Leaving
    <3>2. IsEarly(s[1])
      <4>1. PICK y \in Pending(Tail(s)) : y \in {<< "archive", i >>, << "hide", i >>}
        BY <2>2 DEF Leaving
      <4>2. IsEarly(y)
        BY <4>1 DEF IsEarly
      <4> QED BY <1>3, <4>2 DEF Follows, IsFixed
    <3>3. \A k : s[1] \notin {<< "ensure", k >>, << "create", k >>}
      BY <3>2 DEF IsEarly
    <3>4. \A k : Soon(s, k) => Soon(t, k)
      BY <1>1, <1>2, <3>3 DEF Soon
    <3>5. << "ensure", Resource >> \in Pending(s) => << "ensure", Resource >> \in Pending(t)
      BY <1>1, <1>2, <3>3, Zenon
    <3> QED BY <3>1, <3>4, <3>5 DEF Again
  <2> QED BY <1>2, <2>1, <2>2 DEF Leaving
<1> QED BY <1>4, <1>5, <1>6, <1>7, <1>10, <1>11, <1>12, <1>13 DEF ListFits

-----------------------------------------------------------------------------
(* What the phases of a sync put on its list. *)

LEMMA IsForOne ==
    ASSUME NEW i, NEW j \in Key, NEW k \in Key, IsFor(i, j), IsFor(i, k)
    PROVE  j = k
<1>1. ~(IsTerms(i) /\ IsReference(i))
  BY DEF IsTerms, IsReference
<1>2. \A l \in Key : l[1] = "workflow" => l \notin {Terms, Reference, Resource, Form, Item}
  BY KeyFacts
<1>3. CASE j[1] = "workflow" /\ k[1] = "workflow" /\ rems[i].type = "workflow"
  <2>1. j = << "workflow", j[2], j[3] >> /\ k = << "workflow", k[2], k[3] >>
    BY <1>2, <1>3, KeyFacts
  <2>2. << j[2], j[3] >> = << k[2], k[3] >>
    BY <1>1, <1>2, <1>3, KeyFacts DEF IsFor, IsTerms, IsReference
  <2> QED BY <2>1, <2>2
<1> QED BY <1>1, <1>2, <1>3, KeyFacts DEF IsFor, IsTerms, IsReference

LEMMA RowIsForOne ==
    ASSUME SyncTypeOK, RowsFit(sync.db), NEW j \in Key, NEW k \in Key, Row(j) # 0, Row(j) = Row(k)
    PROVE  j = k
BY IsForOne DEF RowsFit, Row

LEMMA EmptyFits ==
    ASSUME NEW s, s[1][1] \notin {"archive", "hide"}
    PROVE  MoreFits(s, << >>)
<1>1. << >> \in Seq(Op) /\ Pending(<< >>) = {} /\ \A n \in DOMAIN << >> : FALSE
  BY DEF Pending
<1>2. Ordered(<< >>) /\ Paired(<< >>) /\ UsersFirst(<< >>)
  BY <1>1 DEF Ordered, Paired, UsersFirst
<1>3. OpsFit(<< >>) /\ ForgetsNothing(<< >>) /\ Replaced(<< >>) /\ \A i : ~Leaving(<< >>, i)
  BY <1>1 DEF OpsFit, ForgetsNothing, Replaced, Leaving
<1> QED BY <1>1, <1>2, <1>3 DEF MoreFits

\* Lists of what has to go before something else.
LEMMA EarlyFacts ==
    ASSUME NEW s \in Seq(Op), \A x \in Pending(s) : x[1] \in {"archive", "close"}
    PROVE  Ordered(s) /\ Paired(s) /\ UsersFirst(s) /\ ForgetsNothing(s) /\ Replaced(s)
<1>1. \A n \in DOMAIN s : s[n][1] \in {"archive", "close"}
  BY DEF Pending
<1>2. Ordered(s)
  BY <1>1 DEF Ordered, Follows, IsEarly
<1>3. Paired(s) /\ UsersFirst(s)
  BY <1>1 DEF Paired, UsersFirst
<1>4. << "forget", 0 >> \notin Pending(s) /\ \A k : << "create", k >> \notin Pending(s)
  <2>1. << "forget", 0 >>[1] = "forget" /\ \A k : << "create", k >>[1] = "create"
    OBVIOUS
  <2> QED BY <2>1
<1> QED BY <1>2, <1>3, <1>4 DEF ForgetsNothing, Replaced

LEMMA ArchivesFacts ==
    ASSUME SyncTypeOK, NEW S, S \subseteq Id
    PROVE  /\ Archive(S) \in Seq(Op)
           /\ Pending(Archive(S)) = {<< "archive", i >> : i \in S}
           /\ \A x \in Pending(Archive(S)) : x[1] = "archive"
           /\ Ordered(Archive(S)) /\ Paired(Archive(S)) /\ UsersFirst(Archive(S))
           /\ ForgetsNothing(Archive(S)) /\ Replaced(Archive(S))
<1>1. IsFiniteSet(S) /\ S \subseteq Nat
  BY RemsFacts, FS_Subset
<1>2. \A i \in S : << "archive", i >> \in Op
  BY <1>1 DEF Op
<1>3. Archive(S) \in Seq(Op) /\ Pending(Archive(S)) = {<< "archive", i >> : i \in S}
  BY <1>1, <1>2, EachFacts, Zenon DEF Archive
<1>4. \A x \in Pending(Archive(S)) : x[1] = "archive"
  BY <1>3
<1> QED BY <1>3, <1>4, EarlyFacts

LEMMA ActiveFacts ==
    ASSUME SyncTypeOK, NEW type
    PROVE  Active(type) \subseteq Id /\ \A i \in Active(type) : rems[i].type = type
BY DEF Active

LEMMA ClosesFit ==
    ASSUME SyncTypeOK, NEW s, s[1][1] \notin {"archive", "hide"}
    PROVE  /\ MoreFits(s, CloseAll)
           /\ Pending(CloseAll) = {<< "close", a >> : a \in {x \in Applicant : IsOpen(x)}}
           /\ \A n, m \in DOMAIN CloseAll : n # m => CloseAll[n] # CloseAll[m]
<1> DEFINE S == {a \in Applicant : IsOpen(a)}
<1>1. IsFiniteSet(S)
  BY ApplicantsAreFinite, FS_Subset
<1>2. \A a \in S : << "close", a >> \in Op
  BY DEF Op
<1>3. /\ CloseAll \in Seq(Op) /\ Pending(CloseAll) = {<< "close", a >> : a \in S}
      /\ \A n, m \in DOMAIN CloseAll : n # m => CloseAll[n] # CloseAll[m]
  BY <1>1, <1>2, EachFacts, Zenon DEF CloseAll
<1>4. \A x \in Pending(CloseAll) : x[1] = "close"
  BY <1>3
<1>5. \A i : ~Leaving(CloseAll, i)
  <2>1. \A i : << "archive", i >>[1] = "archive" /\ << "hide", i >>[1] = "hide"
    OBVIOUS
  <2> QED BY <1>4, <2>1 DEF Leaving
<1>6. OpsFit(CloseAll)
  BY <1>4 DEF OpsFit
<1>7. \A x \in Pending(CloseAll) : IsEarly(x)
  BY <1>4 DEF IsEarly
<1>8. Ordered(CloseAll) /\ Paired(CloseAll) /\ UsersFirst(CloseAll)
      /\ ForgetsNothing(CloseAll) /\ Replaced(CloseAll)
  BY <1>3, <1>4, EarlyFacts
<1>9. MoreFits(s, CloseAll)
  BY <1>3, <1>5, <1>6, <1>7, <1>8 DEF MoreFits
<1> QED BY <1>3, <1>9

\* A needed entity has been made, and is still as it should be.
MadeAs(k) ==
    /\ Row(k) # 0
    /\ rems[Row(k)].uses = Wanted(k).uses
    /\ rems[Row(k)].what = Wanted(k).what

LEMMA EnsureFits ==
    ASSUME SyncTypeOK, EntitiesFit, RowsFit(sync.db), Doing("ensure"), ListFits(sync.todo)
    PROVE  /\ MoreFits(sync.todo, Ensure(Arg))
           /\ << "create", Arg >> \in Pending(Ensure(Arg)) \/ MadeAs(Arg)
<1> DEFINE s == sync.todo
<1>1. /\ sync # None /\ s # << >> /\ s \in Seq(Op) /\ s[1] \in Op /\ s[1] = << "ensure", Arg >>
           /\ Arg \in Key
      /\ Pending(s) = {s[1]} \cup Pending(Tail(s)) /\ Tail(s) \in Seq(Op)
  BY ArgFacts, TailFacts
<1>2. PICK k \in Key : k = Arg
  BY <1>1
<1>3. s[1][1] = "ensure" /\ s[1][2] = k /\ s[1] \in Pending(s)
  BY <1>1, <1>2
<1>4. sync.publish /\ k \in Needed(sync.db.want)
  BY <1>3 DEF ListFits, OpsFit
<1>5. << "create", k >> \in Op /\ ~IsEarly(<< "create", k >>) /\ ~IsEarly(s[1])
      /\ Rank(<< "create", k >>) = Rank(s[1])
  BY <1>3 DEF Op, IsEarly, Rank
<1>6. CASE Row(k) = 0
  <2> DEFINE more == << << "create", k >> >>
  <2>1. Ensure(k) = more
    BY <1>6 DEF Ensure
  <2>2. more \in Seq(Op) /\ Pending(more) = {<< "create", k >>} /\ Ordered(more) /\ Paired(more)
    BY <1>5, OneFacts
  <2>3. OpsFit(more)
    BY <1>4, <2>2 DEF OpsFit
  <2>4. UsersFirst(more)
    BY DEF UsersFirst
  <2>5. ForgetsNothing(more) /\ Replaced(more) /\ \A i : ~Leaving(more, i)
    BY <1>6, <2>2 DEF ForgetsNothing, Replaced, Leaving
  <2> HIDE DEF more
  <2>6. MoreFits(s, more)
    BY <1>3, <1>5, <2>2, <2>3, <2>4, <2>5 DEF MoreFits
  <2> QED BY <1>2, <2>1, <2>2, <2>6
<1>7. CASE Row(k) # 0 /\ IsAsWanted(Row(k), k)
  <2>1. Ensure(k) = << >>
    BY <1>7 DEF Ensure
  <2>2. MadeAs(k)
    BY <1>7 DEF MadeAs, IsAsWanted
  <2> QED BY <1>2, <1>3, <2>1, <2>2, EmptyFits
<1>8. CASE Row(k) # 0 /\ ~IsAsWanted(Row(k), k)
  <2> DEFINE more == << << "archive", Row(k) >>, << "create", k >> >>
  <2>1. PICK i \in Id : i = Row(k) /\ IsFor(i, k)
    BY <1>8 DEF RowsFit, Row
  <2>2. Ensure(k) = << << "archive", i >>, << "create", k >> >>
    BY <1>8, <2>1 DEF Ensure
  <2>3. i \in Nat /\ rems[i] \in Entity
    BY RemsFacts
  <2>4. << "archive", i >> \in Op
    BY <2>3 DEF Op
  <2> HIDE DEF more
  <2>5. PICK m : m = << << "archive", i >>, << "create", k >> >>
    BY Zenon
  <2>6. /\ m \in Seq(Op) /\ Pending(m) = {<< "archive", i >>, << "create", k >>}
        /\ Ordered(m) /\ Paired(m)
    BY <1>5, <2>4, <2>5, TwoFacts DEF Follows, IsEarly
  <2>7. k \in {Terms, Reference, Resource, Item}
    <3>1. CASE k = Form
      <4>1. rems[i].type = "form"
        BY <2>1, <3>1, KeyFacts DEF IsFor
      <4>2. rems[i].what = << >> /\ rems[i].uses = {}
        BY <2>3, <4>1 DEF Entity, Made, EntitiesFit
      <4> QED BY <1>1, <1>8, <2>1, <3>1, <4>2, WantedFacts, KeyFacts, Zenon DEF IsAsWanted
    <3>2. CASE k \notin {Terms, Reference, Resource, Form, Item}
      <4>1. rems[i].type = "workflow" /\ rems[i].what = << k[2], k[3] >>
        BY <2>1, <3>2 DEF IsFor
      <4>2. rems[i].uses = {}
        BY <4>1 DEF EntitiesFit
      <4> QED BY <1>1, <1>8, <2>1, <3>2, <4>1, <4>2, WantedFacts, KeyFacts DEF IsAsWanted
    <3> QED BY <3>1, <3>2
  <2>8. rems[i].type \in {"license", "resource", "item"}
    BY <2>1, <2>7, KeyFacts DEF IsFor, IsTerms, IsReference
  <2>9. label = 1 => ~IsReference(i)
    <3> SUFFICES ASSUME label = 1, IsReference(i) PROVE FALSE
      OBVIOUS
    <3>1. IsFor(i, Reference)
      BY DEF IsFor
    <3>2. k = Reference
      BY <2>1, <3>1, IsForOne, KeyFacts
    <3>3. rems[i].what = << "reference", 1 >> /\ rems[i].uses = {}
      BY DEF EntitiesFit, IsReference
    <3> QED BY <1>1, <1>8, <2>1, <3>2, <3>3, WantedFacts, KeyFacts, Zenon DEF IsAsWanted
  <2>10. IsTerms(i) => i \in sync.db.custom
    <3> SUFFICES ASSUME IsTerms(i) PROVE i \in sync.db.custom
      OBVIOUS
    <3>1. IsFor(i, Terms)
      BY DEF IsFor
    <3>2. k = Terms
      BY <2>1, <3>1, IsForOne, KeyFacts
    <3> QED BY <1>8, <2>1, <3>2 DEF RowsFit, Row
  <2>11. OpsFit(m)
    BY <1>4, <2>6, <2>8, <2>9, <2>10 DEF OpsFit
  <2>12. UsersFirst(m)
    <3>1. \A x \in Pending(m) : x[1] # "hide"
      BY <2>6
    <3> QED BY <3>1 DEF UsersFirst, Pending
  <2>13. ForgetsNothing(m)
    BY <2>6 DEF ForgetsNothing
  <2>14. Leaving(m, i) /\ \A x : Leaving(m, x) => x = i
    BY <2>6 DEF Leaving
  <2>15. Replaced(m)
    <3> SUFFICES ASSUME NEW l \in Key, << "create", l >> \in Pending(m) PROVE l = k
      BY <2>1, <2>14 DEF Replaced
    <3> QED BY <2>6
  <2>16. Again(m \o Tail(s), i)
    <3>1. Pending(m \o Tail(s)) = Pending(m) \cup Pending(Tail(s))
      BY <1>1, <2>6, ConcatFacts, Zenon
    <3>2. Soon(m \o Tail(s), k)
      BY <2>6, <3>1, Zenon DEF Soon
    <3>3. rems[i].type = "item" => k = Item
      BY <2>1, <2>7, KeyFacts DEF IsFor, IsTerms, IsReference
    <3>4. rems[i].type = "resource" => k = Resource
      BY <2>1, <2>7, KeyFacts DEF IsFor, IsTerms, IsReference
    <3>5. rems[i].type = "license" => << "ensure", Resource >> \in Pending(m \o Tail(s))
      <4> SUFFICES ASSUME rems[i].type = "license"
                   PROVE  << "ensure", Resource >> \in Pending(m \o Tail(s))
        OBVIOUS
      <4>1. k \in {Terms, Reference}
        BY <2>1, <2>7, KeyFacts DEF IsFor
      <4>2. Rank(s[1]) < KeyRank(Resource)
        BY <1>3, <4>1, KeyFacts DEF Rank, KeyRank
      <4>3. << "ensure", Resource >> \in Pending(s)
        BY <1>3, <1>4, <1>5, <4>2 DEF ListFits, NeededFollow, Needed
      <4>4. << "ensure", Resource >> # s[1]
        BY <1>1, <1>2, <4>1, KeyFacts
      <4> QED BY <1>1, <3>1, <4>3, <4>4
    <3>6. \A l \in Key : i = Row(l) => l = k
      BY <1>8, <2>1, RowIsForOne, Zenon
    <3> QED BY <3>2, <3>3, <3>4, <3>5, <3>6, KeyFacts DEF Again
  <2>17. MoreFits(s, m)
    <3>1. \A x \in Pending(m) : ~IsEarly(x) => ~IsEarly(s[1]) /\ Rank(x) = Rank(s[1])
      BY <1>5, <2>6 DEF IsEarly
    <3> QED BY <1>3, <2>6, <2>11, <2>12, <2>13, <2>14, <2>15, <2>16, <3>1 DEF MoreFits
  <2> QED BY <1>2, <2>2, <2>5, <2>6, <2>17
<1> QED BY <1>6, <1>7, <1>8

LEMMA UnusedFits ==
    ASSUME SyncTypeOK, RowsFit(sync.db), Doing("unused"), ListFits(sync.todo)
    PROVE  MoreFits(sync.todo, ArchiveUnused)
<1> DEFINE s == sync.todo
           S == (sync.db.custom \ Licenses) \cap {Row(Terms)}
           f == << "forget", 0 >>
<1>1. /\ sync # None /\ s # << >> /\ s \in Seq(Op) /\ s[1] \in Op /\ s[1] = << "unused", 0 >>
      /\ Pending(s) = {s[1]} \cup Pending(Tail(s)) /\ Tail(s) \in Seq(Op)
  BY ArgFacts, TailFacts
<1>2. S \subseteq Id /\ \A i \in S : IsTerms(i) /\ i = Row(Terms) /\ i # 0
  BY RemsFacts DEF RowsFit
<1>3. PICK a : a = Archive(S)
  OBVIOUS
<1>4. /\ a \in Seq(Op) /\ Pending(a) = {<< "archive", i >> : i \in S}
      /\ \A x \in Pending(a) : x[1] = "archive"
      /\ Ordered(a) /\ Paired(a)
  BY <1>2, <1>3, ArchivesFacts
<1>5. f \in Op /\ << f >> \in Seq(Op) /\ Pending(<< f >>) = {f} /\ Ordered(<< f >>)
      /\ Paired(<< f >>)
  <2>1. f \in Op
    BY DEF Op
  <2> QED BY <2>1, OneFacts
<1>6. PICK m : m = a \o << f >>
  BY Zenon
<1>7. m \in Seq(Op) /\ Pending(m) = {<< "archive", i >> : i \in S} \cup {f}
  BY <1>4, <1>5, <1>6, ConcatFacts, Zenon
<1>8. Ordered(m)
  <2>1. \A x \in Pending(a), y \in Pending(<< f >>) : Follows(x, y)
    BY <1>4 DEF Follows, IsEarly
  <2> QED BY <1>4, <1>5, <1>6, <2>1, OrderedConcat, Zenon
<1>9. Paired(m)
  BY <1>4, <1>5, <1>6, PairedConcat, Zenon
<1>10. \A x \in Pending(m) : (x[1] = "archive" /\ x[2] \in S) \/ x = f
  BY <1>7
<1>11. \A x \in Pending(m) : ~IsEarly(x) => ~IsEarly(s[1]) /\ Rank(x) = Rank(s[1])
  BY <1>1, <1>10 DEF IsEarly, Rank
<1>12. OpsFit(m)
  BY <1>2, <1>10 DEF OpsFit, IsTerms, IsReference
<1>13. UsersFirst(m)
  <2>1. \A n \in DOMAIN m : m[n][1] # "hide"
    BY <1>10 DEF Pending
  <2> QED BY <2>1 DEF UsersFirst
<1>14. \A i : Leaving(m, i) <=> i \in S
  <2>1. ASSUME NEW i PROVE << "archive", i >> \in Pending(m) <=> i \in S
    BY <1>7, <1>10
  <2>2. ASSUME NEW i PROVE << "hide", i >> \notin Pending(m)
    BY <1>10
  <2> QED BY <2>1, <2>2, Zenon DEF Leaving
<1>15. ForgetsNothing(m)
  <2> SUFFICES ASSUME Row(Terms) # 0,
                      ~(sync.publish /\ sync.db.want.terms # 0) PROVE Leaving(m, Row(Terms))
    BY DEF ForgetsNothing
  <2>1. Row(Terms) \in sync.db.custom
    BY DEF RowsFit, Row
  <2>2. Row(Terms) \notin Licenses
    <3>1. Row(Terms) # Row(Reference)
      BY RowIsForOne, KeyFacts
    <3> QED BY <3>1 DEF Licenses
  <2> QED BY <1>14, <2>1, <2>2
<1>16. Replaced(m)
  BY <1>10 DEF Replaced
<1>17. ASSUME sync.publish, NEW i \in Id, Leaving(m, i) PROVE Again(m \o Tail(s), i)
  <2>1. i \in S /\ IsTerms(i) /\ i = Row(Terms) /\ i # 0 /\ i \notin Licenses
    BY <1>2, <1>14, <1>17
  <2>2. i # Row(Reference)
    BY <2>1, RowIsForOne, KeyFacts
  <2>3. sync.db.want.terms = 0
    BY <1>17, <2>1 DEF Licenses
  <2>4. << "ensure", Resource >> \in Pending(Tail(s))
    <3>1. Rank(s[1]) < KeyRank(Resource) /\ ~IsEarly(s[1])
      BY <1>1, KeyFacts DEF Rank, KeyRank, IsEarly
    <3>2. << "ensure", Resource >> \in Pending(s)
      BY <1>1, <1>17, <3>1 DEF ListFits, NeededFollow, Needed
    <3> QED BY <1>1, <3>2
  <2>5. << "ensure", Resource >> \in Pending(m \o Tail(s))
    <3>1. Pending(m \o Tail(s)) = Pending(m) \cup Pending(Tail(s))
      BY <1>1, <1>7, ConcatFacts, Zenon
    <3> QED BY <2>4, <3>1
  <2> QED BY <2>1, <2>2, <2>3, <2>5 DEF Again, IsTerms
<1>18. s[1][1] = "unused"
  BY <1>1
<1>19. MoreFits(s, m)
  BY <1>7, <1>8, <1>9, <1>11, <1>12, <1>13, <1>15, <1>16, <1>17, <1>18 DEF MoreFits
<1> QED BY <1>3, <1>6, <1>19 DEF ArchiveUnused

LEMMA ArchiveAllFits ==
    ASSUME SyncTypeOK, Doing("archiveAll"), ListFits(sync.todo)
    PROVE  /\ MoreFits(sync.todo, Archive(Active(Arg)))
           /\ Pending(Archive(Active(Arg))) = {<< "archive", i >> : i \in Active(Arg)}
<1> DEFINE s == sync.todo
<1>1. /\ s # << >> /\ s \in Seq(Op) /\ s[1] = << "archiveAll", Arg >>
           /\ Arg \in {"item", "resource"}
      /\ Pending(s) = {s[1]} \cup Pending(Tail(s))
  BY ArgFacts, TailFacts
<1>2. PICK m : m = Archive(Active(Arg))
  OBVIOUS
<1>3. Active(Arg) \subseteq Id /\ \A i \in Active(Arg) : rems[i].type \in {"item", "resource"}
  BY <1>1, ActiveFacts
<1>4. /\ m \in Seq(Op) /\ Pending(m) = {<< "archive", i >> : i \in Active(Arg)}
      /\ Ordered(m) /\ Paired(m) /\ UsersFirst(m) /\ ForgetsNothing(m) /\ Replaced(m)
  BY <1>2, <1>3, ArchivesFacts
<1>5. \A x \in Pending(m) : x[1] = "archive" /\ x[2] \in Active(Arg)
  BY <1>4
<1>6. s[1][1] = "archiveAll" /\ ~sync.publish
  <2>1. s[1][1] = "archiveAll" /\ s[1] \in Pending(s)
    BY <1>1
  <2> QED BY <2>1 DEF ListFits, OpsFit
<1>7. OpsFit(m)
  BY <1>3, <1>5 DEF OpsFit, IsTerms, IsReference
<1>8. MoreFits(s, m)
  BY <1>4, <1>5, <1>6, <1>7 DEF MoreFits, IsEarly
<1> QED BY <1>2, <1>4, <1>8

\* What has to go before entity i.
LEMMA FirstFacts ==
    ASSUME SyncTypeOK, RowsFit(sync.db), NEW i \in Id
    PROVE  \E S \in SUBSET Id :
              /\ rems[i].type = "resource" => S = Active("item")
              /\ rems[i].type # "resource" /\ i \in sync.db.custom => S = Active("resource")
              /\ rems[i].type # "resource" /\ i \notin sync.db.custom => S = {}
              /\ ArchiveFirst(i) \in Seq(Op)
              /\ Pending(ArchiveFirst(i)) = {<< "archive", j >> : j \in S}
              /\ Ordered(ArchiveFirst(i)) /\ Paired(ArchiveFirst(i))
<1>1. CASE rems[i].type = "resource"
  <2>1. ArchiveFirst(i) = Archive(Active("item"))
    <3>1. i \notin sync.db.custom
      BY <1>1 DEF RowsFit, IsTerms
    <3> QED BY <1>1, <3>1 DEF ArchiveFirst
  <2>2. Active("item") \in SUBSET Id
    BY ActiveFacts
  <2> WITNESS Active("item") \in SUBSET Id
  <2> QED BY <1>1, <2>1, ActiveFacts, ArchivesFacts
<1>2. CASE rems[i].type # "resource" /\ i \in sync.db.custom
  <2>1. ArchiveFirst(i) = Archive(Active("resource"))
    BY <1>2 DEF ArchiveFirst
  <2>2. Active("resource") \in SUBSET Id
    BY ActiveFacts
  <2> WITNESS Active("resource") \in SUBSET Id
  <2> QED BY <1>2, <2>1, ActiveFacts, ArchivesFacts
<1>3. CASE rems[i].type # "resource" /\ i \notin sync.db.custom
  <2>1. ArchiveFirst(i) = << >>
    BY <1>3 DEF ArchiveFirst
  <2>2. << >> \in Seq(Op) /\ Pending(<< >>) = {<< "archive", j >> : j \in {}}
    BY DEF Pending
  <2>3. Ordered(<< >>) /\ Paired(<< >>)
    BY DEF Ordered, Paired
  <2> WITNESS {} \in SUBSET Id
  <2> QED BY <1>3, <2>1, <2>2, <2>3
<1> QED BY <1>1, <1>2, <1>3, Zenon

LEMMA ArchiveFits ==
    ASSUME SyncTypeOK, EntitiesFit, RowsFit(sync.db), Doing("archive"), ListFits(sync.todo)
    PROVE  MoreFits(sync.todo, ArchiveEntity(Arg))
<1> DEFINE s == sync.todo
<1>1. /\ sync # None /\ s # << >> /\ s \in Seq(Op) /\ s[1] \in Op
           /\ s[1] = << "archive", Arg >> /\ Arg \in Nat
      /\ Pending(s) = {s[1]} \cup Pending(Tail(s)) /\ Tail(s) \in Seq(Op)
  BY ArgFacts, TailFacts
<1>2. s[1][1] = "archive" /\ s[1][2] = Arg /\ s[1] \in Pending(s)
  BY <1>1
<1>3. PICK i \in Id : i = Arg
  BY <1>2 DEF ListFits, OpsFit
<1>4. /\ rems[i].type \in {"license", "resource", "item"}
      /\ label = 1 => ~IsReference(i)
      /\ IsTerms(i) => i \in sync.db.custom
      /\ rems[i] \in Entity
  BY <1>2, <1>3, RemsFacts DEF ListFits, OpsFit
<1>5. sync.publish => Again(s, i)
  <2>1. Leaving(s, i)
    BY <1>1, <1>3 DEF Leaving
  <2> QED BY <2>1 DEF ListFits, ComesAgain
<1>6. PICK S \in SUBSET Id :
              /\ rems[i].type = "resource" => S = Active("item")
              /\ rems[i].type # "resource" /\ i \in sync.db.custom => S = Active("resource")
              /\ rems[i].type # "resource" /\ i \notin sync.db.custom => S = {}
              /\ ArchiveFirst(i) \in Seq(Op)
              /\ Pending(ArchiveFirst(i)) = {<< "archive", j >> : j \in S}
              /\ Ordered(ArchiveFirst(i)) /\ Paired(ArchiveFirst(i))
  BY FirstFacts, Zenon
<1>7. PICK a \in Seq(Op) : a = ArchiveFirst(i)
  BY <1>6
<1>8. Pending(a) = {<< "archive", j >> : j \in S} /\ Ordered(a) /\ Paired(a)
  BY <1>6, <1>7
<1>9. \A x \in Pending(a) : x[1] = "archive" /\ x[2] \in S
  BY <1>8
<1>10. PICK b : b = << << "disable", i >>, << "hide", i >> >>
  BY Zenon
<1>11. << "disable", i >> \in Op /\ << "hide", i >> \in Op
  BY <1>1, <1>3 DEF Op
<1>12. /\ b \in Seq(Op) /\ Pending(b) = {<< "disable", i >>, << "hide", i >>}
       /\ Ordered(b) /\ Paired(b) /\ DOMAIN b = {1, 2} /\ b[1] = << "disable", i >>
            /\ b[2] = << "hide", i >>
  <2>1. b \in Seq(Op) /\ Pending(b) = {<< "disable", i >>, << "hide", i >>} /\ Ordered(b)
    BY <1>10, <1>11, TwoFacts, Zenon DEF Follows, IsEarly
  <2>2. DOMAIN b = {1, 2} /\ b[1] = << "disable", i >> /\ b[2] = << "hide", i >>
    BY <1>10
  <2>3. Paired(b)
    <3> SUFFICES ASSUME NEW n \in DOMAIN b, b[n][1] = "disable"
                 PROVE  n + 1 \in DOMAIN b /\ b[n + 1] = << "hide", b[n][2] >>
      BY DEF Paired
    <3>1. b[2][1] = "hide"
      BY <2>2
    <3>2. n = 1
      BY <2>2, <3>1
    <3> QED BY <2>2, <3>2
  <2> QED BY <2>1, <2>2, <2>3
<1>13. PICK m \in Seq(Op) : m = a \o b
  BY <1>12, ConcatFacts, Zenon
<1>14. Pending(m) = {<< "archive", j >> : j \in S} \cup {<< "disable", i >>, << "hide", i >>}
  BY <1>8, <1>12, <1>13, ConcatFacts
<1>15. \A x \in Pending(m) : (x[1] = "archive" /\ x[2] \in S) \/ x = << "disable", i >>
       \/ x = << "hide", i >>
  BY <1>14
<1>16. \A x \in Pending(m) : x[1] \in {"archive", "disable", "hide"}
  BY <1>15
<1>17. Ordered(m)
  <2>1. \A x \in Pending(a), y \in Pending(b) : Follows(x, y)
    BY <1>9 DEF Follows, IsEarly
  <2> QED BY <1>8, <1>12, <1>13, <2>1, OrderedConcat, Zenon
<1>18. Paired(m)
  BY <1>8, <1>12, <1>13, PairedConcat
<1>19. \A j \in S : rems[j].type \in {"item", "resource"}
  BY <1>6, ActiveFacts
<1>20. OpsFit(m)
  <2>1. ASSUME NEW x \in Pending(m), x[2] \in S, x[1] = "archive"
        PROVE  /\ x[2] \in Id /\ rems[x[2]].type \in {"license", "resource", "item"}
               /\ ~IsReference(x[2]) /\ ~IsTerms(x[2])
    BY <1>19, <2>1 DEF IsReference, IsTerms
  <2>2. ASSUME NEW x \in Pending(m), x = << "disable", i >> \/ x = << "hide", i >>
        PROVE  x[2] = i /\ x[1] # "archive"
    BY <2>2
  <2> QED BY <1>4, <1>15, <1>16, <2>1, <2>2 DEF OpsFit
<1>21. UsersFirst(m)
  <2> SUFFICES ASSUME NEW n \in DOMAIN m, m[n][1] = "hide", ~IsReference(m[n][2]),
                      NEW j \in Active("resource") \cup Active("item"),
                      m[n][2] \in rems[j].uses, rems[m[n][2]].type \in {"license", "resource"}
               PROVE  \E l \in DOMAIN m : l < n /\ m[l] \in {<< "archive", j >>, << "hide", j >>}
    BY DEF UsersFirst
  <2>1. m[n] \in Pending(m)
    BY DEF Pending
  <2>2. m[n] = << "hide", i >>
    BY <1>15, <2>1
  <2>3. m[n][2] = i
    BY <2>2
  <2>4. j \in Id /\ rems[j].type \in {"resource", "item"}
    BY ActiveFacts
  <2>5. j \in S
    <3>1. CASE rems[i].type = "resource"
      <4>1. rems[j].type # "resource"
        BY <2>3, <2>4, <3>1 DEF EntitiesFit
      <4> QED BY <1>6, <3>1, <4>1, ActiveFacts
    <3>2. CASE rems[i].type = "license"
      <4>1. rems[j].type # "item"
        BY <2>3, <2>4, <3>2 DEF EntitiesFit
      <4>2. IsTerms(i)
        BY <1>4, <2>3, <3>2 DEF IsTerms, IsReference, Entity, Made
      <4> QED BY <1>4, <1>6, <3>2, <4>1, <4>2, ActiveFacts
    <3> QED BY <2>3, <3>1, <3>2
  <2>6. << "archive", j >> \in Pending(a)
    BY <1>8, <2>5
  <2>7. PICK l \in DOMAIN a : a[l] = << "archive", j >>
    BY <2>6 DEF Pending
  <2>8. l \in DOMAIN m /\ m[l] = << "archive", j >>
    BY <1>12, <1>13, <2>7, ConcatFacts
  <2>9. n \notin DOMAIN a
    <3>1. n \in DOMAIN a => m[n] = a[n]
      BY <1>12, <1>13, ConcatFacts
    <3>2. n \in DOMAIN a => a[n] \in Pending(a)
      BY DEF Pending
    <3> QED BY <1>9, <3>1, <3>2
  <2>10. DOMAIN a = 1 .. Len(a) /\ Len(a) \in Nat /\ n \in Nat /\ n >= 1
    BY ListFacts
  <2> QED BY <2>7, <2>8, <2>9, <2>10
<1>22. << "forget", 0 >> \notin Pending(m) /\ \A k : << "create", k >> \notin Pending(m)
  <2>1. << "forget", 0 >>[1] = "forget" /\ \A k : << "create", k >>[1] = "create"
    OBVIOUS
  <2> QED BY <1>16, <2>1, Zenon
<1>23. ForgetsNothing(m) /\ Replaced(m)
  BY <1>22 DEF ForgetsNothing, Replaced
<1>24. ASSUME sync.publish, NEW j \in Id, Leaving(m, j) PROVE Again(m \o Tail(s), j)
  <2> DEFINE t == m \o Tail(s)
  <2> SUFFICES Again(t, j)
    OBVIOUS
  <2>1. Pending(t) = Pending(m) \cup Pending(Tail(s))
    BY <1>1, ConcatFacts, Zenon
  <2>2. \A k : << "ensure", k >> \in Pending(s) => << "ensure", k >> \in Pending(t)
    BY <1>1, <1>2, <2>1
  <2>3. \A k : << "create", k >> \in Pending(s) => << "create", k >> \in Pending(t)
    BY <1>1, <1>2, <2>1
  <2>4. \A k : Soon(s, k) => Soon(t, k)
    BY <2>2, <2>3 DEF Soon
  <2> HIDE DEF t
  <2>5. CASE j = i
    BY <1>5, <1>24, <2>2, <2>4, <2>5 DEF Again
  <2>6. CASE j # i /\ j \in S
    <3>1. CASE rems[i].type = "resource"
      <4>1. rems[j].type = "item"
        BY <1>6, <2>6, <3>1, ActiveFacts
      <4>2. Soon(s, Resource)
        BY <1>5, <1>24, <3>1 DEF Again
      <4>3. PICK op \in Pending(s) : op \in {<< "ensure", Resource >>, << "create", Resource >>}
        BY <4>2 DEF Soon
      <4>4. ~IsEarly(op) /\ Rank(op) < KeyRank(Item)
        BY <4>3, KeyFacts DEF IsEarly, Rank, KeyRank
      <4>5. << "ensure", Item >> \in Pending(s)
        BY <1>24, <4>4 DEF ListFits, NeededFollow, Needed
      <4>6. Soon(t, Item)
        BY <2>4, <4>5, Zenon DEF Soon
      <4>7. j # Row(Terms) /\ j # Row(Reference)
        BY <4>1, RemsFacts, KeyFacts, SMTT(20) DEF RowsFit, Row, IsFor, IsTerms, IsReference
      <4> QED BY <4>1, <4>6, <4>7 DEF Again
    <3>2. CASE rems[i].type # "resource"
      <4>1. i \in sync.db.custom /\ rems[j].type = "resource"
        BY <1>6, <2>6, <3>2, ActiveFacts
      <4>2. IsTerms(i)
        BY <4>1 DEF RowsFit
      <4>3. << "ensure", Resource >> \in Pending(t)
        BY <1>5, <1>24, <2>2, <4>2 DEF Again, IsTerms
      <4>4. Soon(t, Resource)
        BY <4>3, SMTT(20) DEF Soon
      <4>5. j # Row(Terms) /\ j # Row(Reference)
        BY <4>1, RemsFacts, KeyFacts DEF RowsFit, Row, IsFor, IsTerms, IsReference
      <4> QED BY <4>1, <4>4, <4>5 DEF Again
    <3> QED BY <3>1, <3>2
  <2>7. j = i \/ j \in S
    <3>1. PICK x \in Pending(m) : x \in {<< "archive", j >>, << "hide", j >>}
      BY <1>24 DEF Leaving
    <3> QED BY <1>15, <3>1
  <2> QED BY <2>5, <2>6, <2>7
<1>25. \A x \in Pending(m) : IsEarly(x)
  BY <1>16 DEF IsEarly
<1>26. << "hide", s[1][2] >> \in Pending(m)
  BY <1>2, <1>3, <1>14
<1>27. MoreFits(s, m)
  BY <1>2, <1>17, <1>18, <1>20, <1>21, <1>23, <1>24, <1>25, <1>26 DEF MoreFits
<1> QED BY <1>3, <1>7, <1>10, <1>13, <1>27, Zenon DEF ArchiveEntity

-----------------------------------------------------------------------------
(* What the invariant says stays true when nothing it is about changes. *)

LEMMA RowsStay ==
    ASSUME Id \subseteq Id',
           \A j \in Id : rems'[j].type = rems[j].type /\ rems'[j].what = rems[j].what,
           NEW d, RowsFit(d)
    PROVE  RowsFit(d)'
<1>1. \A i \in d.custom : i \in Id' /\ IsTerms(i)'
  BY DEF RowsFit, IsTerms
<1>2. ASSUME NEW k \in Key, d.row[k] # 0 PROVE d.row[k] \in Id' /\ IsFor(d.row[k], k)'
  BY <1>2, SMTT(20) DEF RowsFit, IsFor, IsTerms, IsReference, Terms, Reference, Resource, Form, Item
<1> QED BY <1>1, <1>2 DEF RowsFit, Key, Terms

LEMMA EntitiesStay ==
    ASSUME Id' = Id, label' \in {label, 2},
           \A j \in Id : /\ rems'[j].type = rems[j].type
                         /\ rems'[j].what = rems[j].what
                         /\ rems'[j].uses = rems[j].uses,
           EntitiesFit
    PROVE  EntitiesFit'
<1> SUFFICES ASSUME NEW j \in Id
             PROVE  /\ rems'[j].uses \subseteq Id
                    /\ rems'[j].type = "item" =>
                          /\ HasOne(j, "resource")' /\ HasOne(j, "workflow")'
                          /\ \A i \in rems'[j].uses : rems'[i].type \in {"resource", "workflow",
                               "form"}
                    /\ rems'[j].type = "resource"
                         => \A i \in rems'[j].uses : rems'[i].type = "license"
                    /\ rems'[j].type \notin {"item", "resource"} => rems'[j].uses = {}
                    /\ label' = 1 /\ IsReference(j)' => rems'[j].what = << "reference", 1 >>
  BY DEF EntitiesFit
<1>1. rems'[j].uses = rems[j].uses /\ rems[j].uses \subseteq Id
      /\ \A i \in rems[j].uses : rems'[i].type = rems[i].type
  BY DEF EntitiesFit
<1>2. \A type \in {"resource", "workflow"} : HasOne(j, type) => HasOne(j, type)'
  BY <1>1 DEF HasOne
<1>3. IsReference(j)' => IsReference(j)
  BY DEF IsReference
<1>4. label' = 1 => label = 1
  OBVIOUS
<1> QED BY <1>1, <1>2, <1>3, <1>4 DEF EntitiesFit

LEMMA ListStays ==
    ASSUME SyncTypeOK, sync # None, Id' = Id, label' \in {label, 2},
           \A j \in Id : /\ rems'[j].type = rems[j].type
                         /\ rems'[j].what = rems[j].what
                         /\ rems'[j].uses = rems[j].uses
                         /\ rems[j].state = "archived" => rems'[j].state = "archived",
           sync'.publish = sync.publish, sync'.db.want = sync.db.want,
           sync'.db.custom = sync.db.custom, sync'.db.row = sync.db.row,
           NEW t \in Seq(Op), ListFits(t)
    PROVE  ListFits(t)'
<1>1. \A op \in Pending(t) : op[1] \in {"archive", "disable", "hide"} => op[2] \in Id
  BY DEF ListFits, OpsFit
<1>2. \A i \in Id : (IsReference(i)' <=> IsReference(i)) /\ (IsTerms(i)' <=> IsTerms(i))
  BY DEF IsReference, IsTerms
<1>3. \A k : Row(k)' = Row(k)
  BY DEF Row
<1>4. label' = 1 => label = 1
  OBVIOUS
<1>5. \A type : Active(type)' \subseteq Active(type)
  BY DEF Active
<1>6. Ordered(t)' /\ Paired(t)' /\ Pending(t)' = Pending(t)
  BY DEF ListFits, Ordered, Paired, Pending
<1>7. OpsFit(t)'
  <2> SUFFICES ASSUME NEW op \in Pending(t)
               PROVE  /\ op[1] \in {"archive", "disable", "hide"} =>
                            /\ op[2] \in Id'
                            /\ rems'[op[2]].type \in {"license", "resource", "item"}
                            /\ label' = 1 => ~IsReference(op[2])'
                      /\ op[1] = "archive" /\ IsTerms(op[2])' => op[2] \in sync'.db.custom
                      /\ op[1] \in {"ensure", "create", "organization", "licenses"} => sync'.publish
                      /\ op[1] \in {"archiveAll", "closeAll"} => ~sync'.publish
                      /\ op[1] \in {"ensure", "create"} => op[2] \in Needed(sync'.db.want)
    BY <1>6 DEF OpsFit, Needed, Terms, Reference, Resource, Form, Item, Workflow
  <2> QED BY <1>1, <1>2, <1>4 DEF ListFits, OpsFit
<1>8. UsersFirst(t)'
  <2> SUFFICES ASSUME NEW n \in DOMAIN t, t[n][1] = "hide", ~IsReference(t[n][2])',
                      NEW j \in Active("resource")' \cup Active("item")',
                      t[n][2] \in rems'[j].uses, rems'[t[n][2]].type \in {"license", "resource"}
               PROVE  \E m \in DOMAIN t : m < n /\ t[m] \in {<< "archive", j >>, << "hide", j >>}
    BY DEF UsersFirst
  <2>1. t[n][2] \in Id /\ j \in Active("resource") \cup Active("item") /\ j \in Id
    BY <1>1, <1>5 DEF Pending, Active
  <2> QED BY <1>2, <2>1 DEF ListFits, UsersFirst
<1>9. ForgetsNothing(t)'
  BY <1>3, <1>6 DEF ListFits, ForgetsNothing, Leaving, Terms
<1>10. Replaced(t)'
  BY <1>3, <1>6 DEF ListFits, Replaced, Leaving, Key
<1>11. NeededFollow(t)'
  BY <1>6 DEF ListFits, NeededFollow, Needed, Terms, Reference, Resource, Form, Item, Workflow
<1>12. ComesAgain(t)'
  <2> SUFFICES ASSUME sync.publish, NEW i \in Id, Leaving(t, i)' PROVE Again(t, i)'
    BY DEF ComesAgain
  <2>1. Leaving(t, i)
    BY <1>6 DEF Leaving
  <2>2. Again(t, i)
    BY <2>1 DEF ListFits, ComesAgain
  <2> QED BY <1>3, <1>6, <2>2 DEF Again, Soon, Terms, Reference, Resource, Item
<1> QED BY <1>6, <1>7, <1>8, <1>9, <1>10, <1>11, <1>12 DEF ListFits

\* What the invariant says of the sync in progress, of its rows d and its list s.
LEMMA SyncFitsNext ==
    ASSUME NEW s, NEW d,
           sync' # None => /\ s = sync'.todo /\ d = sync'.db /\ RowsFit(d)' /\ ListFits(s)'
             /\ IsMade'
                           /\ (sync'.db.error => sync'.todo = << >>)
    PROVE  SyncFits'
<1> SUFFICES ASSUME sync' # None
             PROVE  RowsFit(sync.db)' /\ ListFits(sync.todo)' /\ IsMade'
                    /\ (sync'.db.error => sync'.todo = << >>)
  BY DEF SyncFits
<1>1. RowsFit(sync.db)'
  BY DEF RowsFit
<1>2. Pending(sync.todo)' = Pending(s)' /\ Ordered(sync.todo)' /\ Paired(sync.todo)'
  BY DEF ListFits, Ordered, Paired, Pending
<1>3. OpsFit(sync.todo)'
  BY <1>2 DEF ListFits, OpsFit
<1>4. UsersFirst(sync.todo)'
  BY DEF ListFits, UsersFirst, IsReference
<1>5. ForgetsNothing(sync.todo)' /\ Replaced(sync.todo)'
  BY <1>2 DEF ListFits, ForgetsNothing, Replaced, Leaving
<1>6. NeededFollow(sync.todo)'
  BY <1>2 DEF ListFits, NeededFollow
<1>7. ComesAgain(sync.todo)'
  BY <1>2 DEF ListFits, ComesAgain, Leaving, Again, Soon
<1>8. ListFits(sync.todo)'
  BY <1>2, <1>3, <1>4, <1>5, <1>6, <1>7 DEF ListFits
<1> QED BY <1>1, <1>8

LEMMA WantedStays ==
    ASSUME NEW k \in Key, sync'.publish = sync.publish, sync'.db.want = sync.db.want,
           label' = label \/ k # Reference,
           k = Resource => /\ Row(Reference)' = Row(Reference)
                           /\ sync.db.want.terms # 0 => Row(Terms)' = Row(Terms),
           k = Item => /\ Row(Resource)' = Row(Resource)
                       /\ \A l \in {Workflow(sync.db.want)} : Row(l)' = Row(l)
                       /\ sync.db.want.manual => Row(Form)' = Row(Form)
    PROVE  Wanted(k)' = Wanted(k)
<1>1. k = Resource => Licenses' = Licenses
  BY DEF Licenses
<1>2. k = Item => Row(Workflow(sync.db.want))' = Row(Workflow(sync.db.want))
  BY DEF Row, Workflow
<1>3. \A l \in {Terms, Reference, Resource, Form, Item} : l[1] # "workflow"
  BY KeyFacts
<1>4. CASE k = Terms
  BY <1>4, KeyFacts DEF Wanted, Terms
<1>5. CASE k = Reference
  BY <1>5, KeyFacts DEF Wanted, Terms, Reference
<1>6. CASE k = Resource
  BY <1>1, <1>6, KeyFacts DEF Wanted, Terms, Reference, Resource
<1>7. CASE k = Form
  BY <1>7, KeyFacts DEF Wanted, Terms, Reference, Resource, Form
<1>8. CASE k = Item
  BY <1>2, <1>8, KeyFacts DEF Wanted, Terms, Reference, Resource, Form, Item
<1>9. CASE k \notin {Terms, Reference, Resource, Form, Item}
  BY <1>9 DEF Wanted, Terms, Reference, Resource, Form, Item
<1> QED BY <1>4, <1>5, <1>6, <1>7, <1>8, <1>9

\* Needed keys are keys.
LEMMA NeededFacts ==
    ASSUME SyncTypeOK, sync # None
    PROVE  /\ Needed(sync.db.want) \subseteq Key
           /\ \A w : sync.db.want = w => Needed(w) = Needed(sync.db.want)
           /\ sync'.db.want = sync.db.want => Needed(sync.db.want)' = Needed(sync.db.want)
BY SyncFacts, KeyFacts, Zenon DEF Needed, Terms, Reference, Resource, Form, Item, Workflow

\* Rows, entities and what is needed stay, and what was left to make still is or has been made.
LEMMA MadeStays ==
    ASSUME SyncTypeOK, sync # None, RowsFit(sync.db), IsMade, label' \in {label, 2},
           \A j \in Id : rems'[j].what = rems[j].what /\ rems'[j].uses = rems[j].uses,
           sync'.publish = sync.publish, sync'.db.want = sync.db.want,
           sync'.db.row = sync.db.row, sync'.db.error = sync.db.error,
           NEW t, sync'.todo = t,
           \A k \in Key : Soon(sync.todo, k) => Soon(t, k) \/ MadeAs(k)
    PROVE  IsMade'
<1> SUFFICES ASSUME sync.publish, ~sync.db.error, NEW k \in Needed(sync.db.want), ~Soon(t, k)
             PROVE  /\ Row(k)' # 0
                    /\ rems'[Row(k)'].uses = Wanted(k)'.uses
                    /\ k # Reference => rems'[Row(k)'].what = Wanted(k)'.what
  <2>1. Needed(sync.db.want)' = Needed(sync.db.want)
    BY NeededFacts
  <2>2. \A k : Soon(sync.todo, k)' <=> Soon(t, k)
    BY DEF Soon, Pending
  <2> QED BY <2>1, <2>2 DEF IsMade, Row, Reference
<1>1. k \in Key /\ \A l : Row(l)' = Row(l)
  BY NeededFacts DEF Row
<1>2. Row(k) # 0 /\ rems[Row(k)].uses = Wanted(k).uses
      /\ (k # Reference => rems[Row(k)].what = Wanted(k).what)
  <2>1. CASE Soon(sync.todo, k)
    BY <1>1, <2>1 DEF MadeAs
  <2>2. CASE ~Soon(sync.todo, k)
    BY <2>2 DEF IsMade
  <2> QED BY <2>1, <2>2
<1>3. Row(k) \in Id
  BY <1>1, <1>2 DEF RowsFit, Row
<1>4. Row(k)' = Row(k) /\ \A l \in {Terms, Reference, Resource, Form} : Row(l)' = Row(l)
  BY DEF Row, Terms, Reference, Resource, Form
<1>5. Wanted(k)'.uses = Wanted(k).uses /\ (k # Reference => Wanted(k)'.what = Wanted(k).what)
  <2>1. CASE k # Reference
    BY <1>1, <1>4, <2>1, WantedStays
  <2>2. CASE k = Reference
    BY <2>2, KeyFacts DEF Wanted, Terms, Reference
  <2> QED BY <2>1, <2>2
<1> QED BY <1>2, <1>3, <1>4, <1>5

LEMMA PutFits ==
    ASSUME SyncTypeOK, sync # None, sync.todo # << >>, SyncFits, NEW more,
           MoreFits(sync.todo, more),
           Put(more), UNCHANGED << rems, label >>, sync.todo[1][1] # "create",
           sync.todo[1][1] = "ensure" => << "create", Arg >> \in Pending(more) \/ MadeAs(Arg)
    PROVE  SyncFits'
<1>1. more \in Seq(Op) /\ sync.todo \in Seq(Op) /\ Tail(sync.todo) \in Seq(Op)
      /\ Pending(sync.todo) = {sync.todo[1]} \cup Pending(Tail(sync.todo)) /\ sync.todo[1] \in Op
  BY SyncFacts, TailFacts, ListFacts DEF MoreFits
<1>2. /\ sync' # None /\ sync'.todo = more \o Tail(sync.todo)
      /\ sync'.db = sync.db /\ sync'.publish = sync.publish
  BY <1>1, PutFacts
<1>3. PICK t \in Seq(Op) : t = more \o Tail(sync.todo)
  BY <1>1, ConcatFacts, Zenon
<1>4. PICK d : d = sync.db
  OBVIOUS
<1>5. RowsFit(d) /\ ListFits(sync.todo) /\ IsMade /\ ~sync.db.error
  BY <1>4 DEF SyncFits
<1>6. ListFits(t)
  BY <1>1, <1>3, <1>5, PutListFits
<1>7. Id' = Id
  BY DEF Id
<1>8. ListFits(t)'
  BY <1>2, <1>6, <1>7, ListStays
<1>9. RowsFit(d)'
  BY <1>5, <1>7, RowsStay
<1>10. \A k \in Key : Soon(sync.todo, k) => Soon(t, k) \/ MadeAs(k)
  <2> SUFFICES ASSUME NEW k \in Key, Soon(sync.todo, k), ~MadeAs(k) PROVE Soon(t, k)
    OBVIOUS
  <2>1. Pending(t) = Pending(more) \cup Pending(Tail(sync.todo))
    BY <1>1, <1>3, ConcatFacts, Zenon
  <2>2. sync.todo[1] # << "create", k >>
    OBVIOUS
  <2>3. CASE sync.todo[1] = << "ensure", k >>
    <3>1. Arg = k /\ sync.todo[1][1] = "ensure"
      BY <2>3 DEF Arg
    <3>2. << "create", k >> \in Pending(more)
      BY <3>1
    <3> QED BY <2>1, <3>2 DEF Soon
  <2> QED BY <1>1, <2>1, <2>2, <2>3 DEF Soon
<1>11. IsMade'
  <2>1. RowsFit(sync.db)
    BY DEF SyncFits
  <2> QED BY <1>2, <1>3, <1>5, <1>10, <2>1, MadeStays, Zenon
<1> QED BY <1>2, <1>3, <1>4, <1>5, <1>8, <1>9, <1>11, SyncFitsNext, Zenon

-----------------------------------------------------------------------------
(* Calls of REMS. *)

\* The first operation is done.
LEMMA FirstIsDone ==
    ASSUME NEW s \in Seq(Op), s # << >>, ListFits(s), NEW k
    PROVE  /\ s[1][1] \notin {"ensure", "create"} => (Soon(s, k) <=> Soon(Tail(s), k))
           /\ ~IsEarly(s[1]) => \A i : ~Leaving(s, i) /\ ~Leaving(Tail(s), i)
           /\ ~IsEarly(s[1]) => \A x \in Pending(Tail(s)) : IsFixed(x) /\ Rank(s[1]) < Rank(x)
           /\ Ordered(Tail(s)) /\ Paired(Tail(s))
<1>1. Pending(s) = {s[1]} \cup Pending(Tail(s))
  BY TailFacts
<1>2. Ordered(Tail(s)) /\ Paired(Tail(s)) /\ \A x \in Pending(Tail(s)) : Follows(s[1], x)
  BY OrderedTail, PairedTail DEF ListFits
<1>3. s[1][1] \notin {"ensure", "create"} => (Soon(s, k) <=> Soon(Tail(s), k))
  <2> SUFFICES ASSUME s[1][1] \notin {"ensure", "create"} PROVE Soon(s, k) <=> Soon(Tail(s), k)
    OBVIOUS
  <2>1. s[1] # << "ensure", k >> /\ s[1] # << "create", k >>
    OBVIOUS
  <2> QED BY <1>1, <2>1 DEF Soon
<1>4. ~IsEarly(s[1]) => \A x \in Pending(Tail(s)) : IsFixed(x) /\ Rank(s[1]) < Rank(x)
  BY <1>2 DEF Follows
<1>5. ASSUME ~IsEarly(s[1]), NEW i, Leaving(s, i) PROVE FALSE
  <2>1. PICK x \in Pending(s) : x \in {<< "archive", i >>, << "hide", i >>}
    BY <1>5 DEF Leaving
  <2>2. IsEarly(x)
    BY <2>1 DEF IsEarly
  <2> QED BY <1>1, <1>4, <1>5, <2>2 DEF IsFixed
<1>6. \A i : Leaving(Tail(s), i) => Leaving(s, i)
  BY <1>1 DEF Leaving
<1> QED BY <1>2, <1>3, <1>4, <1>5, <1>6

\* After it only operations may be left that put others on the list.
LEMMA FixedListFits ==
    ASSUME NEW s \in Seq(Op), s # << >>, ListFits(s), ~IsEarly(s[1]), s[1][1] # "ensure",
           sync'.publish = sync.publish, sync'.db.want = sync.db.want
    PROVE  ListFits(Tail(s))'
<1> DEFINE t == Tail(s)
<1>1. Pending(s) = {s[1]} \cup Pending(t) /\ Ordered(t) /\ Paired(t)
      /\ \A x \in Pending(t) : IsFixed(x) /\ Rank(s[1]) < Rank(x)
  BY TailFacts, FirstIsDone, Zenon
<1> HIDE DEF t
<1>2. \A x \in Pending(t) : x[1] \notin {"archive", "disable", "hide", "close", "create", "forget"}
  BY <1>1 DEF IsFixed, IsEarly
<1>3. Pending(t)' = Pending(t) /\ Ordered(t)' /\ Paired(t)'
  BY <1>1 DEF Pending, Ordered, Paired
<1>4. \A w : Needed(w)' = Needed(w)
  BY DEF Needed
<1>5. OpsFit(t)'
  <2>1. OpsFit(s)
    BY DEF ListFits
  <2>2. Needed(sync.db.want)' = Needed(sync.db.want)
    BY DEF Needed, Terms, Reference, Resource, Form, Item, Workflow
  <2>3. ASSUME NEW op \in Pending(t)
        PROVE  /\ op[1] \in {"ensure", "create", "organization", "licenses"} => sync'.publish
               /\ op[1] \in {"archiveAll", "closeAll"} => ~sync'.publish
               /\ op[1] \in {"ensure", "create"} => op[2] \in Needed(sync.db.want)'
    BY <1>1, <2>1, <2>2 DEF OpsFit
  <2> QED BY <1>2, <1>3, <2>3 DEF OpsFit
<1>6. UsersFirst(t)'
  BY <1>2 DEF UsersFirst, Pending
<1>7. << "forget", 0 >> \notin Pending(t) /\ \A k : << "create", k >> \notin Pending(t)
  <2>1. << "forget", 0 >>[1] = "forget" /\ \A k : << "create", k >>[1] = "create"
    OBVIOUS
  <2> QED BY <1>2, <2>1
<1>8. ForgetsNothing(t)' /\ Replaced(t)'
  BY <1>3, <1>7 DEF ForgetsNothing, Replaced, Key
<1>9. NeededFollow(t)'
  <2>1. Needed(sync.db.want)' = Needed(sync.db.want)
    BY DEF Needed, Terms, Reference, Resource, Form, Item, Workflow
  <2>2. ASSUME sync.publish, NEW op \in Pending(t), NEW k \in Needed(sync.db.want),
               Rank(op) < KeyRank(k)
        PROVE  << "ensure", k >> \in Pending(t)
    <3>1. ~IsEarly(op)
      BY <1>1 DEF IsFixed
    <3>2. << "ensure", k >> \in Pending(s)
      BY <1>1, <2>2, <3>1 DEF ListFits, NeededFollow
    <3> QED BY <1>1, <3>2
  <2> QED BY <1>3, <2>1, <2>2 DEF NeededFollow
<1>10. ComesAgain(t)'
  <2>1. \A i : << "archive", i >>[1] = "archive" /\ << "hide", i >>[1] = "hide"
    OBVIOUS
  <2>2. \A i : ~Leaving(t, i)'
    BY <1>2, <1>3, <2>1 DEF Leaving
  <2> QED BY <2>2 DEF ComesAgain
<1> QED BY <1>3, <1>5, <1>6, <1>8, <1>9, <1>10 DEF ListFits, t

LEMMA ForgetFits ==
    ASSUME SyncTypeOK, SyncFits, ForgetUnused
    PROVE  SyncFits'
<1> DEFINE s == sync.todo
<1>1. /\ sync # None /\ s \in Seq(Op) /\ s # << >> /\ s[1] = << "forget", 0 >> /\ Doing("forget")
      /\ rems' = rems /\ label' = label
  BY ArgFacts DEF ForgetUnused
<1>2. PICK t \in Seq(Op) : t = Tail(s)
  BY <1>1, TailFacts, Zenon
<1>3. /\ sync'.todo = t /\ sync'.db.custom = sync.db.custom \cap Licenses
      /\ sync'.db.row = sync.db.row /\ sync'.db.want = sync.db.want
           /\ sync'.db.error = sync.db.error
      /\ sync'.publish = sync.publish
  BY <1>2, ForgetFacts
<1>4. RowsFit(sync.db) /\ ListFits(s) /\ IsMade /\ ~sync.db.error
  BY <1>1 DEF SyncFits
<1>5. ~IsEarly(s[1]) /\ s[1][1] = "forget"
  BY <1>1 DEF IsEarly
<1>6. ListFits(t)'
  <2>1. PICK l : l = s
    OBVIOUS
  <2>2. l \in Seq(Op) /\ l # << >> /\ ListFits(l) /\ ~IsEarly(l[1]) /\ l[1][1] # "ensure"
        /\ t = Tail(l)
    BY <1>1, <1>2, <1>4, <1>5, <2>1, Zenon
  <2>3. ListFits(Tail(l))'
    BY <1>3, <2>2, FixedListFits
  <2> QED BY <2>2, <2>3
<1>7. PICK d : d = sync'.db
  OBVIOUS
<1>8. RowsFit(d)'
  <2>1. Row(Terms) # 0 => Row(Terms) \in Licenses
    <3> SUFFICES ASSUME Row(Terms) # 0 PROVE Row(Terms) \in Licenses
      OBVIOUS
    <3>1. << "forget", 0 >> \in Pending(s)
      BY <1>1, TailFacts, Zenon
    <3>2. ~Leaving(s, Row(Terms))
      BY <1>1, <1>4, <1>5, FirstIsDone, Zenon
    <3>3. sync.publish /\ sync.db.want.terms # 0
      BY <1>4, <3>1, <3>2 DEF ListFits, ForgetsNothing
    <3> QED BY <3>3 DEF Licenses
  <2>2. PICK c : c = sync.db
    OBVIOUS
  <2>3. RowsFit(c) /\ Id \subseteq Id'
    BY <1>1, <1>4, <2>2 DEF Id
  <2>4. RowsFit(c)'
    BY <1>1, <2>3, RowsStay
  <2>5. c.row = d.row /\ d.custom = c.custom \cap Licenses
    BY <1>3, <1>7, <2>2
  <2> QED BY <2>1, <2>2, <2>4, <2>5 DEF RowsFit, Row, Key, Terms
<1>9. IsMade'
  <2>1. \A k \in Key : Soon(s, k) => Soon(t, k) \/ MadeAs(k)
    BY <1>1, <1>2, <1>4, <1>5, FirstIsDone, Zenon
  <2> QED BY <1>1, <1>3, <1>4, <2>1, MadeStays
<1> QED BY <1>3, <1>4, <1>6, <1>7, <1>8, <1>9, SyncFitsNext

LEMMA DisableFits ==
    ASSUME SyncTypeOK, SyncFits, Disable
    PROVE  SyncFits'
<1> DEFINE s == sync.todo
<1>1. /\ sync # None /\ s \in Seq(Op) /\ s # << >> /\ s[1] = << "disable", Arg >>
           /\ Doing("disable")
      /\ label' = label
  BY ArgFacts DEF Disable
<1>2. PICK t \in Seq(Op) : t = Tail(s)
  BY <1>1, TailFacts, Zenon
<1>3. /\ sync'.todo = t /\ sync'.db = sync.db /\ sync'.publish = sync.publish /\ Id' = Id
      /\ \A j \in Id : /\ rems'[j].type = rems[j].type
                       /\ rems'[j].what = rems[j].what
                       /\ rems'[j].uses = rems[j].uses
                       /\ rems'[j].state = "archived" <=> rems[j].state = "archived"
  BY <1>2, DisableFacts
<1>4. PICK d : d = sync.db
  OBVIOUS
<1>5. RowsFit(d) /\ RowsFit(sync.db) /\ ListFits(s) /\ IsMade /\ ~sync.db.error
  BY <1>1, <1>4 DEF SyncFits
<1>6. s[1][1] = "disable"
  BY <1>1
<1>7. ListFits(t)
  <2>1. MoreFits(s, << >>)
    BY <1>6, EmptyFits
  <2>2. ListFits(<< >> \o Tail(s))
    BY <1>1, <1>5, <2>1, PutListFits, Zenon
  <2>3. << >> \o Tail(s) = t
    BY <1>1, <1>2, TailFacts, ConcatEmptySeq
  <2> QED BY <2>2, <2>3, Zenon
<1>8. ListFits(t)'
  BY <1>1, <1>3, <1>7, ListStays
<1>9. RowsFit(d)'
  BY <1>3, <1>5, RowsStay
<1>10. IsMade'
  <2>1. \A k \in Key : Soon(s, k) => Soon(t, k) \/ MadeAs(k)
    BY <1>1, <1>2, <1>5, <1>6, FirstIsDone
  <2> QED BY <1>1, <1>3, <1>5, <2>1, MadeStays
<1> QED BY <1>3, <1>4, <1>5, <1>8, <1>9, <1>10, SyncFitsNext

\* Rows that what is wanted under a key refers to.
LEMMA UsedFacts ==
    ASSUME SyncTypeOK, SyncFits, sync # None, ~sync.db.error, sync.publish,
           NEW k \in Needed(sync.db.want), k \in {Resource, Item},
           \A x \in Pending(sync.todo) : ~IsEarly(x) => Rank(x) >= KeyRank(k)
    PROVE  /\ Wanted(k).uses \subseteq Id
           /\ k = Resource => \A i \in Wanted(k).uses : rems[i].type = "license"
           /\ k = Item => /\ rems[Row(Resource)].type = "resource"
                /\ Row(Resource) \in Wanted(k).uses
                          /\ rems[Row(Workflow(sync.db.want))].type = "workflow"
                          /\ Row(Workflow(sync.db.want)) \in Wanted(k).uses
                          /\ \A i \in Wanted(k).uses : i = Row(Resource)
                               \/ i = Row(Workflow(sync.db.want))
                                                       \/ rems[i].type = "form"
<1> DEFINE W == Workflow(sync.db.want)
<1>1. sync.db.want \in Want /\ W \in Key /\ {Terms, Reference, Resource, Form, Item} \subseteq Key
      /\ W \notin {Terms, Reference, Resource, Form, Item} /\ W[1] = "workflow"
  BY SyncFacts, KeyFacts, Zenon DEF Workflow
<1>2. RowsFit(sync.db) /\ IsMade
  BY DEF SyncFits
<1>3. ASSUME NEW l \in Needed(sync.db.want), l \in Key,
             KeyRank(l) < KeyRank(k) PROVE Row(l) \in Id /\ IsFor(Row(l), l)
  <2>1. ~Soon(sync.todo, l)
    <3> SUFFICES ASSUME Soon(sync.todo, l) PROVE FALSE
      OBVIOUS
    <3>1. PICK x \in Pending(sync.todo) : x \in {<< "ensure", l >>, << "create", l >>}
      BY DEF Soon
    <3>2. ~IsEarly(x) /\ Rank(x) = KeyRank(l)
      BY <3>1 DEF IsEarly, Rank
    <3>3. KeyRank(l) \in Nat /\ KeyRank(k) \in Nat
      BY DEF KeyRank
    <3> QED BY <1>3, <3>2, <3>3
  <2>2. Row(l) # 0
    BY <1>2, <2>1 DEF IsMade
  <2> QED BY <1>2, <1>3, <2>2 DEF RowsFit, Row
<1>4. CASE k = Resource
  <2>1. Wanted(k).uses = Licenses
    BY <1>1, <1>4, WantedFacts, KeyFacts
  <2>2. KeyRank(Reference) < KeyRank(k) /\ KeyRank(Terms) < KeyRank(k)
    BY <1>4, KeyFacts DEF KeyRank
  <2>3. Row(Reference) \in Id /\ rems[Row(Reference)].type = "license"
    <3>1. Row(Reference) \in Id /\ IsFor(Row(Reference), Reference)
      BY <1>1, <1>3, <2>2 DEF Needed
    <3> QED BY <3>1, KeyFacts DEF IsFor, IsReference
  <2>4. sync.db.want.terms # 0 => Row(Terms) \in Id /\ rems[Row(Terms)].type = "license"
    <3> SUFFICES ASSUME sync.db.want.terms # 0 PROVE Row(Terms) \in Id
                        /\ rems[Row(Terms)].type = "license"
      OBVIOUS
    <3>1. Row(Terms) \in Id /\ IsFor(Row(Terms), Terms)
      BY <1>1, <1>3, <2>2 DEF Needed
    <3> QED BY <3>1, KeyFacts DEF IsFor, IsTerms
  <2> QED BY <1>4, <2>1, <2>3, <2>4, KeyFacts DEF Licenses
<1>5. CASE k = Item
  <2>1. Wanted(k).uses = {Row(Resource), Row(W)}
        \cup (IF sync.db.want.manual THEN {Row(Form)} ELSE {})
    BY <1>1, <1>5, WantedFacts, KeyFacts
  <2>2. KeyRank(Resource) < KeyRank(k) /\ KeyRank(Form) < KeyRank(k) /\ KeyRank(W) < KeyRank(k)
    BY <1>1, <1>5, KeyFacts DEF KeyRank
  <2>3. Row(Resource) \in Id /\ rems[Row(Resource)].type = "resource"
    <3>1. Row(Resource) \in Id /\ IsFor(Row(Resource), Resource)
      BY <1>1, <1>3, <2>2 DEF Needed
    <3> QED BY <3>1, KeyFacts DEF IsFor
  <2>4. sync.db.want.manual => Row(Form) \in Id /\ rems[Row(Form)].type = "form"
    <3> SUFFICES ASSUME sync.db.want.manual PROVE Row(Form) \in Id /\ rems[Row(Form)].type = "form"
      OBVIOUS
    <3>1. Row(Form) \in Id /\ IsFor(Row(Form), Form)
      BY <1>1, <1>3, <2>2 DEF Needed
    <3> QED BY <3>1, KeyFacts DEF IsFor
  <2>5. Row(W) \in Id /\ rems[Row(W)].type = "workflow"
    <3>1. Row(W) \in Id /\ IsFor(Row(W), W)
      BY <1>1, <1>3, <2>2 DEF Needed
    <3> QED BY <1>1, <3>1, KeyFacts DEF IsFor
  <2> QED BY <1>5, <2>1, <2>3, <2>4, <2>5, KeyFacts
<1> QED BY <1>4, <1>5

\* The state in which an entity is created.
LEMMA CreatingFacts ==
    ASSUME SyncTypeOK, SyncFits, Create
    PROVE  /\ sync # None /\ ~sync.db.error /\ sync.publish
           /\ sync.todo \in Seq(Op) /\ sync.todo # << >> /\ ~IsEarly(sync.todo[1])
           /\ sync.todo[1] = << "create", Arg >> /\ sync.todo[1] \in Pending(sync.todo)
           /\ Arg \in Key /\ Arg \in Needed(sync.db.want)
           /\ \A x \in Pending(sync.todo) : ~IsEarly(x) /\ Rank(x) >= KeyRank(Arg)
           /\ \A x \in Pending(Tail(sync.todo)) : Rank(x) > KeyRank(Arg)
           /\ Row(Arg) = 0
<1>1. /\ sync # None /\ sync.todo \in Seq(Op) /\ sync.todo # << >> /\ Arg \in Key
      /\ sync.todo[1] = << "create", Arg >> /\ Doing("create")
      /\ Pending(sync.todo) = {sync.todo[1]} \cup Pending(Tail(sync.todo))
  BY ArgFacts, TailFacts DEF Create
<1>2. ~IsEarly(sync.todo[1]) /\ Rank(sync.todo[1]) = KeyRank(Arg) /\ sync.todo[1][1] = "create"
      /\ sync.todo[1][2] = Arg
  BY <1>1 DEF IsEarly, Rank
<1>3. ListFits(sync.todo) /\ ~sync.db.error
  BY <1>1 DEF SyncFits
<1>4. \A x \in Pending(Tail(sync.todo)) : IsFixed(x) /\ Rank(x) > KeyRank(Arg)
  <2>1. ASSUME NEW x \in Pending(Tail(sync.todo)) PROVE IsFixed(x) /\ Rank(sync.todo[1]) < Rank(x)
    BY <1>1, <1>2, <1>3, FirstIsDone, Zenon
  <2>2. ASSUME NEW x PROVE Rank(x) \in Nat /\ KeyRank(Arg) \in Nat
    BY DEF Rank, KeyRank
  <2> QED BY <1>2, <2>1, <2>2
<1>5. sync.publish /\ Arg \in Needed(sync.db.want)
  BY <1>1, <1>2, <1>3 DEF ListFits, OpsFit
<1>6. Row(Arg) = 0
  <2>1. ~Leaving(sync.todo, Row(Arg))
    BY <1>1, <1>2, <1>3, FirstIsDone, Zenon
  <2> QED BY <1>1, <1>3, <2>1, Zenon DEF ListFits, Replaced
<1>7. \A x : Rank(x) \in Nat /\ KeyRank(Arg) \in Nat
  BY DEF Rank, KeyRank
<1> QED BY <1>1, <1>2, <1>3, <1>4, <1>5, <1>6, <1>7 DEF IsFixed

LEMMA CreatedEntityFits ==
    ASSUME SyncTypeOK, EntitiesFit, SyncFits, Create
    PROVE  EntitiesFit'
<1>1. PICK k \in Key : k = Arg
  BY CreatingFacts
<1>2. PICK n \in Nat : n = NewId /\ n \notin Id
  BY RemsFacts
<1>3. /\ Id' = Id \cup {n} /\ rems'[n] = Wanted(k) /\ label' = label
      /\ \A i \in Id : rems'[i] = rems[i]
  BY <1>1, <1>2, CreateFacts, Zenon DEF Create
<1>4. ASSUME NEW j \in Id
      PROVE  /\ rems'[j].uses \subseteq Id
             /\ rems'[j].type = "item" =>
                    /\ HasOne(j, "resource")' /\ HasOne(j, "workflow")'
                    /\ \A i \in rems'[j].uses : rems'[i].type \in {"resource", "workflow", "form"}
             /\ rems'[j].type = "resource" => \A i \in rems'[j].uses : rems'[i].type = "license"
             /\ rems'[j].type \notin {"item", "resource"} => rems'[j].uses = {}
             /\ label' = 1 /\ IsReference(j)' => rems'[j].what = << "reference", 1 >>
  <2>1. rems'[j] = rems[j] /\ rems[j].uses \subseteq Id
        /\ \A i \in rems[j].uses : rems'[i] = rems[i]
    BY <1>3 DEF EntitiesFit
  <2>2. \A type : HasOne(j, type) => HasOne(j, type)'
    BY <2>1 DEF HasOne
  <2>3. IsReference(j)' => IsReference(j)
    BY <2>1 DEF IsReference
  <2> QED BY <1>3, <2>1, <2>2, <2>3 DEF EntitiesFit
<1>5. /\ sync # None /\ ~sync.db.error /\ sync.publish /\ k \in Needed(sync.db.want)
      /\ \A x \in Pending(sync.todo) : ~IsEarly(x) => Rank(x) >= KeyRank(k)
  BY <1>1, CreatingFacts
<1>6. /\ Wanted(k).uses \subseteq Id
      /\ Wanted(k).type = "item" =>
             /\ HasOne(n, "resource")' /\ HasOne(n, "workflow")'
             /\ \A i \in Wanted(k).uses : rems'[i].type \in {"resource", "workflow", "form"}
      /\ Wanted(k).type = "resource" => \A i \in Wanted(k).uses : rems'[i].type = "license"
      /\ Wanted(k).type \notin {"item", "resource"} => Wanted(k).uses = {}
  <2>1. CASE k = Resource
    <3>1. Wanted(k).type = "resource"
      BY <1>5, <2>1, WantedFacts, KeyFacts
    <3>2. Wanted(k).uses \subseteq Id /\ \A i \in Wanted(k).uses : rems[i].type = "license"
      BY <1>5, <2>1, UsedFacts
    <3> QED BY <1>3, <3>1, <3>2
  <2>2. CASE k = Item
    <3>1. Wanted(k).type = "item"
      BY <1>5, <2>2, WantedFacts, KeyFacts
    <3>2. PICK r, w : r = Row(Resource) /\ w = Row(Workflow(sync.db.want))
      OBVIOUS
    <3>3. /\ Wanted(k).uses \subseteq Id
          /\ r \in Wanted(k).uses /\ w \in Wanted(k).uses
          /\ rems[r].type = "resource" /\ rems[w].type = "workflow"
          /\ \A i \in Wanted(k).uses : i = r \/ i = w \/ rems[i].type = "form"
      BY <1>5, <2>2, <3>2, UsedFacts, KeyFacts
    <3>4. /\ rems'[r].type = "resource" /\ rems'[w].type = "workflow"
          /\ \A i \in Wanted(k).uses : i = r \/ i = w \/ rems'[i].type = "form"
      BY <1>3, <3>3
    <3>5. rems'[n].uses = Wanted(k).uses
      BY <1>3
    <3>6. HasOne(n, "resource")'
      BY <3>3, <3>4, <3>5 DEF HasOne
    <3>7. HasOne(n, "workflow")'
      BY <3>3, <3>4, <3>5 DEF HasOne
    <3> QED BY <3>1, <3>3, <3>4, <3>6, <3>7
  <2>3. CASE k \notin {Resource, Item}
    <3>1. Wanted(k).uses = {} /\ Wanted(k).type \notin {"item", "resource"}
      BY <1>5, <2>3, WantedFacts, KeyFacts
    <3> QED BY <3>1
  <2> QED BY <2>1, <2>2, <2>3
<1>7. label' = 1 /\ IsReference(n)' => rems'[n].what = << "reference", 1 >>
  <2> SUFFICES ASSUME label' = 1, IsReference(n)' PROVE rems'[n].what = << "reference", 1 >>
    OBVIOUS
  <2>1. Wanted(k).type = "license" /\ Wanted(k).what \in {"reference"} \X {1, 2}
    BY <1>3 DEF IsReference
  <2>2. k \in {Terms, Reference}
    BY <1>5, <2>1, WantedFacts, KeyFacts
  <2>3. k # Terms
    <3> SUFFICES ASSUME k = Terms PROVE FALSE
      OBVIOUS
    <3>1. Wanted(k).what = << "terms", sync.db.want.terms >>
      BY <1>5, WantedFacts, KeyFacts
    <3> QED BY <2>1, <3>1
  <2> QED BY <1>3, <1>5, <2>2, <2>3, WantedFacts, KeyFacts
<1>8. \A j \in Id' : j \in Id \/ j = n
  BY <1>3
<1>9. \A j \in Id' : j = n => rems'[j] = Wanted(k)
  BY <1>3
<1> QED BY <1>3, <1>4, <1>6, <1>7, <1>8, <1>9 DEF EntitiesFit

LEMMA CreateFits ==
    ASSUME SyncTypeOK, SyncFits, Create
    PROVE  SyncFits'
<1>1. PICK k \in Key : k = Arg
  BY CreatingFacts
<1>2. PICK n \in Nat : n = NewId /\ n \notin Id /\ n # 0
  BY RemsFacts
<1>3. /\ Id' = Id \cup {n} /\ rems'[n] = Wanted(k) /\ label' = label
      /\ \A i \in Id : rems'[i] = rems[i]
      /\ sync'.db.row = [sync.db.row EXCEPT ![k] = n]
      /\ sync'.db.custom = sync.db.custom \cup {i \in {n} : k = Terms}
      /\ sync'.db.want = sync.db.want /\ sync'.db.error = sync.db.error
      /\ sync'.publish = sync.publish
  BY <1>1, <1>2, CreateFacts, Zenon DEF Create
<1>4. PICK s : s = sync.todo
  OBVIOUS
<1>5. /\ sync # None /\ ~sync.db.error /\ sync.publish
      /\ s \in Seq(Op) /\ s # << >> /\ ~IsEarly(s[1])
      /\ s[1] = << "create", k >> /\ s[1] \in Pending(s)
      /\ k \in Needed(sync.db.want)
      /\ \A x \in Pending(s) : ~IsEarly(x) /\ Rank(x) >= KeyRank(k)
      /\ \A x \in Pending(Tail(s)) : Rank(x) > KeyRank(k)
      /\ Row(k) = 0
  BY <1>1, <1>4, CreatingFacts
<1>6. PICK t \in Seq(Op) : t = Tail(s)
  BY <1>5, TailFacts, Zenon
<1>7. sync'.todo = t /\ s[1][1] = "create"
  BY <1>4, <1>5, <1>6, CreateFacts
<1>8. ListFits(s) /\ RowsFit(sync.db) /\ IsMade
  BY <1>4, <1>5 DEF SyncFits
<1>9. ListFits(t)'
  <2>1. ListFits(Tail(s))'
    BY <1>3, <1>5, <1>7, <1>8, FixedListFits, Zenon
  <2> QED BY <1>6, <2>1
<1>10. PICK c, d : c = sync.db /\ d = sync'.db
  OBVIOUS
<1>11. c.row \in [Key -> Nat] /\ d.row = [c.row EXCEPT ![k] = n]
       /\ d.custom = c.custom \cup {i \in {n} : k = Terms}
  BY <1>3, <1>5, <1>10, SyncFacts
<1>12. RowsFit(d)'
  <2>1. RowsFit(c)'
    <3>1. RowsFit(c) /\ Id \subseteq Id'
      BY <1>3, <1>8, <1>10
    <3> QED BY <1>3, <3>1, RowsStay
  <2>2. IsFor(n, k)' /\ (k = Terms => IsTerms(n)')
    <3>1. k = Terms => IsTerms(n)'
      <4> SUFFICES ASSUME k = Terms PROVE IsTerms(n)'
        OBVIOUS
      <4>1. Wanted(k).type = "license" /\ Wanted(k).what = << "terms", sync.db.want.terms >>
            /\ sync.db.want.terms \in 0 .. MaxTerms
        BY <1>5, WantedFacts, SyncFacts DEF Want
      <4> QED BY <1>3, <4>1 DEF IsTerms
    <3>2. k = Reference => IsReference(n)'
      <4> SUFFICES ASSUME k = Reference PROVE IsReference(n)'
        OBVIOUS
      <4>1. Wanted(k).type = "license" /\ Wanted(k).what = << "reference", label >>
            /\ label \in {1, 2}
        BY <1>5, WantedFacts DEF SyncTypeOK
      <4> QED BY <1>3, <4>1 DEF IsReference
    <3>3. k \notin {Terms, Reference} =>
              \/ k = Resource /\ rems'[n].type = "resource"
              \/ k = Form /\ rems'[n].type = "form"
              \/ k = Item /\ rems'[n].type = "item"
              \/ k[1] = "workflow" /\ rems'[n].type = "workflow" /\ rems'[n].what = << k[2], k[3] >>
      BY <1>3, <1>5, WantedFacts, KeyFacts
    <3> QED BY <3>1, <3>2, <3>3 DEF IsFor, Terms, Reference, Resource, Form, Item
  <2>3. \A l \in Key : d.row[l] = IF l = k THEN n ELSE c.row[l]
    BY <1>11
  <2>4. \A l \in Key : d.row[l] # 0 => d.row[l] \in Id' /\ IsFor(d.row[l], l)'
    <3> SUFFICES ASSUME NEW l \in Key, d.row[l] # 0 PROVE d.row[l] \in Id' /\ IsFor(d.row[l], l)'
      OBVIOUS
    <3>1. CASE l = k
      BY <1>3, <2>2, <2>3, <3>1
    <3>2. CASE l # k
      BY <2>1, <2>3, <3>2 DEF RowsFit, Key
    <3> QED BY <3>1, <3>2
  <2>5. d.custom \subseteq Id' /\ \A i \in d.custom : IsTerms(i)'
    BY <1>3, <1>11, <2>1, <2>2 DEF RowsFit
  <2>6. d.row[Terms] # 0 => d.row[Terms] \in d.custom
    BY <1>11, <2>1, <2>3, KeyFacts DEF RowsFit, Terms
  <2> QED BY <2>4, <2>5, <2>6 DEF RowsFit, Key, Terms
<1>13. IsMade'
  <2> SUFFICES ASSUME NEW l \in Needed(sync.db.want), ~Soon(t, l)
               PROVE  /\ Row(l)' # 0
                      /\ rems'[Row(l)'].uses = Wanted(l)'.uses
                      /\ l # Reference => rems'[Row(l)'].what = Wanted(l)'.what
    <3>1. Needed(sync.db.want)' = Needed(sync.db.want)
      BY <1>3, <1>5, NeededFacts
    <3>2. \A x : Soon(sync.todo, x)' <=> Soon(t, x)
      BY <1>7 DEF Soon, Pending
    <3> QED BY <3>1, <3>2 DEF IsMade, Row, Reference
  <2>1. l \in Key /\ Row(l)' = IF l = k THEN n ELSE Row(l)
    BY <1>3, <1>5, <1>11, <1>10, NeededFacts DEF Row
  <2>2. \A x \in Key : x # k => Row(x)' = Row(x)
    BY <1>3, <1>10, <1>11 DEF Row
  <2>3. CASE l = k
    <3>1. Wanted(k)' = Wanted(k)
      <4>1. k = Resource => Row(Reference)' = Row(Reference) /\ Row(Terms)' = Row(Terms)
        BY <2>2, KeyFacts DEF Row, Reference, Terms
      <4>2. k = Item => /\ Row(Resource)' = Row(Resource) /\ Row(Form)' = Row(Form)
                        /\ \A x \in {Workflow(sync.db.want)} : Row(x)' = Row(x)
        <5>1. Workflow(sync.db.want) \in Key /\ Workflow(sync.db.want)[1] = "workflow"
          BY <1>5, SyncFacts, KeyFacts, Zenon DEF Workflow
        <5> QED BY <2>2, <5>1, KeyFacts DEF Row, Resource, Form
      <4> QED BY <1>3, <4>1, <4>2, WantedStays
    <3> QED BY <1>2, <1>3, <2>1, <2>3, <3>1
  <2>4. CASE l # k
    <3>1. ~Soon(s, l)
      <4>1. s[1] # << "ensure", l >> /\ s[1] # << "create", l >>
        BY <1>5, <2>4
      <4>2. Pending(s) = {s[1]} \cup Pending(t)
        BY <1>5, <1>6, TailFacts, Zenon
      <4> QED BY <4>1, <4>2 DEF Soon
    <3>2. Row(l) # 0 /\ rems[Row(l)].uses = Wanted(l).uses
          /\ (l # Reference => rems[Row(l)].what = Wanted(l).what)
      BY <1>4, <1>5, <1>8, <3>1 DEF IsMade
    <3>3. Row(l) \in Id
      BY <1>8, <2>1, <3>2 DEF RowsFit, Row
    <3>4. KeyRank(k) >= KeyRank(l)
      <4> SUFFICES ASSUME KeyRank(k) < KeyRank(l) PROVE FALSE
        BY DEF KeyRank
      <4>1. Rank(s[1]) = KeyRank(k)
        BY <1>5 DEF Rank
      <4>2. << "ensure", l >> \in Pending(s)
        BY <1>5, <1>8, <4>1 DEF ListFits, NeededFollow
      <4> QED BY <3>1, <4>2 DEF Soon
    <3>5. l = Resource => k \notin {Reference, Terms}
      BY <3>4, KeyFacts DEF KeyRank
    <3>6. l = Item => k \notin {Resource, Form} /\ k # Workflow(sync.db.want)
      <4>1. Workflow(sync.db.want) \in Key /\ Workflow(sync.db.want)[1] = "workflow"
        BY <1>5, SyncFacts, KeyFacts, Zenon DEF Workflow
      <4> QED BY <3>4, <4>1, KeyFacts DEF KeyRank
    <3>7. Wanted(l)' = Wanted(l)
      <4>1. l = Resource => Row(Reference)' = Row(Reference) /\ Row(Terms)' = Row(Terms)
        BY <2>2, <3>5, KeyFacts DEF Row, Reference, Terms
      <4>2. l = Item => /\ Row(Resource)' = Row(Resource) /\ Row(Form)' = Row(Form)
                        /\ \A x \in {Workflow(sync.db.want)} : Row(x)' = Row(x)
        <5>1. Workflow(sync.db.want) \in Key
          BY <1>5, SyncFacts, KeyFacts, Zenon
        <5> QED BY <2>2, <3>6, <5>1, KeyFacts DEF Row, Resource, Form
      <4> QED BY <1>3, <2>1, <4>1, <4>2, WantedStays
    <3> QED BY <1>3, <2>1, <2>4, <3>2, <3>3, <3>7
  <2> QED BY <2>3, <2>4
<1> QED BY <1>3, <1>5, <1>7, <1>9, <1>10, <1>12, <1>13, SyncFitsNext

\* The list after REMS has archived an entity.
LEMMA HiddenListFits ==
    ASSUME SyncTypeOK, EntitiesFit, NEW s \in Seq(Op), s = sync.todo, s # << >>, ListFits(s),
           RowsFit(sync.db),
           NEW i \in Id, s[1] = << "hide", i >>, sync # None, label' = label, Id' = Id,
           \A j \in Id : /\ rems'[j].type = rems[j].type
                         /\ rems'[j].what = rems[j].what
                         /\ rems'[j].uses = rems[j].uses
                         /\ j # i => rems'[j].state = rems[j].state
                         /\ j = i => rems'[j].state = "archived",
           \A k \in Key : Row(k)' = (IF Row(k) = i THEN 0 ELSE Row(k)),
           sync'.publish = sync.publish, sync'.db.want = sync.db.want,
           sync'.db.custom = sync.db.custom
    PROVE  ListFits(Tail(s))'
<1> DEFINE t == Tail(s)
<1>1. /\ t \in Seq(Op) /\ Pending(s) = {s[1]} \cup Pending(t) /\ Ordered(t) /\ Paired(t)
      /\ DOMAIN t = 1 .. (Len(s) - 1) /\ Len(s) \in Nat /\ DOMAIN s = 1 .. Len(s)
      /\ \A n \in DOMAIN t : t[n] = s[n + 1] /\ n + 1 \in DOMAIN s
  BY TailFacts, ListFacts, FirstIsDone, Zenon
<1>2. s[1][1] = "hide" /\ s[1][2] = i /\ IsEarly(s[1])
  BY DEF IsEarly
<1>3. \A k : Soon(s, k) <=> Soon(t, k)
  BY <1>2, FirstIsDone
<1>4. \A j : Leaving(s, j) /\ j # i => Leaving(t, j)
  <2>1. \A j : j # i => s[1] # << "hide", j >> /\ s[1] # << "archive", j >>
    BY <1>2
  <2> QED BY <1>1, <2>1 DEF Leaving
<1> HIDE DEF t
<1>5. Pending(t)' = Pending(t) /\ Ordered(t)' /\ Paired(t)'
  BY <1>1 DEF Pending, Ordered, Paired
<1>6. \A j \in Id : (IsReference(j)' <=> IsReference(j)) /\ (IsTerms(j)' <=> IsTerms(j))
  BY DEF IsReference, IsTerms
<1>7. Needed(sync.db.want)' = Needed(sync.db.want)
  BY NeededFacts
<1>8. \A op \in Pending(t) : op[1] \in {"archive", "disable", "hide"} => op[2] \in Id
  BY <1>1 DEF ListFits, OpsFit
<1>9. OpsFit(t)'
  <2> SUFFICES ASSUME NEW op \in Pending(t)
               PROVE  /\ op[1] \in {"archive", "disable", "hide"} =>
                            /\ op[2] \in Id'
                            /\ rems'[op[2]].type \in {"license", "resource", "item"}
                            /\ label' = 1 => ~IsReference(op[2])'
                      /\ op[1] = "archive" /\ IsTerms(op[2])' => op[2] \in sync'.db.custom
                      /\ op[1] \in {"ensure", "create", "organization", "licenses"} => sync'.publish
                      /\ op[1] \in {"archiveAll", "closeAll"} => ~sync'.publish
                      /\ op[1] \in {"ensure", "create"} => op[2] \in Needed(sync.db.want)'
    BY <1>5 DEF OpsFit
  <2> QED BY <1>1, <1>6, <1>7, <1>8 DEF ListFits, OpsFit
<1>10. UsersFirst(t)'
  <2> SUFFICES ASSUME NEW n \in DOMAIN t, t[n][1] = "hide", ~IsReference(t[n][2])',
                      NEW j \in Active("resource")' \cup Active("item")',
                      t[n][2] \in rems'[j].uses, rems'[t[n][2]].type \in {"license", "resource"}
               PROVE  \E m \in DOMAIN t : m < n /\ t[m] \in {<< "archive", j >>, << "hide", j >>}
    BY DEF UsersFirst
  <2>1. j \in Id /\ j # i /\ j \in Active("resource") \cup Active("item") /\ t[n][2] \in Id
    BY <1>8 DEF Active, Pending
  <2>2. n \in Nat /\ n + 1 \in DOMAIN s /\ s[n + 1] = t[n]
    BY <1>1
  <2>3. PICK m \in DOMAIN s : m < n + 1 /\ s[m] \in {<< "archive", j >>, << "hide", j >>}
    BY <1>6, <2>1, <2>2 DEF ListFits, UsersFirst
  <2>4. m # 1
    BY <1>2, <2>1, <2>3
  <2>5. m - 1 \in DOMAIN t /\ (m - 1) + 1 = m /\ m - 1 < n
    BY <1>1, <2>2, <2>3, <2>4, SMTT(20)
  <2>6. t[m - 1] = s[m]
    BY <1>1, <2>5, Zenon
  <2> QED BY <2>3, <2>5, <2>6
<1>11. ForgetsNothing(t)'
  <2> SUFFICES ASSUME << "forget", 0 >> \in Pending(t), Row(Terms)' # 0,
                      ~(sync.publish /\ sync.db.want.terms # 0)
               PROVE  Leaving(t, Row(Terms))'
    BY <1>5 DEF ForgetsNothing
  <2>1. Row(Terms)' = Row(Terms) /\ Row(Terms) # i /\ Row(Terms) # 0
    BY KeyFacts DEF Row, Terms
  <2>2. Leaving(s, Row(Terms))
    BY <1>1, <2>1 DEF ListFits, ForgetsNothing
  <2> QED BY <1>4, <1>5, <2>1, <2>2, Zenon DEF Leaving
<1>12. Replaced(t)'
  <2> SUFFICES ASSUME NEW k \in Key, << "create", k >> \in Pending(t), Row(k)' # 0
               PROVE  Leaving(t, Row(k))'
    BY <1>5 DEF Replaced, Key
  <2>1. Row(k)' = Row(k) /\ Row(k) # i /\ Row(k) # 0
    OBVIOUS
  <2>2. Leaving(s, Row(k))
    BY <1>1, <2>1 DEF ListFits, Replaced
  <2> QED BY <1>4, <1>5, <2>1, <2>2, Zenon DEF Leaving
<1>13. NeededFollow(t)'
  <2>1. ASSUME sync.publish, NEW op \in Pending(t), NEW k \in Needed(sync.db.want),
               ~IsEarly(op), Rank(op) < KeyRank(k)
        PROVE  << "ensure", k >> \in Pending(t)
    <3>1. << "ensure", k >> \in Pending(s)
      BY <1>1, <2>1 DEF ListFits, NeededFollow
    <3> QED BY <1>1, <1>2, <3>1
  <2> QED BY <1>5, <1>7, <2>1 DEF NeededFollow
<1>14. ComesAgain(t)'
  <2> SUFFICES ASSUME sync.publish, NEW j \in Id, Leaving(t, j)' PROVE Again(t, j)'
    BY DEF ComesAgain
  <2>1. Leaving(s, j)
    BY <1>1, <1>5 DEF Leaving
  <2>2. Again(s, j)
    BY <2>1 DEF ListFits, ComesAgain
  <2>3. << "ensure", Resource >> \in Pending(s) => << "ensure", Resource >> \in Pending(t)
    BY <1>1, <1>2
  <2>4. \A k : Soon(t, k)' <=> Soon(t, k)
    BY <1>5 DEF Soon
  <2>5. /\ j = Row(Terms)' => j = Row(Terms)
        /\ j = Row(Reference)' => j = Row(Reference)
    <3>1. j # 0
      BY RemsFacts
    <3> QED BY <3>1, KeyFacts DEF Row, Terms, Reference
  <2> QED BY <1>3, <1>5, <2>2, <2>3, <2>4, <2>5 DEF Again, Terms, Reference, Resource, Item
<1> QED BY <1>5, <1>9, <1>10, <1>11, <1>12, <1>13, <1>14 DEF ListFits, t

\* What is still needed has not gone.
LEMMA NeededStays ==
    ASSUME SyncTypeOK, sync # None, SyncFits, sync.publish, NEW i \in Id, Leaving(sync.todo, i),
           NEW k \in Needed(sync.db.want), Row(k) = i,
             rems[i].type \in {"license", "resource", "item"}
    PROVE  /\ Soon(sync.todo, k)
           /\ k \in {Terms, Reference} => Soon(sync.todo, Resource)
           /\ k = Resource => Soon(sync.todo, Item)
<1>1. RowsFit(sync.db) /\ Again(sync.todo, i) /\ NeededFollow(sync.todo)
  BY DEF SyncFits, ListFits, ComesAgain
<1>2. k \in Key /\ i # 0
  BY RemsFacts, NeededFacts
<1>3. IsFor(i, k)
  BY <1>1, <1>2 DEF RowsFit, Row
<1>4. CASE k = Terms
  <2>1. rems[i].type = "license"
    BY <1>3, <1>4, KeyFacts DEF IsFor, IsTerms
  <2>2. sync.db.want.terms # 0
    <3>1. sync.db.want \in Want
      BY SyncFacts
    <3>2. \A l \in {Workflow(sync.db.want)} : l[1] = "workflow"
      BY DEF Workflow
    <3> QED BY <1>4, <3>2, KeyFacts DEF Needed
  <2> QED BY <1>1, <1>4, <2>1, <2>2, KeyFacts DEF Again, Soon
<1>5. CASE k = Reference
  <2>1. rems[i].type = "license"
    BY <1>3, <1>5, KeyFacts DEF IsFor, IsReference
  <2> QED BY <1>1, <1>5, <2>1, KeyFacts DEF Again, Soon
<1>6. CASE k = Resource
  <2>1. Soon(sync.todo, Resource)
    BY <1>1, <1>3, <1>6, KeyFacts DEF IsFor, Again
  <2>2. PICK op \in Pending(sync.todo) : op \in {<< "ensure", Resource >>, << "create", Resource >>}
    BY <2>1 DEF Soon
  <2>3. ~IsEarly(op) /\ Rank(op) < KeyRank(Item)
    BY <2>2, KeyFacts DEF IsEarly, Rank, KeyRank
  <2>4. << "ensure", Item >> \in Pending(sync.todo)
    BY <1>1, <2>3 DEF NeededFollow, Needed
  <2> QED BY <1>6, <2>1, <2>4, KeyFacts DEF Soon
<1>7. CASE k = Item
  BY <1>1, <1>3, <1>7, KeyFacts DEF IsFor, Again
<1>8. CASE k \notin {Terms, Reference, Resource, Item}
  BY <1>2, <1>3, <1>8 DEF IsFor
<1> QED BY <1>4, <1>5, <1>6, <1>7, <1>8

LEMMA HideFits ==
    ASSUME SyncTypeOK, EntitiesFit, SyncFits, Hides
    PROVE  SyncFits'
<1>1. PICK s : s = sync.todo
  OBVIOUS
<1>2. /\ sync # None /\ s \in Seq(Op) /\ s # << >> /\ s[1] = << "hide", Arg >> /\ Doing("hide")
      /\ s[1] \in Pending(s) /\ label' = label
  BY <1>1, ArgFacts, TailFacts DEF Hides, Hide
<1>3. ListFits(s) /\ RowsFit(sync.db) /\ IsMade /\ ~sync.db.error
  BY <1>1, <1>2 DEF SyncFits
<1>4. PICK i \in Id : i = Arg /\ rems[i].type \in {"license", "resource", "item"}
  <2>1. s[1][1] = "hide" /\ s[1][2] = Arg
    BY <1>2
  <2> QED BY <1>2, <1>3, <2>1 DEF ListFits, OpsFit
<1>5. PICK t \in Seq(Op) : t = Tail(s)
  BY <1>2, TailFacts, Zenon
<1>6. /\ sync'.todo = t
      /\ sync'.db.row = [k \in Key |-> IF sync.db.row[k] = i THEN 0 ELSE sync.db.row[k]]
      /\ sync'.db.custom = sync.db.custom /\ sync'.db.want = sync.db.want
           /\ sync'.db.error = sync.db.error
      /\ sync'.publish = sync.publish /\ Id' = Id
      /\ \A j \in Id : /\ rems'[j].type = rems[j].type
                       /\ rems'[j].what = rems[j].what
                       /\ rems'[j].uses = rems[j].uses
                       /\ j # i => rems'[j].state = rems[j].state
                       /\ j = i => rems'[j].state = "archived"
  BY <1>1, <1>4, <1>5, HideFacts
<1>7. \A k \in Key : Row(k)' = (IF Row(k) = i THEN 0 ELSE Row(k))
  BY <1>6 DEF Row
<1>8. ListFits(t)'
  <2>1. s[1] = << "hide", i >>
    BY <1>2, <1>4
  <2>2. ListFits(Tail(s))'
    BY <1>1, <1>2, <1>3, <1>6, <1>7, <2>1, HiddenListFits
  <2> QED BY <1>5, <2>2
<1>9. PICK c, d : c = sync.db /\ d = sync'.db
  OBVIOUS
<1>10. RowsFit(d)'
  <2>1. RowsFit(c)'
    <3>1. RowsFit(c)
      BY <1>3, <1>9
    <3> QED BY <1>6, <3>1, RowsStay
  <2>2. d.custom = c.custom /\ \A k \in Key : d.row[k] = 0 \/ d.row[k] = c.row[k]
    BY <1>6, <1>9
  <2> QED BY <2>1, <2>2, KeyFacts, Zenon DEF RowsFit, Key, Terms
<1>11. ASSUME sync.publish, NEW k \in Needed(sync.db.want), Row(k) = i
       PROVE  /\ Soon(s, k)
              /\ k \in {Terms, Reference} => Soon(s, Resource)
              /\ k = Resource => Soon(s, Item)
  <2>1. Leaving(s, i)
    BY <1>2, <1>4 DEF Leaving
  <2> QED BY <1>1, <1>2, <1>4, <1>11, <2>1, NeededStays
<1>12. \A k : Soon(s, k) <=> Soon(t, k)
  <2>1. s[1][1] = "hide"
    BY <1>2
  <2> QED BY <1>2, <1>3, <1>5, <2>1, FirstIsDone, Zenon
<1>13. IsMade'
  <2> SUFFICES ASSUME sync.publish, NEW k \in Needed(sync.db.want), ~Soon(t, k)
               PROVE  /\ Row(k)' # 0
                      /\ rems'[Row(k)'].uses = Wanted(k)'.uses
                      /\ k # Reference => rems'[Row(k)'].what = Wanted(k)'.what
    <3>1. Needed(sync.db.want)' = Needed(sync.db.want)
      BY <1>2, <1>6, NeededFacts
    <3>2. \A x : Soon(sync.todo, x)' <=> Soon(t, x)
      BY <1>6 DEF Soon, Pending
    <3> QED BY <1>6, <3>1, <3>2 DEF IsMade, Row, Reference
  <2>1. k \in Key /\ Row(k) # i /\ ~Soon(sync.todo, k)
    BY <1>1, <1>2, <1>11, <1>12, NeededFacts
  <2>2. Row(k) # 0 /\ rems[Row(k)].uses = Wanted(k).uses
        /\ (k # Reference => rems[Row(k)].what = Wanted(k).what)
    BY <1>3, <2>1 DEF IsMade
  <2>3. Row(k) \in Id /\ Row(k)' = Row(k)
    BY <1>3, <1>7, <2>1, <2>2 DEF RowsFit, Row
  <2>4. \A l \in Needed(sync.db.want) : l \in Key /\ (Row(l) # i => Row(l)' = Row(l))
    BY <1>2, <1>7, NeededFacts
  <2>5. k = Resource => /\ Row(Reference)' = Row(Reference)
                        /\ sync.db.want.terms # 0 => Row(Terms)' = Row(Terms)
    <3> SUFFICES ASSUME k = Resource
                 PROVE  /\ Row(Reference)' = Row(Reference)
                        /\ sync.db.want.terms # 0 => Row(Terms)' = Row(Terms)
      OBVIOUS
    <3>1. \A l \in Needed(sync.db.want) \cap {Terms, Reference} : Row(l)' = Row(l)
      BY <1>11, <1>12, <2>4
    <3>2. Reference \in Needed(sync.db.want)
          /\ (sync.db.want.terms # 0 => Terms \in Needed(sync.db.want))
      BY DEF Needed
    <3> QED BY <3>1, <3>2 DEF Row, Reference, Terms
  <2>6. k = Item => /\ Row(Resource)' = Row(Resource)
                    /\ \A l \in {Workflow(sync.db.want)} : Row(l)' = Row(l)
                    /\ sync.db.want.manual => Row(Form)' = Row(Form)
    <3> SUFFICES ASSUME k = Item
                 PROVE  /\ Row(Resource)' = Row(Resource)
                        /\ \A l \in {Workflow(sync.db.want)} : Row(l)' = Row(l)
                        /\ sync.db.want.manual => Row(Form)' = Row(Form)
      OBVIOUS
    <3>1. \A l \in Needed(sync.db.want) \cap {Resource} : Row(l)' = Row(l)
      BY <1>11, <1>12, <2>4
    <3>2. \A l \in Needed(sync.db.want) \ {Terms, Reference, Resource, Item} : Row(l)' = Row(l)
      <4> SUFFICES ASSUME NEW l \in Needed(sync.db.want) \ {Terms, Reference, Resource, Item},
                          Row(l) = i
                   PROVE  FALSE
        BY <2>4
      <4>1. IsFor(i, l)
        BY <1>3, <2>4, RemsFacts DEF RowsFit, Row
      <4> QED BY <1>4, <4>1 DEF IsFor
    <3>3. /\ Resource \in Needed(sync.db.want) /\ Workflow(sync.db.want) \in Needed(sync.db.want)
          /\ sync.db.want.manual => Form \in Needed(sync.db.want)
      BY DEF Needed
    <3>4. Workflow(sync.db.want)[1] = "workflow"
      BY DEF Workflow
    <3> QED BY <3>1, <3>2, <3>3, <3>4, KeyFacts DEF Row, Resource, Form
  <2>7. Wanted(k)' = Wanted(k)
    BY <1>2, <1>6, <2>1, <2>5, <2>6, WantedStays
  <2> QED BY <1>6, <2>2, <2>3, <2>7
<1> QED BY <1>3, <1>6, <1>8, <1>9, <1>10, <1>13, SyncFitsNext

-----------------------------------------------------------------------------
(* The start of a sync. *)

LEMMA KeyOps ==
    ASSUME NEW w \in Want
    PROVE  /\ << "ensure", Workflow(w) >> \in Op /\ Rank(<< "ensure", Workflow(w) >>) = 1
           /\ << "organization", 0 >> \in Op /\ Rank(<< "organization", 0 >>) = 2
           /\ << "ensure", Terms >> \in Op /\ Rank(<< "ensure", Terms >>) = 3
           /\ << "ensure", Reference >> \in Op /\ Rank(<< "ensure", Reference >>) = 4
           /\ << "licenses", 0 >> \in Op /\ Rank(<< "licenses", 0 >>) = 5
           /\ << "unused", 0 >> \in Op /\ Rank(<< "unused", 0 >>) = 6
           /\ << "ensure", Resource >> \in Op /\ Rank(<< "ensure", Resource >>) = 7
           /\ << "ensure", Form >> \in Op /\ Rank(<< "ensure", Form >>) = 8
           /\ << "ensure", Item >> \in Op /\ Rank(<< "ensure", Item >>) = 9
           /\ << "closeAll", 0 >> \in Op /\ Rank(<< "closeAll", 0 >>) = 1
           /\ << "archiveAll", "item" >> \in Op /\ Rank(<< "archiveAll", "item" >>) = 2
           /\ << "archiveAll", "resource" >> \in Op /\ Rank(<< "archiveAll", "resource" >>) = 3
<1>1. Workflow(w) \in Key /\ Workflow(w)[1] = "workflow"
      /\ {Terms, Reference, Resource, Form, Item} \subseteq Key
  BY KeyFacts DEF Workflow
<1>2. Workflow(w) \notin {Terms, Reference, Resource, Form, Item}
  BY <1>1, KeyFacts
<1>3. KeyRank(Workflow(w)) = 1
  BY <1>2 DEF KeyRank
<1>4. KeyRank(Terms) = 3 /\ KeyRank(Reference) = 4 /\ KeyRank(Resource) = 7
      /\ KeyRank(Form) = 8 /\ KeyRank(Item) = 9
  BY KeyFacts DEF KeyRank
<1>5. /\ << "ensure", Workflow(w) >> \in Op /\ << "ensure", Terms >> \in Op
           /\ << "ensure", Reference >> \in Op
      /\ << "ensure", Resource >> \in Op /\ << "ensure", Form >> \in Op
           /\ << "ensure", Item >> \in Op
  BY <1>1 DEF Op
<1>6. /\ << "organization", 0 >> \in Op /\ << "licenses", 0 >> \in Op /\ << "unused", 0 >> \in Op
      /\ << "closeAll", 0 >> \in Op /\ << "archiveAll", "item" >> \in Op
           /\ << "archiveAll", "resource" >> \in Op
  BY DEF Op
<1>7. \A k : Rank(<< "ensure", k >>) = KeyRank(k)
  BY DEF Rank
<1>8. /\ Rank(<< "organization", 0 >>) = 2 /\ Rank(<< "licenses", 0 >>) = 5
           /\ Rank(<< "unused", 0 >>) = 6
      /\ Rank(<< "closeAll", 0 >>) = 1
  BY DEF Rank
<1>9. Rank(<< "archiveAll", "item" >>) = 2 /\ Rank(<< "archiveAll", "resource" >>) = 3
  BY DEF Rank
<1> QED BY <1>3, <1>4, <1>5, <1>6, <1>7, <1>8, <1>9

\* What is on the list at first.
FirstOps(w, publish) ==
    IF publish
    THEN {<< "ensure", k >> : k \in Needed(w)}
         \cup {<< "organization", 0 >>, << "licenses", 0 >>, << "unused", 0 >>}
    ELSE {<< "closeAll", 0 >>, << "archiveAll", "item" >>, << "archiveAll", "resource" >>,
      << "unused", 0 >>}

LEMMA TodoFacts ==
    ASSUME NEW w \in Want, NEW publish \in BOOLEAN
    PROVE  /\ Todo(w, publish) \in Seq(Op)
           /\ Pending(Todo(w, publish)) = FirstOps(w, publish)
           /\ Ordered(Todo(w, publish))
<1>1. \A x : x[1] \in {"ensure", "organization", "licenses", "unused", "closeAll",
      "archiveAll"} => IsFixed(x)
  BY DEF IsFixed, IsEarly
<1>4. /\ IsFixed(<< "ensure", Workflow(w) >>) /\ IsFixed(<< "ensure", Terms >>)
           /\ IsFixed(<< "ensure", Reference >>)
      /\ IsFixed(<< "ensure", Resource >>) /\ IsFixed(<< "ensure", Form >>)
           /\ IsFixed(<< "ensure", Item >>)
      /\ IsFixed(<< "organization", 0 >>) /\ IsFixed(<< "licenses", 0 >>)
           /\ IsFixed(<< "unused", 0 >>)
  BY DEF IsFixed, IsEarly
<1>5. /\ Rank(<< "ensure", Workflow(w) >>) = 1 /\ Rank(<< "organization", 0 >>) = 2
      /\ Rank(<< "ensure", Terms >>) = 3 /\ Rank(<< "ensure", Reference >>) = 4
      /\ Rank(<< "licenses", 0 >>) = 5 /\ Rank(<< "unused", 0 >>) = 6
      /\ Rank(<< "ensure", Resource >>) = 7 /\ Rank(<< "ensure", Form >>) = 8
           /\ Rank(<< "ensure", Item >>) = 9
  BY KeyOps, Zenon
<1>2. CASE publish
  <2>1. PICK a, b, c, d, e :
           /\ a = << << "ensure", Workflow(w) >>, << "organization", 0 >> >>
           /\ b = (IF w.terms = 0 THEN << >> ELSE << << "ensure", Terms >> >>)
           /\ c = << << "ensure", Reference >>, << "licenses", 0 >>, << "unused", 0 >>,
                << "ensure", Resource >> >>
           /\ d = (IF w.manual THEN << << "ensure", Form >> >> ELSE << >>)
           /\ e = << << "ensure", Item >> >>
    BY Zenon
  <2>2. << >> \in Seq(Op) /\ Pending(<< >>) = {} /\ Ordered(<< >>)
    BY DEF Pending, Ordered
  <2>3. /\ a \in Seq(Op) /\ Pending(a) = {<< "ensure", Workflow(w) >>, << "organization", 0 >>}
             /\ Ordered(a)
    <3>1. Follows(<< "ensure", Workflow(w) >>, << "organization", 0 >>)
      BY <1>1, KeyOps DEF Follows
    <3> QED BY <2>1, <3>1, KeyOps, TwoFacts, Zenon
  <2>4. /\ b \in Seq(Op)
             /\ Pending(b) = {<< "ensure", k >> : k \in {x \in {Terms} : w.terms # 0}} /\ Ordered(b)
    <3>1. CASE w.terms = 0
      BY <2>1, <2>2, <3>1
    <3>2. CASE w.terms # 0
      BY <2>1, <3>2, KeyOps, OneFacts, Zenon
    <3> QED BY <3>1, <3>2
  <2>5. /\ c \in Seq(Op) /\ Ordered(c)
        /\ Pending(c) = {<< "ensure", Reference >>, << "licenses", 0 >>, << "unused", 0 >>,
             << "ensure", Resource >>}
    <3>1. PICK x \in Op, y \in Op, z \in Op, u \in Op :
             x = << "ensure", Reference >> /\ y = << "licenses", 0 >> /\ z = << "unused", 0 >>
               /\ u = << "ensure", Resource >>
      BY KeyOps, Zenon
    <3>2. Rank(x) = 4 /\ Rank(y) = 5 /\ Rank(z) = 6 /\ Rank(u) = 7
      BY <3>1, KeyOps, Zenon
    <3>3. IsFixed(x) /\ IsFixed(y) /\ IsFixed(z) /\ IsFixed(u)
      BY <1>1, <3>1
    <3>4. Follows(x, y) /\ Follows(x, z) /\ Follows(x, u) /\ Follows(y, z) /\ Follows(y, u)
          /\ Follows(z, u)
      BY <3>2, <3>3 DEF Follows
    <3>5. c = << x, y, z, u >>
      BY <2>1, <3>1
    <3>6. DOMAIN c = 1 .. 4 /\ c[1] = x /\ c[2] = y /\ c[3] = z /\ c[4] = u /\ c \in Seq(Op)
      BY <3>5
    <3>7. \A n \in DOMAIN c : n = 1 \/ n = 2 \/ n = 3 \/ n = 4
      BY <3>6
    <3>8. Ordered(c)
      BY <3>4, <3>6, <3>7 DEF Ordered
    <3>9. Pending(c) = {x, y, z, u}
      BY <3>6, <3>7 DEF Pending
    <3> QED BY <3>1, <3>6, <3>8, <3>9
  <2>6. /\ d \in Seq(Op) /\ Pending(d) = {<< "ensure", k >> : k \in {x \in {Form} : w.manual}}
             /\ Ordered(d)
    <3>1. CASE ~w.manual
      BY <2>1, <2>2, <3>1
    <3>2. CASE w.manual
      BY <2>1, <3>2, KeyOps, OneFacts
    <3> QED BY <3>1, <3>2
  <2>7. /\ e \in Seq(Op) /\ Pending(e) = {<< "ensure", Item >>} /\ Ordered(e)
    BY <2>1, KeyOps, OneFacts, Zenon
  <2>8. /\ \A x \in Pending(a) : IsFixed(x) /\ Rank(x) \in {1, 2}
        /\ \A x \in Pending(b) : IsFixed(x) /\ Rank(x) \in {3}
        /\ \A x \in Pending(c) : IsFixed(x) /\ Rank(x) \in {4, 5, 6, 7}
        /\ \A x \in Pending(d) : IsFixed(x) /\ Rank(x) \in {8}
        /\ \A x \in Pending(e) : IsFixed(x) /\ Rank(x) \in {9}
    <3>1. \A x \in Pending(a) : IsFixed(x) /\ Rank(x) \in {1, 2}
      BY <1>4, <1>5, <2>3, Zenon
    <3>2. \A x \in Pending(b) : IsFixed(x) /\ Rank(x) \in {3}
      <4>1. \A x \in Pending(b) : x = << "ensure", Terms >>
        BY <2>4
      <4> QED BY <1>4, <1>5, <4>1
    <3>3. \A x \in Pending(c) : IsFixed(x) /\ Rank(x) \in {4, 5, 6, 7}
      BY <1>4, <1>5, <2>5, Zenon
    <3>4. \A x \in Pending(d) : IsFixed(x) /\ Rank(x) \in {8}
      <4>1. \A x \in Pending(d) : x = << "ensure", Form >>
        BY <2>6
      <4> QED BY <1>4, <1>5, <4>1
    <3>5. \A x \in Pending(e) : IsFixed(x) /\ Rank(x) \in {9}
      BY <1>4, <1>5, <2>7, Zenon
    <3> QED BY <3>1, <3>2, <3>3, <3>4, <3>5
  <2>9. PICK ab : ab = a \o b
    BY Zenon
  <2>10. ab \in Seq(Op) /\ Pending(ab) = Pending(a) \cup Pending(b) /\ Ordered(ab)
    <3>1. \A x \in Pending(a), y \in Pending(b) : Follows(x, y)
      BY <2>8 DEF Follows
    <3> QED BY <2>3, <2>4, <2>9, <3>1, ConcatFacts, OrderedConcat, Zenon
  <2>11. PICK abc : abc = ab \o c
    BY Zenon
  <2>12. abc \in Seq(Op) /\ Pending(abc) = Pending(ab) \cup Pending(c) /\ Ordered(abc)
    <3>1. \A x \in Pending(ab), y \in Pending(c) : Follows(x, y)
      BY <2>8, <2>10 DEF Follows
    <3> QED BY <2>5, <2>10, <2>11, <3>1, ConcatFacts, OrderedConcat, Zenon
  <2>13. PICK abcd : abcd = abc \o d
    BY Zenon
  <2>14. abcd \in Seq(Op) /\ Pending(abcd) = Pending(abc) \cup Pending(d) /\ Ordered(abcd)
    <3>1. \A x \in Pending(abc), y \in Pending(d) : Follows(x, y)
      BY <2>8, <2>10, <2>12 DEF Follows
    <3> QED BY <2>6, <2>12, <2>13, <3>1, ConcatFacts, OrderedConcat, Zenon
  <2>15. PICK all : all = abcd \o e
    BY Zenon
  <2>16. all \in Seq(Op) /\ Pending(all) = Pending(abcd) \cup Pending(e) /\ Ordered(all)
    <3>1. \A x \in Pending(abcd), y \in Pending(e) : Follows(x, y)
      BY <2>8, <2>10, <2>12, <2>14, SMTT(20) DEF Follows
    <3> QED BY <2>7, <2>14, <2>15, <3>1, ConcatFacts, OrderedConcat, Zenon
  <2>17. Todo(w, publish) = all
    BY <1>2, <2>1, <2>9, <2>11, <2>13, <2>15, Zenon DEF Todo
  <2>18. Pending(all) = FirstOps(w, publish)
    <3>1. Pending(all) = Pending(a) \cup Pending(b) \cup Pending(c) \cup Pending(d) \cup Pending(e)
      BY <2>10, <2>12, <2>14, <2>16
    <3>2. Needed(w) = {Workflow(w), Reference, Resource, Item} \cup {k \in {Terms} : w.terms # 0}
                      \cup {k \in {Form} : w.manual}
      BY DEF Needed
    <3>3. FirstOps(w, publish) = {<< "ensure", k >> : k \in Needed(w)}
         \cup {<< "organization", 0 >>, << "licenses", 0 >>, << "unused", 0 >>}
      BY <1>2 DEF FirstOps
    <3>4. ASSUME NEW x \in Pending(all) PROVE x \in FirstOps(w, publish)
      BY <2>3, <2>4, <2>5, <2>6, <2>7, <3>1, <3>2, <3>3
    <3>5. ASSUME NEW k \in Needed(w) PROVE << "ensure", k >> \in Pending(all)
      BY <2>3, <2>4, <2>5, <2>6, <2>7, <3>1, <3>2
    <3>6. \A x \in FirstOps(w, publish) : x \in Pending(all)
      BY <2>3, <2>5, <3>1, <3>3, <3>5
    <3> QED BY <3>4, <3>6
  <2> QED BY <2>16, <2>17, <2>18
<1>3. CASE ~publish
  <2>1. PICK x \in Op, y \in Op, z \in Op, u \in Op :
           x = << "closeAll", 0 >> /\ y = << "archiveAll", "item" >>
             /\ z = << "archiveAll", "resource" >> /\ u = << "unused", 0 >>
    BY KeyOps, Zenon
  <2>2. Rank(x) = 1 /\ Rank(y) = 2 /\ Rank(z) = 3 /\ Rank(u) = 6
    BY <2>1, KeyOps, Zenon
  <2>3. IsFixed(x) /\ IsFixed(y) /\ IsFixed(z) /\ IsFixed(u)
    BY <1>1, <2>1
  <2>4. Follows(x, y) /\ Follows(x, z) /\ Follows(x, u) /\ Follows(y, z) /\ Follows(y, u)
        /\ Follows(z, u)
    BY <2>2, <2>3 DEF Follows
  <2>5. PICK c : c = << x, y, z, u >>
    BY Zenon
  <2>6. DOMAIN c = 1 .. 4 /\ c[1] = x /\ c[2] = y /\ c[3] = z /\ c[4] = u /\ c \in Seq(Op)
    BY <2>5
  <2>7. \A n \in DOMAIN c : n = 1 \/ n = 2 \/ n = 3 \/ n = 4
    BY <2>6
  <2>8. Ordered(c)
    BY <2>4, <2>6, <2>7 DEF Ordered
  <2>9. Pending(c) = {x, y, z, u}
    BY <2>6, <2>7 DEF Pending
  <2>10. Todo(w, publish) = c
    BY <1>3, <2>1, <2>5 DEF Todo
  <2> QED BY <1>3, <2>1, <2>6, <2>8, <2>9, <2>10 DEF FirstOps
<1> QED BY <1>2, <1>3

\* The steps of a sync that start it, for what it would have in REMS. What the dataset
\* object says is so, unless it is from the list of the command.
Starts(w, publish) ==
    /\ sync = None
    /\ \E have \in Hand, says \in Want :
          /\ Start(have, says)
          /\ publish = have.publish
          /\ w = [says EXCEPT !.org = have.org]
          /\ have.resource \in Id \cup {0}
          /\ "stale" \notin Kinds => have = InHand(says)
    /\ UNCHANGED << db, rems, label, apps, failures, crashes >>

OldLicenses == LicensesOf(db.row[Resource])

LEMMA HandFacts ==
    ASSUME SyncTypeOK, RowsFit(db), NEW w \in Want
    PROVE  /\ InHand(w) \in Hand
           /\ InHand(w).publish = IsRems(w) /\ InHand(w).org = w.org
           /\ InHand(w).error = db.error /\ InHand(w).resource = db.row[Resource]
           /\ InHand(w).resource \in Id \cup {0}
           /\ [w EXCEPT !.org = w.org] = w
<1>1. db \in DB /\ Resource \in Key
  BY KeyFacts DEF SyncTypeOK
<1>2. IsRems(w) \in BOOLEAN /\ w.org \in Org /\ db.error \in BOOLEAN /\ db.row[Resource] \in Nat
  BY <1>1 DEF IsRems, Want, DB
<1>3. db.row[Resource] \in Id \cup {0}
  BY <1>1 DEF RowsFit
<1>4. [w EXCEPT !.org = w.org] = w
  BY DEF Want
<1> QED BY <1>2, <1>3, <1>4 DEF InHand, Hand

LEMMA StartFacts ==
    ASSUME SyncTypeOK, EntitiesFit, RowsFit(db), NEW w \in Want, NEW publish \in BOOLEAN,
           Starts(w, publish)
    PROVE  /\ sync' \in Sync /\ sync' # None
           /\ sync'.publish = publish
           /\ sync'.todo = Todo(w, publish) \/ (~publish /\ sync'.todo = << >>)
           /\ sync'.db.want = w /\ sync'.db.row = db.row /\ sync'.db.custom = db.custom
           /\ sync'.db.error => sync'.todo = << >>
           /\ sync'.org = OldOrg
           /\ "stale" \notin Kinds =>
                 /\ publish = IsRems(w)
                 /\ sync'.todo = IF ~publish /\ db.row[Resource] = 0
                                 THEN << >> ELSE Todo(w, publish)
                 /\ sync'.db.error = (db.error /\ ~publish /\ db.row[Resource] = 0)
                 /\ sync'.licenses = OldLicenses
                 /\ sync'.kept = [want |-> w, error |-> FALSE]
<1>0. PICK have \in Hand, says \in Want :
          /\ Start(have, says)
          /\ publish = have.publish
          /\ w = [says EXCEPT !.org = have.org]
          /\ have.resource \in Id \cup {0}
          /\ "stale" \notin Kinds => have = InHand(says)
  BY DEF Starts
<1> DEFINE nothing == ~publish /\ have.resource = 0
           d == [db EXCEPT !.want = w, !.error = @ /\ nothing]
           t == IF nothing THEN << >> ELSE Todo(w, publish)
           l == LicensesOf(have.resource)
           k == [want |-> says, error |-> db.error /\ ~have.error]
<1>1. db \in DB /\ Resource \in Key /\ Item \in Key
  BY KeyFacts DEF SyncTypeOK
<1>2. d \in DB /\ d.want = w /\ d.row = db.row /\ d.custom = db.custom
      /\ d.error = (db.error /\ nothing)
  BY <1>1, Zenon DEF DB
<1>3. t \in Seq(Op)
  BY TodoFacts
<1>4. l \subseteq Nat
  BY <1>0, RemsFacts DEF LicensesOf, EntitiesFit
<1>5. OldOrg \in Org \cup {None}
  <2>1. CASE db.row[Item] = 0
    BY <2>1 DEF OldOrg
  <2>2. CASE db.row[Item] # 0
    <3>1. PICK j \in Id : j = db.row[Item] /\ rems[j].type = "item"
      BY <1>1, <2>2, KeyFacts DEF RowsFit, IsFor
    <3>2. \E i \in rems[j].uses : rems[i].type = "workflow"
      BY <3>1 DEF EntitiesFit, HasOne
    <3>3. PICK i : i = CHOOSE x \in rems[j].uses : rems[x].type = "workflow"
      OBVIOUS
    <3>4. i \in Id /\ rems[i].type = "workflow"
      BY <3>1, <3>2, <3>3 DEF EntitiesFit
    <3>5. rems[i] \in Entity
      BY <3>4, RemsFacts
    <3>6. rems[i].what \in BOOLEAN \X Org
      BY <3>4, <3>5 DEF Entity, Made
    <3> QED BY <2>2, <3>1, <3>3, <3>6 DEF OldOrg
  <2> QED BY <2>1, <2>2
<1>6. k \in Kept
  <2>1. (db.error /\ ~have.error) \in BOOLEAN
    OBVIOUS
  <2> QED BY <2>1, Zenon DEF Kept
<1>7. sync' = [publish |-> publish, todo |-> t, db |-> d, org |-> OldOrg, licenses |-> l, kept |-> k]
  BY <1>0 DEF Start
<1> HIDE DEF d, t, l, k
<1>8. sync' \in Sync
  BY <1>2, <1>3, <1>4, <1>5, <1>6, <1>7 DEF Sync
<1>9. /\ sync'.publish = publish /\ sync'.todo = t /\ sync'.db = d
      /\ sync'.org = OldOrg /\ sync'.licenses = l /\ sync'.kept = k
  BY <1>7
<1>10. ASSUME "stale" \notin Kinds
       PROVE  /\ have.resource = db.row[Resource] /\ w = says
              /\ publish = IsRems(w) /\ have.error = db.error
  <2>1. have = InHand(says)
    BY <1>0, <1>10
  <2>2. /\ have.publish = IsRems(says) /\ have.org = says.org
        /\ have.error = db.error /\ have.resource = db.row[Resource]
        /\ [says EXCEPT !.org = says.org] = says
    BY <2>1, HandFacts, Zenon
  <2> QED BY <1>0, <2>2
<1>11. /\ t = Todo(w, publish) \/ (~publish /\ t = << >>)
       /\ d.error => t = << >>
  BY <1>2 DEF t
<1>12. ASSUME "stale" \notin Kinds
       PROVE  /\ publish = IsRems(w)
              /\ t = IF ~publish /\ db.row[Resource] = 0 THEN << >> ELSE Todo(w, publish)
              /\ d.error = (db.error /\ ~publish /\ db.row[Resource] = 0)
              /\ l = OldLicenses
              /\ k = [want |-> w, error |-> FALSE]
  <2>1. (db.error /\ ~db.error) = FALSE
    OBVIOUS
  <2>2. k = [want |-> w, error |-> FALSE]
    BY <1>10, <1>12, <2>1 DEF k
  <2> QED BY <1>2, <1>10, <1>12, <2>2 DEF t, l, OldLicenses
<1> QED BY <1>2, <1>8, <1>9, <1>11, <1>12, NoneFacts

LEMMA StartFits ==
    ASSUME SyncTypeOK, EntitiesFit, RowsFit(db), NEW w \in Want, NEW publish \in BOOLEAN,
           Starts(w, publish)
    PROVE  SyncFits'
<1>1. /\ sync' # None /\ sync'.publish = publish
      /\ sync'.todo = Todo(w, publish) \/ (~publish /\ sync'.todo = << >>)
      /\ sync'.db.want = w /\ sync'.db.row = db.row /\ sync'.db.custom = db.custom
      /\ sync'.db.error => sync'.todo = << >>
      /\ rems' = rems /\ label' = label
  BY StartFacts DEF Starts
<1>2. PICK t : t = sync'.todo
  OBVIOUS
<1>3. /\ t \in Seq(Op) /\ Ordered(t)
      /\ Pending(t) \subseteq FirstOps(w, publish)
      /\ publish => Pending(t) = FirstOps(w, publish)
  <2>1. << >> \in Seq(Op) /\ Ordered(<< >>) /\ Pending(<< >>) = {}
    BY DEF Ordered, Pending
  <2> QED BY <1>1, <1>2, <2>1, TodoFacts
<1>4. /\ \A x \in Pending(t) : x[1] \in {"ensure", "organization", "licenses", "unused",
           "closeAll", "archiveAll"}
      /\ \A x \in Pending(t) : x[1] \in {"ensure", "organization", "licenses"} => publish
      /\ \A x \in Pending(t) : x[1] \in {"closeAll", "archiveAll"} => ~publish
      /\ \A x \in Pending(t) : x[1] = "ensure" => x[2] \in Needed(w)
  BY <1>3 DEF FirstOps
<1>5. Pending(t)' = Pending(t) /\ Ordered(t)'
  BY <1>3 DEF Pending, Ordered
<1>6. Paired(t)'
  BY <1>4 DEF Paired, Pending
<1>7. Needed(sync.db.want)' = Needed(w)
  BY <1>1 DEF Needed, Terms, Reference, Resource, Form, Item, Workflow
<1>8. OpsFit(t)'
  BY <1>1, <1>4, <1>5, <1>7 DEF OpsFit
<1>9. UsersFirst(t)'
  BY <1>4 DEF UsersFirst, Pending
<1>10. << "forget", 0 >> \notin Pending(t) /\ \A k : << "create", k >> \notin Pending(t)
  <2>1. << "forget", 0 >>[1] = "forget" /\ \A k : << "create", k >>[1] = "create"
    OBVIOUS
  <2> QED BY <1>4, <2>1
<1>11. ForgetsNothing(t)' /\ Replaced(t)'
  BY <1>5, <1>10 DEF ForgetsNothing, Replaced
<1>12. publish => \A k \in Needed(w) : << "ensure", k >> \in Pending(t)
  BY <1>3 DEF FirstOps
<1>13. NeededFollow(t)'
  BY <1>1, <1>5, <1>7, <1>12 DEF NeededFollow
<1>14. ComesAgain(t)'
  <2>1. \A i : << "archive", i >>[1] = "archive" /\ << "hide", i >>[1] = "hide"
    OBVIOUS
  <2>2. \A i : ~Leaving(t, i)'
    BY <1>4, <1>5, <2>1 DEF Leaving
  <2> QED BY <2>2 DEF ComesAgain
<1>15. ListFits(t)'
  BY <1>5, <1>6, <1>8, <1>9, <1>11, <1>13, <1>14 DEF ListFits
<1>16. IsMade'
  <2>1. publish => \A k \in Needed(w) : Soon(t, k)'
    BY <1>5, <1>12, Zenon DEF Soon
  <2>2. \A k : Soon(sync.todo, k)' <=> Soon(t, k)'
    BY <1>2 DEF Soon, Pending
  <2> QED BY <1>1, <1>7, <2>1, <2>2, Zenon DEF IsMade
<1>17. PICK c, d : c = db /\ d = sync'.db
  OBVIOUS
<1>18. RowsFit(d)'
  <2>1. RowsFit(c)'
    <3>1. RowsFit(c) /\ Id \subseteq Id'
      BY <1>1, <1>17 DEF Id
    <3> QED BY <1>1, <3>1, RowsStay
  <2>2. d.custom = c.custom /\ d.row = c.row
    BY <1>1, <1>17
  <2> QED BY <2>1, <2>2 DEF RowsFit
<1>19. sync'.db.error => sync'.todo = << >>
  BY <1>1, Zenon
<1> QED BY <1>2, <1>15, <1>16, <1>17, <1>18, <1>19, SyncFitsNext

\* The rest is given up.
LEMMA GiveUpFits ==
    ASSUME SyncTypeOK, SyncFits, sync # None, GiveUp, rems' = rems, label' = label
    PROVE  SyncFits'
<1>1. /\ sync' # None /\ sync'.todo = << >> /\ sync'.db.error = TRUE
      /\ sync'.db.row = sync.db.row /\ sync'.db.custom = sync.db.custom
  BY GiveUpFacts, Zenon
<1>2. PICK t : t = << >>
  OBVIOUS
<1>3. Pending(t)' = {} /\ DOMAIN t = {}
  BY <1>2 DEF Pending
<1>4. Ordered(t)' /\ Paired(t)' /\ UsersFirst(t)'
  BY <1>3 DEF Ordered, Paired, UsersFirst
<1>5. OpsFit(t)' /\ ForgetsNothing(t)' /\ Replaced(t)' /\ NeededFollow(t)'
  BY <1>3 DEF OpsFit, ForgetsNothing, Replaced, NeededFollow
<1>6. ComesAgain(t)'
  BY <1>3 DEF ComesAgain, Leaving
<1>7. ListFits(t)'
  BY <1>4, <1>5, <1>6 DEF ListFits
<1>8. PICK c, d : c = sync.db /\ d = sync'.db
  OBVIOUS
<1>9. RowsFit(d)'
  <2>1. RowsFit(c) /\ Id \subseteq Id'
    BY <1>8 DEF SyncFits, Id
  <2>2. RowsFit(c)'
    BY <2>1, RowsStay
  <2> QED BY <1>1, <1>8, <2>2 DEF RowsFit
<1>10. IsMade'
  BY <1>1 DEF IsMade
<1> QED BY <1>1, <1>2, <1>7, <1>8, <1>9, <1>10, SyncFitsNext

\* Steps that leave the sync and what REMS has alone.
LEMMA SyncStays ==
    ASSUME SyncTypeOK, SyncFits, rems' = rems, sync' = sync, label' \in {label, 2}
    PROVE  SyncFits'
<1> SUFFICES ASSUME sync # None PROVE SyncFits'
  BY DEF SyncFits
<1>1. PICK s, d : s = sync.todo /\ d = sync.db
  OBVIOUS
<1>2. s \in Seq(Op) /\ ListFits(s) /\ RowsFit(d) /\ RowsFit(sync.db) /\ IsMade
      /\ (sync.db.error => sync.todo = << >>)
  BY <1>1, SyncFacts DEF SyncFits
<1>3. Id' = Id
  BY DEF Id
<1>4. ListFits(s)'
  BY <1>2, <1>3, ListStays
<1>5. RowsFit(d)'
  BY <1>2, <1>3, RowsStay
<1>6. IsMade'
  BY <1>1, <1>2, MadeStays
<1> QED BY <1>1, <1>2, <1>4, <1>5, <1>6, SyncFitsNext

-----------------------------------------------------------------------------
(* The steps, by what they do to the sync. *)

\* People act in REMS, or nothing happens there.
Waits ==
    /\ UNCHANGED << db, rems, label, sync, failures, crashes >>
    /\ \/ apps' = apps
       \/ /\ MayAct
          /\ IsRems(db.want) \/ \A a \in Applicant : IsOpen(a)' => IsOpen(a)

Closes ==
    /\ Doing("close")
    /\ IsOpen(Arg)
    /\ Put(<< >>)
    /\ apps' = [apps EXCEPT ![Arg].state = "closed"]
    /\ UNCHANGED << db, rems, label, failures, crashes >>

GivesUp ==
    /\ sync # None /\ sync.todo # << >>
    /\ GiveUp
    /\ UNCHANGED << db, rems, label, apps, crashes >>
    /\ \/ Doing("hide") /\ InUse(Arg) /\ failures' = failures
       \/ Doing("close") /\ ~IsOpen(Arg) /\ failures' = failures
       \/ (\E op \in MayFail : Doing(op)) /\ failures' = failures + 1

LEMMA SetStateFacts ==
    ASSUME SyncTypeOK, NEW a \in Applicant, NEW from, NEW to, SetState(a, from, to)
    PROVE  /\ apps[a] \in Filed
           /\ apps' = [apps EXCEPT ![a] = [apps[a] EXCEPT !.state = to]]
           /\ \A b \in Applicant : b # a => apps'[b] = apps[b]
           /\ apps'[a] = [apps[a] EXCEPT !.state = to]
           /\ apps'[a].state = to
           /\ to \in {"submitted", "approved", "rejected", "returned", "closed"} =>
                  apps' \in [Applicant -> Filed \cup {None}]
<1>1. apps \in [Applicant -> Filed \cup {None}] /\ apps[a] # None
  BY DEF SyncTypeOK, SetState
<1>2. apps[a] \in Filed
  BY <1>1
<1>3. apps' = [apps EXCEPT ![a] = [apps[a] EXCEPT !.state = to]]
  BY DEF SetState
<1>4. apps'[a] = [apps[a] EXCEPT !.state = to] /\ \A b \in Applicant : b # a => apps'[b] = apps[b]
  BY <1>1, <1>3
<1>5. [apps[a] EXCEPT !.state = to].state = to
  BY <1>2 DEF Filed
<1>6. to \in {"submitted", "approved", "rejected", "returned", "closed"} =>
          [apps[a] EXCEPT !.state = to] \in Filed
  BY <1>2 DEF Filed
<1> QED BY <1>1, <1>2, <1>3, <1>4, <1>5, <1>6

LEMMA HandleFacts ==
    ASSUME SyncTypeOK, NEW a \in Applicant, Handle(a)
    PROVE  /\ apps' \in [Applicant -> Filed \cup {None}]
           /\ \A b \in Applicant : IsOpen(b)' => IsOpen(b)
           /\ MayAct /\ UNCHANGED << db, rems, label, sync, listed, changes, failures, crashes >>
<1>1. ASSUME NEW from, NEW to, SetState(a, from, to),
             from \subseteq {"submitted", "approved", "returned"},
             to \in {"approved", "rejected", "returned", "closed"}
      PROVE  /\ apps' \in [Applicant -> Filed \cup {None}]
             /\ \A b \in Applicant : IsOpen(b)' => IsOpen(b)
  <2>1. apps[a] \in Filed /\ apps[a].state \in from /\ apps[a] # None
    BY <1>1, SetStateFacts, Zenon DEF SetState
  <2>2. \A b \in Applicant : b # a => apps'[b] = apps[b]
    BY <1>1, SetStateFacts, Zenon
  <2>3. apps' \in [Applicant -> Filed \cup {None}]
    BY <1>1, SetStateFacts, Zenon
  <2>4. IsOpen(a)
    BY <1>1, <2>1, Zenon DEF IsOpen
  <2> QED BY <2>2, <2>3, <2>4 DEF IsOpen
<1>2. \A from, to : SetState(a, from, to) =>
          MayAct /\ UNCHANGED << db, rems, label, sync, listed, changes, failures, crashes >>
  BY DEF SetState
<1>3. CASE \E s \in {"approved", "rejected", "returned"} : SetState(a, {"submitted"}, s)
  <2>1. PICK s \in {"approved", "rejected", "returned"} : SetState(a, {"submitted"}, s)
    BY <1>3
  <2> QED BY <1>1, <1>2, <2>1
<1>4. CASE SetState(a, {"submitted", "approved", "returned"}, "closed")
  BY <1>1, <1>2, <1>4
<1> QED BY <1>3, <1>4 DEF Handle

LEMMA SubmitFacts ==
    ASSUME SyncTypeOK, NEW a \in Applicant, Submit(a)
    PROVE  /\ apps' \in [Applicant -> Filed \cup {None}]
           /\ IsRems(db.want) /\ MayAct
           /\ UNCHANGED << db, rems, label, sync, listed, changes, failures, crashes >>
<1>1. PICK to : to = Submitted(apps[a].manual)
  OBVIOUS
<1>2. to \in {"submitted", "approved"}
  BY <1>1 DEF Submitted
<1>3. SetState(a, {"draft", "returned"}, to) /\ IsRems(db.want)
  BY <1>1 DEF Submit
<1>4. apps' \in [Applicant -> Filed \cup {None}]
  BY <1>2, <1>3, SetStateFacts, Zenon
<1> QED BY <1>3, <1>4 DEF SetState

LEMMA ItemFacts ==
    ASSUME SyncTypeOK, EntitiesFit, RowsFit(db), db.row[Item] # 0
    PROVE  LET uses == rems[db.row[Item]].uses
               resource == CHOOSE i \in uses : rems[i].type = "resource"
               workflow == CHOOSE i \in uses : rems[i].type = "workflow" IN
           /\ db.row[Item] \in Id /\ rems[db.row[Item]].type = "item"
           /\ resource \in uses /\ resource \in Id /\ rems[resource].type = "resource"
           /\ workflow \in uses /\ workflow \in Id /\ rems[workflow].type = "workflow"
           /\ rems[workflow].what \in BOOLEAN \X Org
           /\ rems[resource].uses \subseteq Id
<1>1. PICK j \in Id : j = db.row[Item] /\ rems[j].type = "item"
  BY KeyFacts DEF RowsFit, IsFor
<1>2. (\E i \in rems[j].uses : rems[i].type = "resource")
      /\ (\E i \in rems[j].uses : rems[i].type = "workflow")
      /\ rems[j].uses \subseteq Id
  BY <1>1 DEF EntitiesFit, HasOne
<1>3. PICK r, w : /\ r = CHOOSE i \in rems[j].uses : rems[i].type = "resource"
                  /\ w = CHOOSE i \in rems[j].uses : rems[i].type = "workflow"
  OBVIOUS
<1>4. r \in rems[j].uses /\ rems[r].type = "resource" /\ w \in rems[j].uses
      /\ rems[w].type = "workflow"
  BY <1>2, <1>3
<1>5. r \in Id /\ w \in Id /\ rems[w] \in Entity
  BY <1>2, <1>4, RemsFacts
<1>6. rems[w].what \in BOOLEAN \X Org
  BY <1>4, <1>5 DEF Entity, Made
<1>7. rems[r].uses \subseteq Id
  BY <1>5 DEF EntitiesFit
<1> QED BY <1>1, <1>3, <1>4, <1>5, <1>6, <1>7, Zenon

LEMMA ApplyFacts ==
    ASSUME SyncTypeOK, EntitiesFit, RowsFit(db), NEW a \in Applicant, Apply(a)
    PROVE  /\ apps' \in [Applicant -> Filed \cup {None}]
           /\ IsRems(db.want) /\ MayAct
           /\ UNCHANGED << db, rems, label, sync, listed, changes, failures, crashes >>
<1>1. PICK r, w :
         /\ r = CHOOSE i \in rems[db.row[Item]].uses : rems[i].type = "resource"
         /\ w = CHOOSE i \in rems[db.row[Item]].uses : rems[i].type = "workflow"
  BY Zenon
<1>2. /\ IsRems(db.want) /\ MayAct /\ db.row[Item] # 0
      /\ UNCHANGED << db, rems, label, sync, listed, changes, failures, crashes >>
      /\ \E state \in {Submitted(rems[w].what[1])} \cup ({"draft"} \cap Kinds) :
          apps' = [apps EXCEPT ![a] = [state |-> state, licenses |-> rems[r].uses,
                                     manual |-> rems[w].what[1], org |-> rems[w].what[2]]]
  BY <1>1, ZenonT(60) DEF Apply
<1>3. rems[w].what \in BOOLEAN \X Org /\ rems[r].uses \subseteq Id
  BY <1>1, <1>2, ItemFacts, Zenon
<1>4. PICK state \in {Submitted(rems[w].what[1])} \cup ({"draft"} \cap Kinds) :
          apps' = [apps EXCEPT ![a] = [state |-> state, licenses |-> rems[r].uses,
                                     manual |-> rems[w].what[1], org |-> rems[w].what[2]]]
  BY <1>2, Zenon
<1>5. state \in {"draft", "submitted", "approved"}
  BY DEF Submitted
<1>6. [state |-> state, licenses |-> rems[r].uses,
       manual |-> rems[w].what[1], org |-> rems[w].what[2]] \in Filed
  BY <1>3, <1>5, RemsFacts DEF Filed
<1>7. apps' \in [Applicant -> Filed \cup {None}]
  BY <1>4, <1>6 DEF SyncTypeOK
<1> QED BY <1>2, <1>7

LEMMA RequestFacts ==
    ASSUME SyncTypeOK, RowsFit(db), Update \/ Delete \/ Restore \/ CommandSyncs
    PROVE  /\ \E w \in Want, publish \in BOOLEAN : Starts(w, publish)
           /\ listed' \in {listed, None} /\ changes' \in 0 .. MaxChanges
<1>1. ASSUME NEW have \in Hand, NEW says \in Want, Request(have, says),
             have.resource \in Id \cup {0}, "stale" \notin Kinds => have = InHand(says)
      PROVE  /\ \E w \in Want, publish \in BOOLEAN : Starts(w, publish)
             /\ changes' \in 0 .. MaxChanges
  <2>1. /\ sync = None /\ Start(have, says)
        /\ UNCHANGED << db, rems, label, apps, failures, crashes >>
        /\ changes < MaxChanges /\ changes' = changes + 1
    BY <1>1 DEF Request
  <2>2. changes' \in 0 .. MaxChanges
    BY <2>1, BoundsAreNumbers DEF SyncTypeOK
  <2>3. [says EXCEPT !.org = have.org] \in Want /\ have.publish \in BOOLEAN
    BY Zenon DEF Want, Hand
  <2>4. Starts([says EXCEPT !.org = have.org], have.publish)
    BY <1>1, <2>1, Zenon DEF Starts
  <2> QED BY <2>2, <2>3, <2>4
<1>2. db.want \in Want
  BY DEF SyncTypeOK, DB
<1>3. ASSUME NEW w \in Want, Change(w)
      PROVE  /\ \E v \in Want, publish \in BOOLEAN : Starts(v, publish)
             /\ listed' \in {listed, None} /\ changes' \in 0 .. MaxChanges
  <2>1. Request(InHand(w), w) /\ listed' = listed
    BY <1>3, Zenon DEF Change
  <2>2. InHand(w) \in Hand /\ InHand(w).resource \in Id \cup {0}
    BY HandFacts
  <2> QED BY <1>1, <2>1, <2>2
<1>4. CASE Update
  <2>1. PICK w \in Described : Change(w)
    BY <1>4 DEF Update
  <2>2. w \in Want
    BY DescribedAreWanted
  <2> QED BY <1>3, <2>1, <2>2
<1>5. CASE Delete
  <2>1. [db.want EXCEPT !.removed = TRUE] \in Want
    BY <1>2, Zenon DEF Want
  <2> QED BY <1>3, <1>5, <2>1 DEF Delete
<1>6. CASE Restore
  <2>1. [db.want EXCEPT !.removed = FALSE] \in Want
    BY <1>2, Zenon DEF Want
  <2> QED BY <1>3, <1>6, <2>1 DEF Restore
<1>7. CASE CommandSyncs
  <2>1. /\ Request(listed, db.want) /\ listed' = None /\ listed # None
        /\ "stale" \notin Kinds => listed = InHand(db.want)
    BY <1>7, Zenon DEF CommandSyncs
  <2>2. listed \in Hand /\ listed.resource \in Id \cup {0}
    BY <2>1, Zenon DEF SyncTypeOK
  <2> QED BY <1>1, <1>2, <2>1, <2>2
<1> QED BY <1>4, <1>5, <1>6, <1>7

LEMMA FailFacts ==
    ASSUME SyncTypeOK, CallFails
    PROVE  GivesUp /\ listed' = listed /\ changes' = changes /\ failures' \in 0 .. MaxFailures
<1>1. PICK op \in MayFail : Doing(op)
  BY DEF CallFails
<1>2. sync # None /\ sync.todo # << >>
  BY <1>1 DEF Doing
<1>3. failures < MaxFailures /\ failures' = failures + 1 /\ failures \in 0 .. MaxFailures
  BY DEF CallFails, SyncTypeOK
<1>4. failures' \in 0 .. MaxFailures
  BY <1>3, BoundsAreNumbers
<1> QED BY <1>1, <1>2, <1>4 DEF CallFails, GivesUp

LEMMA CloseFacts ==
    ASSUME SyncTypeOK, Close
    PROVE  /\ Closes \/ GivesUp
           /\ listed' = listed /\ changes' = changes /\ failures' = failures /\ crashes' = crashes
           /\ apps' \in [Applicant -> Filed \cup {None}]
<1>1. Doing("close") /\ sync # None /\ sync.todo # << >> /\ Arg \in Applicant
  BY ArgFacts DEF Close, Doing
<1>2. CASE IsOpen(Arg)
  <2>1. PICK a \in Applicant : a = Arg
    BY <1>1
  <2>2. apps[a] \in Filed
    BY <1>2, <2>1 DEF IsOpen, SyncTypeOK
  <2>3. [apps[a] EXCEPT !.state = "closed"] \in Filed
    BY <2>2 DEF Filed
  <2>4. apps' = [apps EXCEPT ![a] = [apps[a] EXCEPT !.state = "closed"]]
    BY <1>2, <2>1 DEF Close
  <2>5. apps' \in [Applicant -> Filed \cup {None}]
    BY <2>3, <2>4 DEF SyncTypeOK
  <2>6. Closes
    BY <1>1, <1>2 DEF Close, Closes
  <2> QED BY <2>5, <2>6 DEF Close
<1>3. CASE ~IsOpen(Arg)
  BY <1>1, <1>3 DEF Close, GivesUp, SyncTypeOK
<1> QED BY <1>2, <1>3

LEMMA HideCases ==
    ASSUME SyncTypeOK, Hide
    PROVE  /\ Hides \/ GivesUp
           /\ UNCHANGED << db, label, apps, listed, changes, failures, crashes >>
<1>1. Doing("hide") /\ sync # None /\ sync.todo # << >>
  BY DEF Hide, Doing
<1> QED BY <1>1 DEF Hide, Hides, GivesUp

\* Each step is one of these.
LEMMA StepCases ==
    ASSUME SyncTypeOK, EntitiesFit, RowsFit(db), [SyncNext]_syncVars
    PROVE  \/ Waits
           \/ ReferenceDataChanges
           \/ \E w \in Want, publish \in BOOLEAN : Starts(w, publish)
           \/ Plan \/ ForgetUnused \/ Create \/ Disable \/ Hides \/ Closes \/ GivesUp
           \/ Commit \/ RollBack
<1>1. CASE Update \/ Delete \/ Restore \/ CommandSyncs
  BY <1>1, RequestFacts
<1>2. CASE CommandLists \/ CommandEnds \/ UNCHANGED syncVars
  BY <1>2 DEF CommandLists, CommandEnds, syncVars, Waits
<1>3. CASE ReferenceDataChanges \/ Plan \/ ForgetUnused \/ Create \/ Disable \/ Commit \/ RollBack
  BY <1>3
<1>4. CASE Hide \/ Close \/ CallFails
  BY <1>4, HideCases, CloseFacts, FailFacts
<1>5. CASE \E a \in Applicant : Apply(a) \/ Submit(a) \/ Handle(a)
  <2>1. PICK a \in Applicant : Apply(a) \/ Submit(a) \/ Handle(a)
    BY <1>5
  <2>2. CASE Apply(a)
    BY <2>2, ApplyFacts DEF Waits
  <2>3. CASE Submit(a)
    BY <2>3, SubmitFacts DEF Waits
  <2>4. CASE Handle(a)
    BY <2>4, HandleFacts DEF Waits
  <2> QED BY <2>1, <2>2, <2>3, <2>4
<1> QED BY <1>1, <1>2, <1>3, <1>4, <1>5 DEF SyncNext, Proceed, Command

LEMMA PlanFacts ==
    ASSUME SyncTypeOK, EntitiesFit, SyncFits, Plan
    PROVE  /\ sync # None /\ sync.todo \in Seq(Op) /\ sync.todo # << >> /\ ~sync.db.error
           /\ UNCHANGED << db, rems, label, apps, listed, changes, failures, crashes >>
           /\ \E more \in Seq(Op) :
                 /\ Put(more) /\ MoreFits(sync.todo, more)
                      /\ sync.todo[1] = << sync.todo[1][1], Arg >>
                 /\ \/ /\ Doing("ensure")
                       /\ \/ << "create", Arg >> \in Pending(more)
                          \/ MadeAs(Arg)
                    \/ Doing("organization") /\ more = CloseIfNewOrg
                    \/ Doing("licenses") /\ more = CloseIfNewLicenses
                    \/ Doing("unused")
                    \/ Doing("archive")
                    \/ Doing("archiveAll")
                         /\ Pending(more) = {<< "archive", i >> : i \in Active(Arg)}
                    \/ Doing("closeAll") /\ more = CloseAll
<1>1. \A op, more : Phase(op, more) =>
          /\ Doing(op) /\ Put(more)
          /\ UNCHANGED << db, rems, label, apps, listed, changes, failures, crashes >>
  BY DEF Phase
<1>2. \A op : Doing(op) => sync # None /\ sync.todo # << >>
  BY DEF Doing
<1>3. sync # None /\ sync.todo # << >>
      /\ UNCHANGED << db, rems, label, apps, listed, changes, failures, crashes >>
  BY <1>1, <1>2 DEF Plan
<1>4. RowsFit(sync.db) /\ ListFits(sync.todo) /\ ~sync.db.error /\ sync.todo \in Seq(Op)
  BY <1>3, SyncFacts DEF SyncFits
<1>5. sync.todo[1] = << sync.todo[1][1], Arg >>
  <2>1. sync.todo[1] \in Op
    BY <1>3, <1>4, ListFacts
  <2> QED BY <2>1 DEF Op, Arg
<1>6. \A op : Doing(op) => sync.todo[1][1] = op
  BY DEF Doing
<1>7. CASE Phase("ensure", Ensure(Arg))
  <2>1. PICK more : more = Ensure(Arg)
    OBVIOUS
  <2>2. Doing("ensure") /\ Put(more)
    BY <1>1, <1>7, <2>1
  <2>3. MoreFits(sync.todo, more) /\ (<< "create", Arg >> \in Pending(more) \/ MadeAs(Arg))
    BY <1>4, <2>1, <2>2, EnsureFits
  <2> QED BY <1>3, <1>4, <1>5, <2>2, <2>3 DEF MoreFits
<1>8. CASE Phase("organization", CloseIfNewOrg)
  <2>1. PICK more : more = CloseIfNewOrg
    OBVIOUS
  <2>2. Doing("organization") /\ Put(more)
    BY <1>1, <1>8, <2>1
  <2>3. MoreFits(sync.todo, more)
    <3>1. sync.todo[1][1] \notin {"archive", "hide"}
      BY <1>6, <2>2
    <3>2. more = CloseAll \/ more = << >>
      BY <2>1 DEF CloseIfNewOrg
    <3> QED BY <3>1, <3>2, EmptyFits, ClosesFit
  <2> QED BY <1>3, <1>4, <1>5, <2>1, <2>2, <2>3, Zenon DEF MoreFits
<1>9. CASE Phase("licenses", CloseIfNewLicenses)
  <2>1. PICK more : more = CloseIfNewLicenses
    OBVIOUS
  <2>2. Doing("licenses") /\ Put(more)
    BY <1>1, <1>9, <2>1
  <2>3. MoreFits(sync.todo, more)
    <3>1. sync.todo[1][1] \notin {"archive", "hide"}
      BY <1>6, <2>2
    <3>2. more = CloseAll \/ more = << >>
      BY <2>1 DEF CloseIfNewLicenses
    <3> QED BY <3>1, <3>2, EmptyFits, ClosesFit
  <2> QED BY <1>3, <1>4, <1>5, <2>1, <2>2, <2>3, Zenon DEF MoreFits
<1>10. CASE Phase("unused", ArchiveUnused)
  <2>1. PICK more : more = ArchiveUnused
    OBVIOUS
  <2>2. Doing("unused") /\ Put(more)
    BY <1>1, <1>10, <2>1
  <2>3. MoreFits(sync.todo, more)
    BY <1>4, <2>1, <2>2, UnusedFits
  <2> QED BY <1>3, <1>4, <1>5, <2>2, <2>3 DEF MoreFits
<1>11. CASE Phase("archive", ArchiveEntity(Arg))
  <2>1. PICK more : more = ArchiveEntity(Arg)
    OBVIOUS
  <2>2. Doing("archive") /\ Put(more)
    BY <1>1, <1>11, <2>1
  <2>3. MoreFits(sync.todo, more)
    BY <1>4, <2>1, <2>2, ArchiveFits
  <2> QED BY <1>3, <1>4, <1>5, <2>2, <2>3 DEF MoreFits
<1>12. CASE Phase("archiveAll", Archive(Active(Arg)))
  <2>1. PICK more : more = Archive(Active(Arg))
    OBVIOUS
  <2>2. Doing("archiveAll") /\ Put(more)
    BY <1>1, <1>12, <2>1
  <2>3. MoreFits(sync.todo, more) /\ Pending(more) = {<< "archive", i >> : i \in Active(Arg)}
    BY <1>4, <2>1, <2>2, ArchiveAllFits
  <2> QED BY <1>3, <1>4, <1>5, <2>2, <2>3 DEF MoreFits
<1>13. CASE Phase("closeAll", CloseAll)
  <2>1. PICK more : more = CloseAll
    OBVIOUS
  <2>2. Doing("closeAll") /\ Put(more)
    BY <1>1, <1>13, <2>1
  <2>3. MoreFits(sync.todo, more)
    <3>1. sync.todo[1][1] \notin {"archive", "hide"}
      BY <1>6, <2>2
    <3> QED BY <2>1, <3>1, ClosesFit
  <2> QED BY <1>3, <1>4, <1>5, <2>1, <2>2, <2>3, Zenon DEF MoreFits
<1> QED BY <1>7, <1>8, <1>9, <1>10, <1>11, <1>12, <1>13, Zenon DEF Plan

LEMMA ClosesFacts ==
    ASSUME SyncTypeOK, SyncFits, Closes
    PROVE  /\ sync # None /\ sync.todo \in Seq(Op) /\ sync.todo # << >> /\ ~sync.db.error
           /\ sync.todo[1] = << "close", Arg >> /\ Arg \in Applicant
           /\ Put(<< >>) /\ MoreFits(sync.todo, << >>)
<1>1. /\ sync # None /\ sync.todo \in Seq(Op) /\ sync.todo # << >> /\ Doing("close")
      /\ sync.todo[1] = << "close", Arg >> /\ Arg \in Applicant
  BY ArgFacts DEF Closes
<1>2. sync.todo[1][1] \notin {"archive", "hide"}
  BY <1>1
<1> QED BY <1>1, <1>2, EmptyFits DEF Closes, SyncFits

-----------------------------------------------------------------------------
(* The invariant that the order of the calls rests on. *)

Fits == SyncTypeOK /\ EntitiesFit /\ RowsFit(db) /\ SyncFits

LEMMA FitsInit ==
    ASSUME SyncInit
    PROVE  Fits
<1>1. PICK w \in Described :
          db = [want |-> w, row |-> [k \in Key |-> 0], custom |-> {}, error |-> FALSE]
  BY Zenon DEF SyncInit
<1>2. db \in DB /\ db.custom = {} /\ \A k \in Key : db.row[k] = 0
  BY <1>1, DescribedAreWanted DEF DB
<1>3. rems = << >> /\ Id = {}
  BY DEF SyncInit, Id
<1>4. rems \in Seq(Entity)
  BY <1>3
<1>5. SyncTypeOK
  <2>1. 0 \in 0 .. MaxChanges /\ 0 \in 0 .. MaxFailures /\ 0 \in 0 .. MaxCrashes
    BY BoundsAreNumbers
  <2>2. apps \in [Applicant -> Filed \cup {None}]
    BY DEF SyncInit
  <2> QED BY <1>2, <1>4, <2>1, <2>2, Zenon DEF SyncInit, SyncTypeOK
<1>6. EntitiesFit /\ SyncFits
  BY <1>3 DEF EntitiesFit, SyncFits, SyncInit
<1>7. RowsFit(db)
  BY <1>2, KeyFacts DEF RowsFit
<1> QED BY <1>5, <1>6, <1>7 DEF Fits

\* What each step keeps of the entities.
LEMMA EntitiesLast ==
    ASSUME Fits, [SyncNext]_syncVars
    PROVE  /\ Id \subseteq Id'
           /\ \A i \in Id : /\ rems'[i].type = rems[i].type
                            /\ rems'[i].what = rems[i].what
                            /\ rems'[i].uses = rems[i].uses
<1>1. SyncTypeOK /\ EntitiesFit /\ RowsFit(db) /\ SyncFits
  BY DEF Fits
<1>2. rems' = rems => Id' = Id
  BY DEF Id
<1>3. CASE Waits \/ ReferenceDataChanges \/ ForgetUnused \/ Closes \/ GivesUp \/ Commit \/ RollBack
  BY <1>2, <1>3 DEF Waits, ReferenceDataChanges, ForgetUnused, Closes, GivesUp, Commit, RollBack
<1>4. CASE \E w \in Want, publish \in BOOLEAN : Starts(w, publish)
  BY <1>2, <1>4 DEF Starts
<1>5. CASE Plan
  BY <1>1, <1>2, <1>5, PlanFacts
<1>6. CASE Create
  BY <1>1, <1>6, CreateFacts
<1>7. CASE Disable
  BY <1>1, <1>7, DisableFacts
<1>8. CASE Hides
  BY <1>1, <1>8, HideFacts
<1> QED BY <1>1, <1>3, <1>4, <1>5, <1>6, <1>7, <1>8, StepCases

\* What is saved is what the sync has made of the rows about REMS.
LEMMA CommitFacts ==
    ASSUME SyncTypeOK, Commit
    PROVE  /\ db' \in DB
           /\ db'.row = sync.db.row /\ db'.custom = sync.db.custom
           /\ sync.kept = [want |-> sync.db.want, error |-> FALSE] => db' = sync.db
<1>1. /\ sync \in Sync /\ sync.db \in DB /\ sync.kept \in Kept
      /\ db' = [sync.db EXCEPT !.want = sync.kept.want, !.error = @ \/ sync.kept.error]
  BY DEF Commit, SyncTypeOK, Sync
<1>2. sync.kept.want \in Want /\ sync.kept.error \in BOOLEAN /\ sync.db.error \in BOOLEAN
  BY <1>1 DEF Kept, DB
<1>3. (sync.db.error \/ sync.kept.error) \in BOOLEAN
  OBVIOUS
<1>4. db' \in DB /\ db'.row = sync.db.row /\ db'.custom = sync.db.custom
  BY <1>1, <1>2, <1>3, Zenon DEF DB
<1>5. ASSUME sync.kept = [want |-> sync.db.want, error |-> FALSE]
      PROVE  db' = sync.db
  <2>1. sync.kept.want = sync.db.want /\ sync.kept.error = FALSE
    BY <1>5
  <2>2. (sync.db.error \/ sync.kept.error) = sync.db.error
    BY <1>2, <2>1, Zenon
  <2>3. db' = [sync.db EXCEPT !.want = sync.db.want, !.error = sync.db.error]
    BY <1>1, <2>1, <2>2
  <2> QED BY <1>1, <2>3 DEF DB
<1> QED BY <1>4, <1>5

LEMMA TypesStep ==
    ASSUME Fits, [SyncNext]_syncVars
    PROVE  SyncTypeOK'
<1>1. SyncTypeOK /\ EntitiesFit /\ RowsFit(db) /\ SyncFits
  BY DEF Fits
<1> USE <1>1
<1>2. /\ db \in DB /\ rems \in Seq(Entity) /\ label \in {1, 2}
      /\ apps \in [Applicant -> Filed \cup {None}] /\ sync \in Sync \cup {None}
      /\ changes \in 0 .. MaxChanges
      /\ failures \in 0 .. MaxFailures /\ crashes \in 0 .. MaxCrashes
  BY DEF SyncTypeOK
<1>17. listed' \in {listed, None} =>
           listed' \in Hand \cup {None} /\ (listed' # None => listed'.resource \in Id' \cup {0})
  BY EntitiesLast DEF SyncTypeOK
<1>18. rems' = rems => Id' = Id
  BY DEF Id
<1>3. CASE Update \/ Delete \/ Restore \/ CommandSyncs
  <2>1. PICK w \in Want, publish \in BOOLEAN : Starts(w, publish)
    BY <1>3, RequestFacts
  <2>2. sync' \in Sync
    BY <2>1, StartFacts DEF Starts
  <2>3. listed' \in {listed, None} /\ changes' \in 0 .. MaxChanges
    BY <1>3, RequestFacts
  <2> QED BY <1>2, <1>17, <2>1, <2>2, <2>3 DEF SyncTypeOK, Starts
<1>4. CASE CommandLists \/ CommandEnds \/ UNCHANGED syncVars
  <2>1. UNCHANGED << db, rems, label, apps, sync, changes, failures, crashes >>
    BY <1>4 DEF CommandLists, CommandEnds, syncVars
  <2>2. CASE CommandLists
    <3>1. db.want \in Want /\ listed' = InHand(db.want)
      BY <1>2, <2>2 DEF CommandLists, DB
    <3>2. listed' \in Hand /\ listed'.resource \in Id \cup {0}
      BY <3>1, HandFacts, Zenon
    <3> QED BY <1>2, <1>18, <2>1, <3>2 DEF SyncTypeOK
  <2>3. CASE CommandEnds \/ UNCHANGED syncVars
    <3>1. listed' \in {listed, None}
      BY <2>3 DEF CommandEnds, syncVars
    <3> QED BY <1>2, <1>17, <2>1, <3>1 DEF SyncTypeOK
  <2> QED BY <1>4, <2>2, <2>3
<1>5. CASE ReferenceDataChanges
  BY <1>2, <1>17, <1>5 DEF ReferenceDataChanges, SyncTypeOK
<1>6. CASE Plan
  <2>1. PICK more \in Seq(Op) : Put(more)
    BY <1>6, PlanFacts
  <2>2. sync' \in Sync
    BY <1>6, <2>1, PlanFacts, PutFacts
  <2> QED BY <1>2, <1>6, <1>17, <2>2, PlanFacts, Zenon DEF SyncTypeOK
<1>7. CASE ForgetUnused
  BY <1>2, <1>17, <1>7, ForgetFacts DEF ForgetUnused, SyncTypeOK
<1>8. CASE Create
  BY <1>2, <1>17, <1>8, CreateFacts DEF Create, SyncTypeOK
<1>9. CASE Disable
  BY <1>2, <1>17, <1>9, DisableFacts DEF Disable, SyncTypeOK
<1>10. ASSUME GivesUp PROVE sync' \in Sync /\ rems' = rems /\ apps' = apps
  BY <1>10, GiveUpFacts DEF GivesUp
<1>11. CASE Hide
  <2>1. Hides => sync' \in Sync /\ rems' \in Seq(Entity)
    BY HideFacts
  <2>2. sync' \in Sync /\ rems' \in Seq(Entity)
    BY <1>2, <1>10, <1>11, <2>1, HideCases
  <2> QED BY <1>2, <1>11, <1>17, <2>2, HideCases DEF SyncTypeOK
<1>12. CASE Close
  <2>1. Closes => sync' \in Sync
    <3> SUFFICES ASSUME Closes PROVE sync' \in Sync
      OBVIOUS
    <3>1. << >> \in Seq(Op)
      OBVIOUS
    <3> QED BY <3>1, ClosesFacts, PutFacts, Zenon
  <2>2. sync' \in Sync
    BY <1>10, <1>12, <2>1, CloseFacts
  <2> QED BY <1>2, <1>12, <1>17, <2>2, CloseFacts DEF SyncTypeOK, Close
<1>13. CASE CallFails
  <2>1. GivesUp /\ listed' = listed /\ changes' = changes /\ failures' \in 0 .. MaxFailures
    BY <1>13, FailFacts
  <2> QED BY <1>2, <1>10, <1>17, <2>1 DEF GivesUp, SyncTypeOK
<1>14. CASE Commit
  <2>1. db' \in DB
    BY <1>14, CommitFacts
  <2> QED BY <1>2, <1>14, <1>17, <2>1 DEF Commit, SyncTypeOK
<1>15. CASE RollBack
  <2>1. crashes' \in 0 .. MaxCrashes
    BY <1>2, <1>15, BoundsAreNumbers DEF RollBack
  <2> QED BY <1>2, <1>15, <1>17, <2>1 DEF RollBack, SyncTypeOK
<1>16. CASE \E a \in Applicant : Apply(a) \/ Submit(a) \/ Handle(a)
  <2>1. PICK a \in Applicant : Apply(a) \/ Submit(a) \/ Handle(a)
    BY <1>16
  <2>2. /\ apps' \in [Applicant -> Filed \cup {None}]
        /\ UNCHANGED << db, rems, label, sync, listed, changes, failures, crashes >>
    BY <2>1, ApplyFacts, SubmitFacts, HandleFacts
  <2> QED BY <1>2, <1>17, <2>2 DEF SyncTypeOK
<1> QED BY <1>3, <1>4, <1>5, <1>6, <1>7, <1>8, <1>9, <1>11, <1>12, <1>13, <1>14, <1>15, <1>16
        DEF SyncNext, Proceed, Command

LEMMA FitsStep ==
    ASSUME Fits, [SyncNext]_syncVars
    PROVE  Fits'
<1>1. SyncTypeOK /\ EntitiesFit /\ RowsFit(db) /\ SyncFits
  BY DEF Fits
<1>2. SyncTypeOK'
  BY TypesStep
<1> USE <1>1
<1>3. PICK d : d = db
  OBVIOUS
<1>4. ASSUME rems' = rems, label' \in {label, 2} PROVE EntitiesFit' /\ (db' = db => RowsFit(db)')
  <2>1. Id' = Id
    BY <1>4 DEF Id
  <2>2. EntitiesFit'
    BY <1>4, <2>1, EntitiesStay
  <2>3. RowsFit(d)'
    BY <1>3, <1>4, <2>1, RowsStay
  <2> QED BY <1>3, <2>2, <2>3 DEF RowsFit
<1>5. CASE Waits
  <2>1. SyncFits'
    BY <1>5, SyncStays DEF Waits
  <2> QED BY <1>2, <1>4, <1>5, <2>1 DEF Waits, Fits
<1>6. CASE ReferenceDataChanges
  <2>1. SyncFits'
    BY <1>6, SyncStays DEF ReferenceDataChanges
  <2> QED BY <1>2, <1>4, <1>6, <2>1 DEF ReferenceDataChanges, Fits
<1>7. CASE \E w \in Want, publish \in BOOLEAN : Starts(w, publish)
  <2>1. PICK w \in Want, publish \in BOOLEAN : Starts(w, publish)
    BY <1>7
  <2>2. SyncFits'
    BY <2>1, StartFits DEF Starts
  <2> QED BY <1>2, <1>4, <2>1, <2>2 DEF Starts, Fits
<1>8. CASE Plan
  <2>1. /\ sync # None /\ sync.todo # << >>
        /\ UNCHANGED << db, rems, label, apps, listed, changes, failures, crashes >>
    BY <1>8, PlanFacts
  <2>2. PICK more \in Seq(Op) :
                 /\ Put(more) /\ MoreFits(sync.todo, more)
                 /\ \/ Doing("ensure") /\ (<< "create", Arg >> \in Pending(more) \/ MadeAs(Arg))
                    \/ \E op \in {"organization", "licenses", "unused", "archive", "archiveAll",
                         "closeAll"} : Doing(op)
    BY <1>8, PlanFacts
  <2>3. sync.todo[1][1] # "create"
        /\ (sync.todo[1][1] = "ensure" => << "create", Arg >> \in Pending(more) \/ MadeAs(Arg))
    BY <2>2 DEF Doing
  <2>4. SyncFits'
    BY <2>1, <2>2, <2>3, PutFits
  <2> QED BY <1>2, <1>4, <2>1, <2>4 DEF Fits
<1>9. CASE ForgetUnused
  <2>1. SyncFits'
    BY <1>9, ForgetFits
  <2> QED BY <1>2, <1>4, <1>9, <2>1 DEF ForgetUnused, Fits
<1>10. CASE Create
  <2>1. SyncFits' /\ EntitiesFit'
    BY <1>10, CreateFits, CreatedEntityFits
  <2>2. RowsFit(d)'
    <3>1. Id \subseteq Id' /\ \A j \in Id : rems'[j] = rems[j]
      BY <1>10, CreateFacts
    <3> QED BY <1>3, <3>1, RowsStay
  <2>3. db' = d
    BY <1>3, <1>10 DEF Create
  <2>4. RowsFit(db)'
    BY <2>2, <2>3 DEF RowsFit
  <2> QED BY <1>2, <2>1, <2>4 DEF Fits
<1>11. ASSUME Disable \/ Hides PROVE EntitiesFit' /\ RowsFit(db)'
  <2>1. /\ Id' = Id
        /\ \A j \in Id : /\ rems'[j].type = rems[j].type
                         /\ rems'[j].what = rems[j].what
                         /\ rems'[j].uses = rems[j].uses
    BY <1>11, DisableFacts, HideFacts
  <2>2. label' = label /\ db' = d
    BY <1>3, <1>11 DEF Disable, Hides, Hide
  <2>3. EntitiesFit'
    BY <2>1, <2>2, EntitiesStay
  <2>4. RowsFit(d)'
    BY <1>3, <2>1, RowsStay
  <2> QED BY <2>2, <2>3, <2>4 DEF RowsFit
<1>12. CASE Disable
  <2>1. SyncFits'
    BY <1>12, DisableFits
  <2> QED BY <1>2, <1>11, <1>12, <2>1 DEF Fits
<1>13. CASE Hides
  <2>1. SyncFits'
    BY <1>13, HideFits
  <2> QED BY <1>2, <1>11, <1>13, <2>1 DEF Fits
<1>14. CASE Closes
  <2>1. sync # None /\ sync.todo # << >> /\ sync.todo[1][1] = "close" /\ Put(<< >>)
        /\ MoreFits(sync.todo, << >>)
    BY <1>14, ClosesFacts
  <2>2. SyncFits'
    BY <1>14, <2>1, PutFits DEF Closes
  <2> QED BY <1>2, <1>4, <1>14, <2>2 DEF Closes, Fits
<1>15. CASE GivesUp
  <2>1. SyncFits'
    BY <1>15, GiveUpFits DEF GivesUp
  <2> QED BY <1>2, <1>4, <1>15, <2>1 DEF GivesUp, Fits
<1>16. CASE Commit
  <2>1. PICK c : c = sync.db
    OBVIOUS
  <2>2. /\ RowsFit(c) /\ rems' = rems /\ label' = label /\ Id' = Id /\ sync' = None
        /\ db'.row = c.row /\ db'.custom = c.custom
    BY <1>16, <2>1, CommitFacts DEF Commit, SyncFits, Id
  <2>3. RowsFit(c)'
    BY <2>2, RowsStay
  <2>4. RowsFit(db)'
    BY <2>2, <2>3 DEF RowsFit
  <2>5. SyncFits'
    BY <2>2 DEF SyncFits
  <2> QED BY <1>2, <1>4, <2>2, <2>4, <2>5 DEF Fits
<1>17. CASE RollBack
  <2>1. SyncFits'
    BY <1>17 DEF RollBack, SyncFits
  <2> QED BY <1>2, <1>4, <1>17, <2>1 DEF RollBack, Fits
<1> QED BY <1>5, <1>6, <1>7, <1>8, <1>9, <1>10, <1>12, <1>13, <1>14, <1>15, <1>16, <1>17, StepCases

\* Lists, rows, entities and applications are of their types through any sync.
THEOREM SyncTypeCorrect == SyncSpec => []SyncTypeOK
<1>1. SyncInit => Fits
  BY FitsInit
<1>2. Fits /\ [SyncNext]_syncVars => Fits'
  BY FitsStep
<1>3. Fits => SyncTypeOK
  BY DEF Fits
<1> QED BY <1>1, <1>2, <1>3, PTL DEF SyncSpec

LEMMA NothingInUse ==
    ASSUME Fits
    PROVE  NeverInUse
<1> SUFFICES ASSUME Doing("hide"), label = 1, InUse(Arg) PROVE FALSE
  BY DEF NeverInUse
<1>1. /\ sync # None /\ sync.todo \in Seq(Op) /\ sync.todo # << >>
      /\ sync.todo[1] = << "hide", Arg >>
  BY ArgFacts DEF Fits
<1>2. 1 \in DOMAIN sync.todo /\ DOMAIN sync.todo = 1 .. Len(sync.todo)
      /\ sync.todo[1] \in Pending(sync.todo)
  BY <1>1, ListFacts, TailFacts, Zenon
<1>3. sync.todo[1][1] = "hide" /\ sync.todo[1][2] = Arg
  BY <1>1
<1>4. OpsFit(sync.todo) /\ UsersFirst(sync.todo)
  BY <1>1 DEF Fits, SyncFits, ListFits
<1>5. ~IsReference(Arg)
  BY <1>2, <1>3, <1>4 DEF OpsFit
<1>6. PICK j \in Active("resource") \cup Active("item") :
          Arg \in rems[j].uses /\ rems[Arg].type \in {"license", "resource"}
  BY DEF InUse
<1>7. \E m \in DOMAIN sync.todo : m < 1 /\ sync.todo[m] \in {<< "archive", j >>, << "hide", j >>}
  BY <1>2, <1>3, <1>4, <1>5, <1>6 DEF UsersFirst
<1> QED BY <1>2, <1>7

\* REMS never refuses to archive an entity because it is in use, unless the entity
\* may be a reference license that has changed: whatever the dataset needs, calls
\* of earlier syncs failed and requests were rolled back.
THEOREM SyncOrder == SyncSpec => []NeverInUse
<1>1. SyncInit => Fits
  BY FitsInit
<1>2. Fits /\ [SyncNext]_syncVars => Fits'
  BY FitsStep
<1>3. Fits => NeverInUse
  BY NothingInUse
<1> QED BY <1>1, <1>2, <1>3, PTL DEF SyncSpec

-----------------------------------------------------------------------------
(* Rows and REMS agree. *)

LEMMA ActiveStays ==
    ASSUME Id' = Id,
           \A j \in Id : /\ rems'[j].type = rems[j].type
                         /\ rems'[j].state = "archived" <=> rems[j].state = "archived",
           NEW type
    PROVE  Active(type)' = Active(type)
BY DEF Active

\* It says nothing else than before when rows and what is archived stay.
LEMMA AgreementStays ==
    ASSUME SyncTypeOK, RowsFit(Cur), RowsAgree, crashes' = crashes, Cur'.row = Cur.row, Id' = Id,
           \A j \in Id : /\ rems'[j].type = rems[j].type
                         /\ rems'[j].uses = rems[j].uses
                         /\ rems'[j].state = "archived" <=> rems[j].state = "archived"
    PROVE  RowsAgree'
<1> SUFFICES ASSUME crashes = 0
             PROVE  /\ \A k \in Key : Cur.row[k] # 0 => rems'[Cur.row[k]].state # "archived"
                    /\ Active("item")' \subseteq {Cur.row[Item]}
                    /\ Active("resource")' \subseteq {Cur.row[Resource]}
                    /\ \A j \in Active("item")' : Cur.row[Resource] # 0
                         /\ Cur.row[Resource] \in rems'[j].uses
  BY DEF RowsAgree, Key, Item, Resource
<1>1. Active("item")' = Active("item") /\ Active("resource")' = Active("resource")
  BY ActiveStays
<1>2. \A k \in Key : Cur.row[k] # 0 => Cur.row[k] \in Id
  BY DEF RowsFit
<1>3. \A j \in Active("item") : j \in Id
  BY ActiveFacts
<1> QED BY <1>1, <1>2, <1>3 DEF RowsAgree

LEMMA CurFacts ==
    ASSUME Fits
    PROVE  /\ RowsFit(Cur) /\ Cur \in DB
           /\ sync # None => Cur = sync.db /\ \A k : Row(k) = Cur.row[k]
           /\ sync = None => Cur = db
<1>1. CASE sync = None
  BY <1>1 DEF Fits, Cur, SyncTypeOK
<1>2. CASE sync # None
  <2>1. PICK d : d = sync.db
    OBVIOUS
  <2>2. RowsFit(d) /\ d \in DB /\ Cur = d
    BY <1>2, <2>1, SyncFacts DEF Fits, SyncFits, Cur
  <2> QED BY <1>2, <2>1, <2>2 DEF Row
<1> QED BY <1>1, <1>2

LEMMA CreateAgrees ==
    ASSUME Fits, RowsAgree, Create
    PROVE  RowsAgree'
<1>1. SyncTypeOK /\ SyncFits
  BY DEF Fits
<1>2. PICK k \in Key : k = Arg
  BY <1>1, CreatingFacts
<1>3. PICK n \in Nat : n = NewId /\ n \notin Id /\ n # 0
  BY <1>1, RemsFacts
<1>4. /\ Id' = Id \cup {n} /\ rems'[n] = Wanted(k)
      /\ \A i \in Id : rems'[i] = rems[i]
      /\ sync'.db.row = [sync.db.row EXCEPT ![k] = n] /\ sync' # None
      /\ crashes' = crashes
  BY <1>1, <1>2, <1>3, CreateFacts, Zenon DEF Create
<1>5. /\ sync # None /\ ~sync.db.error /\ sync.publish /\ k \in Needed(sync.db.want) /\ Row(k) = 0
      /\ \A x \in Pending(sync.todo) : ~IsEarly(x) => Rank(x) >= KeyRank(k)
  BY <1>1, <1>2, CreatingFacts
<1>6. PICK c, d : c = sync.db.row /\ d = sync'.db.row
  OBVIOUS
<1>7. /\ c \in [Key -> Nat] /\ d = [c EXCEPT ![k] = n] /\ c[k] = 0
      /\ Cur.row = c /\ Cur'.row = d
  BY <1>1, <1>4, <1>5, <1>6, SyncFacts DEF Cur, Row
<1>8. \A l \in Key : d[l] = IF l = k THEN n ELSE c[l]
  BY <1>7
<1>9. \A l \in Key : c[l] # 0 => c[l] \in Id /\ IsFor(c[l], l)
  BY <1>5, <1>6 DEF Fits, SyncFits, RowsFit
<1> SUFFICES ASSUME crashes = 0
             PROVE  /\ \A l \in Key : d[l] # 0 => rems'[d[l]].state # "archived"
                    /\ Active("item")' \subseteq {d[Item]}
                    /\ Active("resource")' \subseteq {d[Resource]}
                    /\ \A j \in Active("item")' : d[Resource] # 0 /\ d[Resource] \in rems'[j].uses
  BY <1>4, <1>7 DEF RowsAgree, Key, Item, Resource
<1>10. /\ \A l \in Key : c[l] # 0 => rems[c[l]].state # "archived"
       /\ Active("item") \subseteq {c[Item]}
       /\ Active("resource") \subseteq {c[Resource]}
       /\ \A j \in Active("item") : c[Resource] # 0 /\ c[Resource] \in rems[j].uses
  BY <1>4, <1>7 DEF RowsAgree
<1>11. Wanted(k).state = "active" /\ (Wanted(k).type = "item" <=> k = Item)
       /\ (Wanted(k).type = "resource" <=> k = Resource)
  BY <1>1, <1>5, WantedFacts, KeyFacts
<1>12. \A l \in Key : d[l] # 0 => rems'[d[l]].state # "archived"
  BY <1>4, <1>8, <1>9, <1>10, <1>11
<1>13. \A type : \A j \in Active(type)' : j \in Active(type) \/ (j = n /\ Wanted(k).type = type)
  BY <1>4 DEF Active
<1>14. 0 \notin Id /\ \A type : Active(type) \subseteq Id
  BY <1>1, RemsFacts, ActiveFacts
<1>15. Item \in Key /\ Resource \in Key /\ Item # Resource
  BY KeyFacts
<1>16. Active("item")' \subseteq {d[Item]}
  BY <1>7, <1>8, <1>10, <1>11, <1>13, <1>14, <1>15
<1>17. Active("resource")' \subseteq {d[Resource]}
  BY <1>7, <1>8, <1>10, <1>11, <1>13, <1>14, <1>15
<1>18. ASSUME NEW j \in Active("item")' PROVE d[Resource] # 0 /\ d[Resource] \in rems'[j].uses
  <2>1. CASE j \in Active("item")
    <3>1. c[Resource] # 0 /\ c[Resource] \in rems[j].uses /\ k # Resource
      BY <1>7, <1>10, <2>1
    <3> QED BY <1>4, <1>8, <1>14, <1>15, <2>1, <3>1
  <2>2. CASE j = n /\ k = Item
    <3>1. Row(Resource) \in Wanted(k).uses /\ Wanted(k).uses \subseteq Id
      BY <1>1, <1>5, <2>2, UsedFacts, KeyFacts
    <3>2. Row(Resource) = c[Resource] /\ d[Resource] = c[Resource]
      BY <1>6, <1>8, <1>15, <2>2 DEF Row
    <3> QED BY <1>4, <1>14, <2>2, <3>1, <3>2
  <2> QED BY <1>11, <1>13, <2>1, <2>2
<1> QED BY <1>12, <1>16, <1>17, <1>18

LEMMA HideAgrees ==
    ASSUME Fits, RowsAgree, Hides
    PROVE  RowsAgree'
<1>1. SyncTypeOK /\ SyncFits
  BY DEF Fits
<1>2. Doing("hide") /\ ~InUse(Arg) /\ sync # None /\ crashes' = crashes
  BY DEF Hides, Hide, Doing
<1>3. PICK i : i = Arg
  OBVIOUS
<1>4. PICK c, d : c = sync.db.row /\ d = sync'.db.row
  OBVIOUS
<1>5. /\ d = [k \in Key |-> IF c[k] = i THEN 0 ELSE c[k]]
      /\ Id' = Id /\ sync' # None
      /\ \A j \in Id : /\ rems'[j].type = rems[j].type
                       /\ rems'[j].uses = rems[j].uses
                       /\ j # i => rems'[j].state = rems[j].state
                       /\ j = i => rems'[j].state = "archived"
  BY <1>1, <1>3, <1>4, HideFacts
<1>6. Cur.row = c /\ Cur'.row = d
  BY <1>2, <1>4, <1>5, Zenon DEF Cur
<1>7. \A l \in Key : c[l] # 0 => c[l] \in Id /\ IsFor(c[l], l)
  BY <1>2, <1>4 DEF Fits, SyncFits, RowsFit
<1>8. \A l \in Key : d[l] = IF c[l] = i THEN 0 ELSE c[l]
  BY <1>5
<1> SUFFICES ASSUME crashes = 0
             PROVE  /\ \A l \in Key : d[l] # 0 => rems'[d[l]].state # "archived"
                    /\ Active("item")' \subseteq {d[Item]}
                    /\ Active("resource")' \subseteq {d[Resource]}
                    /\ \A j \in Active("item")' : d[Resource] # 0 /\ d[Resource] \in rems'[j].uses
  BY <1>2, <1>6 DEF RowsAgree, Key, Item, Resource
<1>9. /\ \A l \in Key : c[l] # 0 => rems[c[l]].state # "archived"
      /\ Active("item") \subseteq {c[Item]}
      /\ Active("resource") \subseteq {c[Resource]}
      /\ \A j \in Active("item") : c[Resource] # 0 /\ c[Resource] \in rems[j].uses
  BY <1>2, <1>6 DEF RowsAgree
<1>10. \A type : \A j \in Active(type)' : j \in Active(type) /\ j # i /\ j \in Id
  BY <1>5 DEF Active
<1>11. Item \in Key /\ Resource \in Key
  BY KeyFacts
<1>12. \A l \in Key : d[l] # 0 => rems'[d[l]].state # "archived"
  BY <1>5, <1>7, <1>8, <1>9
<1>13. Active("item")' \subseteq {d[Item]} /\ Active("resource")' \subseteq {d[Resource]}
  BY <1>8, <1>9, <1>10, <1>11
<1>14. ASSUME NEW j \in Active("item")' PROVE d[Resource] # 0 /\ d[Resource] \in rems'[j].uses
  <2>1. j \in Active("item") /\ j \in Id /\ c[Resource] # 0 /\ c[Resource] \in rems[j].uses
    BY <1>9, <1>10
  <2>2. rems[c[Resource]].type = "resource"
    BY <1>7, <1>11, <2>1, KeyFacts DEF IsFor
  <2>3. c[Resource] # i
    BY <1>2, <1>3, <2>1, <2>2 DEF InUse
  <2> QED BY <1>5, <1>8, <1>11, <2>1, <2>3
<1> QED BY <1>12, <1>13, <1>14

LEMMA AgreementStep ==
    ASSUME Fits, RowsAgree, [SyncNext]_syncVars
    PROVE  RowsAgree'
<1>1. SyncTypeOK /\ EntitiesFit /\ RowsFit(db) /\ SyncFits /\ RowsFit(Cur)
  BY CurFacts DEF Fits
<1>2. ASSUME rems' = rems, crashes' = crashes, Cur'.row = Cur.row PROVE RowsAgree'
  <2>1. Id' = Id
    BY <1>2 DEF Id
  <2> QED BY <1>1, <1>2, <2>1, AgreementStays
<1>3. CASE Waits \/ ReferenceDataChanges
  <2>1. sync' = sync /\ db' = db /\ rems' = rems /\ crashes' = crashes
    BY <1>3 DEF Waits, ReferenceDataChanges
  <2> QED BY <1>2, <2>1 DEF Cur
<1>4. CASE \E w \in Want, publish \in BOOLEAN : Starts(w, publish)
  <2>1. PICK w \in Want, publish \in BOOLEAN : Starts(w, publish)
    BY <1>4
  <2>2. sync = None /\ sync' # None /\ sync'.db.row = db.row
    BY <1>1, <2>1, StartFacts DEF Starts
  <2> QED BY <1>2, <2>1, <2>2 DEF Starts, Cur
<1>5. CASE Plan
  <2>1. sync # None /\ sync.todo # << >> /\ rems' = rems /\ crashes' = crashes
        /\ \E more \in Seq(Op) : Put(more)
    BY <1>1, <1>5, PlanFacts
  <2>2. sync' # None /\ sync'.db = sync.db
    BY <1>1, <2>1, PutFacts
  <2> QED BY <1>2, <2>1, <2>2 DEF Cur
<1>6. CASE ForgetUnused
  <2>1. sync # None /\ sync' # None /\ sync'.db.row = sync.db.row
    BY <1>1, <1>6, ForgetFacts DEF ForgetUnused, Doing
  <2> QED BY <1>2, <1>6, <2>1 DEF ForgetUnused, Cur
<1>7. CASE Disable
  <2>1. sync # None /\ sync' # None /\ sync'.db = sync.db /\ crashes' = crashes
    BY <1>1, <1>7, DisableFacts DEF Disable, Doing
  <2>2. /\ Id' = Id
        /\ \A j \in Id : /\ rems'[j].type = rems[j].type
                         /\ rems'[j].uses = rems[j].uses
                         /\ rems'[j].state = "archived" <=> rems[j].state = "archived"
    BY <1>1, <1>7, DisableFacts
  <2>3. Cur'.row = Cur.row
    BY <2>1 DEF Cur
  <2> QED BY <1>1, <2>1, <2>2, <2>3, AgreementStays
<1>8. CASE Closes
  <2>1. sync # None /\ sync.todo # << >> /\ Put(<< >>) /\ << >> \in Seq(Op)
    BY <1>1, <1>8, ClosesFacts
  <2>2. sync' # None /\ sync'.db = sync.db
    BY <1>1, <2>1, PutFacts, Zenon
  <2> QED BY <1>2, <1>8, <2>1, <2>2 DEF Closes, Cur
<1>9. CASE GivesUp
  <2>1. sync # None /\ sync' # None /\ sync'.db.row = sync.db.row
    BY <1>1, <1>9, GiveUpFacts DEF GivesUp
  <2> QED BY <1>2, <1>9, <2>1 DEF GivesUp, Cur
<1>10. CASE Commit
  BY <1>1, <1>2, <1>10, CommitFacts DEF Commit, Cur
<1>11. CASE RollBack
  <2>1. crashes' # 0
    BY <1>1, <1>11, BoundsAreNumbers DEF RollBack, SyncTypeOK
  <2> QED BY <2>1 DEF RowsAgree
<1> QED BY <1>1, <1>3, <1>4, <1>5, <1>6, <1>7, <1>8, <1>9, <1>10, <1>11, StepCases,
           CreateAgrees, HideAgrees

LEMMA AgreementInit ==
    ASSUME SyncInit
    PROVE  RowsAgree
<1>1. rems = << >> /\ sync = None /\ \A k \in Key : db.row[k] = 0
  BY DEF SyncInit
<1>2. \A type : Active(type) = {}
  BY <1>1 DEF Active, Id
<1> QED BY <1>1, <1>2 DEF RowsAgree, Cur

LEMMA ListedFacts ==
    ASSUME Fits, RowsAgree
    PROVE  FailedRemovalIsListed
<1> SUFFICES ASSUME sync = None, crashes = 0, NEW j \in Active("item") \cup Active("resource")
             PROVE  db.row[Resource] # 0
  BY DEF FailedRemovalIsListed
<1>1. Cur = db /\ j # 0
  BY RemsFacts, ActiveFacts DEF Cur, Fits
<1> QED BY <1>1 DEF RowsAgree

\* Rows and REMS agree at any point of any sync, so a dataset whose removal failed
\* is found by the command.
THEOREM SyncRowsAgree == SyncSpec => []FailedRemovalIsListed
<1>1. SyncInit => Fits /\ RowsAgree
  BY FitsInit, AgreementInit
<1>2. Fits /\ RowsAgree /\ [SyncNext]_syncVars => Fits' /\ RowsAgree'
  BY FitsStep, AgreementStep
<1>3. Fits /\ RowsAgree => FailedRemovalIsListed
  BY ListedFacts
<1> QED BY <1>1, <1>2, <1>3, PTL DEF SyncSpec

-----------------------------------------------------------------------------
(* What is published is offered. *)

\* A disabled entity is archived next, unless REMS may fail to do so.
LEMMA HalfArchivedStep ==
    ASSUME "hide" \notin MayFail, Fits, HalfArchived, [SyncNext]_syncVars
    PROVE  HalfArchived'
<1>1. SyncTypeOK /\ EntitiesFit /\ RowsFit(db) /\ SyncFits
  BY DEF Fits
<1>2. ASSUME crashes' = crashes, label' = 1 => label = 1, Id' = Id,
             \A i \in Id : rems'[i].state = "disabled" => rems[i].state = "disabled",
             sync = None \/ sync.todo = << >> \/ sync.todo[1][1] # "hide"
      PROVE  HalfArchived'
  <2>1. crashes = 0 /\ label = 1 => \A i \in Id : rems[i].state # "disabled"
    <3>1. \A i : << "hide", i >>[1] = "hide"
      OBVIOUS
    <3> QED BY <1>2, <3>1 DEF HalfArchived
  <2> QED BY <1>2, <2>1 DEF HalfArchived
<1>3. rems' = rems => Id' = Id
  BY DEF Id
<1>4. CASE Waits
  BY <1>3, <1>4 DEF Waits, HalfArchived
<1>5. CASE ReferenceDataChanges
  BY <1>5 DEF ReferenceDataChanges, HalfArchived
<1>6. CASE \E w \in Want, publish \in BOOLEAN : Starts(w, publish)
  BY <1>2, <1>3, <1>6 DEF Starts
<1>7. CASE Plan
  <2>1. UNCHANGED << db, rems, label, apps, listed, changes, failures, crashes >>
    BY <1>1, <1>7, PlanFacts
  <2>2. sync.todo[1][1] # "hide"
    BY <1>7 DEF Plan, Phase, Doing
  <2> QED BY <1>2, <1>3, <2>1, <2>2
<1>8. CASE ForgetUnused
  <2>1. sync.todo[1][1] # "hide"
    BY <1>8 DEF ForgetUnused, Doing
  <2> QED BY <1>2, <1>3, <1>8, <2>1 DEF ForgetUnused
<1>9. CASE Create
  <2>1. sync.todo[1][1] # "hide"
    BY <1>9 DEF Create, Doing
  <2>2. crashes = 0 /\ label = 1 => \A i \in Id : rems[i].state # "disabled"
    <3>1. \A i : << "hide", i >>[1] = "hide"
      OBVIOUS
    <3> QED BY <2>1, <3>1 DEF HalfArchived
  <2>3. PICK n : n = NewId
    OBVIOUS
  <2>4. /\ Id' = Id \cup {n} /\ \A i \in Id : rems'[i] = rems[i]
        /\ rems'[n] = Wanted(Arg)
    BY <1>1, <1>9, <2>3, CreateFacts
  <2>5. Wanted(Arg).state = "active"
    BY <1>1, <1>9, CreatingFacts, WantedFacts
  <2>6. \A i \in Id' : i \in Id \/ i = n
    BY <2>4
  <2> QED BY <1>9, <2>2, <2>4, <2>5, <2>6, Zenon DEF HalfArchived, Create
<1>10. CASE Disable
  <2>1. PICK s : s = sync.todo
    OBVIOUS
  <2>2. /\ s \in Seq(Op) /\ s # << >> /\ s[1] = << "disable", Arg >> /\ sync # None /\ Paired(s)
    BY <1>1, <1>10, <2>1, ArgFacts DEF Disable, SyncFits, ListFits
  <2>3. s[1][1] = "disable" /\ s[1][2] = Arg
    BY <2>2
  <2>4. 1 \in DOMAIN s /\ DOMAIN s = 1 .. Len(s) /\ Len(s) \in Nat
    BY <2>2, ListFacts
  <2>5. 1 + 1 \in DOMAIN s /\ s[1 + 1] = << "hide", Arg >>
    BY <2>2, <2>3, <2>4 DEF Paired
  <2>6. PICK t : t = Tail(s)
    BY Zenon
  <2>7. 1 \in DOMAIN t /\ t[1] = << "hide", Arg >>
    <3>1. DOMAIN t = 1 .. (Len(s) - 1) /\ \A n \in DOMAIN t : t[n] = s[n + 1]
      BY <2>2, <2>6, TailFacts
    <3> QED BY <2>4, <2>5, <3>1
  <2>8. t # << >>
    BY <2>7
  <2>9. /\ sync' # None /\ sync'.todo = t /\ Id' = Id
        /\ \A j \in Id : rems'[j].state = "disabled" => rems[j].state = "disabled" \/ j = Arg
    BY <1>1, <1>10, <2>1, <2>6, DisableFacts
  <2>10. crashes = 0 /\ label = 1 => \A i \in Id : rems[i].state # "disabled"
    <3>1. \A i : << "hide", i >>[1] = "hide"
      OBVIOUS
    <3> QED BY <2>1, <2>3, <3>1, Zenon DEF HalfArchived
  <2> QED BY <1>10, <2>7, <2>8, <2>9, <2>10 DEF HalfArchived, Disable
<1>11. CASE Hides
  <2>1. PICK i : i = Arg
    OBVIOUS
  <2>2. sync.todo[1] = << "hide", i >>
    BY <1>1, <1>11, <2>1, ArgFacts DEF Hides
  <2>3. crashes = 0 /\ label = 1 => \A j \in Id : rems[j].state = "disabled" => j = i
    <3>1. \A j : << "hide", j >> = << "hide", i >> => j = i
      OBVIOUS
    <3> QED BY <2>2, <3>1 DEF HalfArchived
  <2>4. /\ Id' = Id
        /\ \A j \in Id : /\ j # i => rems'[j].state = rems[j].state
                         /\ j = i => rems'[j].state = "archived"
    BY <1>1, <1>11, <2>1, HideFacts
  <2> QED BY <1>11, <2>3, <2>4, Zenon DEF HalfArchived, Hides, Hide
<1>12. CASE Closes
  <2>1. sync.todo[1][1] # "hide"
    BY <1>12 DEF Closes, Doing
  <2> QED BY <1>2, <1>3, <1>12, <2>1 DEF Closes
<1>13. CASE GivesUp
  <2>1. CASE label = 1
    <3>1. NeverInUse
      BY NothingInUse
    <3>2. sync.todo[1][1] # "hide"
      BY <1>13, <2>1, <3>1 DEF GivesUp, NeverInUse, Doing
    <3> QED BY <1>2, <1>3, <1>13, <3>2 DEF GivesUp
  <2>2. CASE label # 1
    BY <1>13, <2>2 DEF GivesUp, HalfArchived
  <2> QED BY <2>1, <2>2
<1>14. CASE Commit
  BY <1>2, <1>3, <1>14 DEF Commit
<1>15. CASE RollBack
  <2>1. crashes' # 0
    BY <1>1, <1>15, BoundsAreNumbers DEF RollBack, SyncTypeOK
  <2> QED BY <2>1 DEF HalfArchived
<1> QED BY <1>1, <1>4, <1>5, <1>6, <1>7, <1>8, <1>9, <1>10, <1>11, <1>12, <1>13, <1>14, <1>15,
           StepCases

\* What a sync is for.
LEMMA PurposeStep ==
    ASSUME Fits, PublishesForRems, [SyncNext]_syncVars
    PROVE  PublishesForRems'
<1>1. SyncTypeOK /\ EntitiesFit /\ RowsFit(db) /\ SyncFits
  BY DEF Fits
<1>2. ASSUME sync # None,
             sync' # None => /\ sync'.publish = sync.publish /\ sync'.kept = sync.kept
                             /\ sync'.db.want = sync.db.want
      PROVE  PublishesForRems'
  BY <1>2 DEF PublishesForRems, IsRems
<1>3. CASE Waits \/ ReferenceDataChanges
  BY <1>3 DEF Waits, ReferenceDataChanges, PublishesForRems, IsRems
<1>4. CASE \E w \in Want, publish \in BOOLEAN : Starts(w, publish)
  <2>1. PICK w \in Want, publish \in BOOLEAN : Starts(w, publish)
    BY <1>4
  <2>2. /\ sync'.publish = publish /\ sync'.db.want = w
        /\ "stale" \notin Kinds => /\ publish = IsRems(w)
                                   /\ sync'.kept = [want |-> w, error |-> FALSE]
    BY <1>1, <2>1, StartFacts, Zenon
  <2> QED BY <2>2 DEF PublishesForRems, IsRems
<1>5. CASE Plan
  <2>1. sync # None /\ sync.todo # << >> /\ \E more \in Seq(Op) : Put(more)
    BY <1>1, <1>5, PlanFacts
  <2> QED BY <1>1, <1>2, <2>1, PutFacts
<1>6. CASE ForgetUnused
  BY <1>1, <1>2, <1>6, ForgetFacts DEF ForgetUnused, Doing
<1>7. CASE Create
  BY <1>1, <1>2, <1>7, CreateFacts DEF Create, Doing
<1>8. CASE Disable
  BY <1>1, <1>2, <1>8, DisableFacts DEF Disable, Doing
<1>9. CASE Hides
  BY <1>1, <1>2, <1>9, HideFacts DEF Hides, Doing
<1>10. CASE Closes
  <2>1. sync # None /\ sync.todo # << >> /\ Put(<< >>) /\ << >> \in Seq(Op)
    BY <1>1, <1>10, ClosesFacts
  <2> QED BY <1>1, <1>2, <2>1, PutFacts, Zenon
<1>11. CASE GivesUp
  BY <1>1, <1>2, <1>11, GiveUpFacts DEF GivesUp
<1>12. CASE Commit \/ RollBack
  BY <1>12 DEF Commit, RollBack, PublishesForRems
<1> QED BY <1>1, <1>3, <1>4, <1>5, <1>6, <1>7, <1>8, <1>9, <1>10, <1>11, <1>12, StepCases

\* When a sync is done all that the dataset needs has been made.
LEMMA MadeAtCommit ==
    ASSUME "stale" \notin Kinds, Fits, PublishesForRems, sync # None, sync.todo = << >>,
           ~sync.db.error, IsRems(sync.db.want), NEW d, d = sync.db
    PROVE  RowsMade(d)
<1>1. SyncTypeOK /\ RowsFit(sync.db) /\ IsMade /\ sync.publish
  BY DEF Fits, SyncFits, PublishesForRems
<1>2. \A k : ~Soon(sync.todo, k)
  BY DEF Soon, Pending
<1>3. \A k \in Needed(sync.db.want) : /\ k \in Key
                                      /\ Row(k) # 0
                                      /\ rems[Row(k)].uses = Wanted(k).uses
                                      /\ k # Reference => rems[Row(k)].what = Wanted(k).what
  BY <1>1, <1>2, NeededFacts DEF IsMade
<1>4. \A k : d.row[k] = Row(k) /\ d.want = sync.db.want
  BY DEF Row
<1> SUFFICES ASSUME NEW k \in Needed(d.want)
             PROVE  /\ d.row[k] # 0
                    /\ k = Terms => rems[d.row[k]].what = << "terms", d.want.terms >>
                    /\ k = Resource =>
                          rems[d.row[k]].uses =
                              {d.row[Reference]}
                                \cup (IF d.want.terms = 0 THEN {} ELSE {d.row[Terms]})
                    /\ k = Item =>
                          rems[d.row[k]].uses =
                              {d.row[Resource], d.row[Workflow(d.want)]}
                              \cup (IF d.want.manual THEN {d.row[Form]} ELSE {})
  BY Zenon DEF RowsMade
<1>5. k \in Key /\ Row(k) # 0 /\ d.row[k] = Row(k)
  BY <1>3, <1>4
<1>6. k = Terms => rems[d.row[k]].what = << "terms", d.want.terms >>
  BY <1>1, <1>3, <1>4, WantedFacts, KeyFacts
<1>7. k = Resource => rems[d.row[k]].uses = Licenses
  BY <1>1, <1>3, <1>4, <1>5, WantedFacts, KeyFacts
<1>8. Licenses = {d.row[Reference]} \cup (IF d.want.terms = 0 THEN {} ELSE {d.row[Terms]})
  BY <1>1, <1>4 DEF Licenses
<1>9. k = Item => rems[d.row[k]].uses = {d.row[Resource], d.row[Workflow(d.want)]}
                              \cup (IF d.want.manual THEN {d.row[Form]} ELSE {})
  BY <1>1, <1>3, <1>4, <1>5, WantedFacts, KeyFacts
<1> QED BY <1>5, <1>6, <1>7, <1>8, <1>9

LEMMA PublishedStep ==
    ASSUME "stale" \notin Kinds, Fits, PublishesForRems, PublishedIsMade, [SyncNext]_syncVars
    PROVE  PublishedIsMade'
<1>1. SyncTypeOK /\ EntitiesFit /\ RowsFit(db) /\ SyncFits
  BY DEF Fits
<1>2. /\ Id \subseteq Id'
      /\ \A i \in Id : rems'[i].what = rems[i].what /\ rems'[i].uses = rems[i].uses
  BY EntitiesLast
<1>3. ASSUME NEW d, RowsFit(d), d.want \in Want, RowsMade(d) PROVE RowsMade(d)'
  <2>1. Needed(d.want)' = Needed(d.want) /\ Needed(d.want) \subseteq Key
    BY <1>3, KeyFacts DEF Needed
  <2>2. \A k \in Key : d.row[k] # 0 => d.row[k] \in Id
    BY <1>3 DEF RowsFit
  <2> QED BY <1>2, <1>3, <2>1, <2>2, Zenon
             DEF RowsMade, Terms, Reference, Resource, Form, Item, Workflow
<1>4. CASE Commit
  <2>1. PICK d : d = sync.db
    OBVIOUS
  <2>2. d.want \in Want /\ RowsFit(d) /\ db' = d
    BY <1>1, <1>4, <2>1, SyncFacts, CommitFacts DEF Commit, SyncFits, PublishesForRems
  <2>3. IsRems(d.want) /\ ~d.error => RowsMade(d)
    BY <1>4, <2>1, MadeAtCommit DEF Commit
  <2>4. IsRems(d.want) /\ ~d.error => RowsMade(d)'
    BY <1>3, <2>2, <2>3
  <2> QED BY <2>2, <2>4, Zenon DEF PublishedIsMade, RowsMade, IsRems
<1>5. CASE db' = db
  <2>1. PICK d : d = db
    OBVIOUS
  <2>2. d.want \in Want /\ RowsFit(d)
    BY <1>1, <2>1 DEF SyncTypeOK, DB
  <2>3. IsRems(d.want) /\ ~d.error => RowsMade(d)
    BY <2>1 DEF PublishedIsMade
  <2>4. IsRems(d.want) /\ ~d.error => RowsMade(d)'
    BY <1>3, <2>2, <2>3
  <2>5. db' = d
    BY <1>5, <2>1
  <2> QED BY <2>4, <2>5, Zenon DEF PublishedIsMade, RowsMade, IsRems
<1>6. Commit \/ db' = db
  <2>1. CASE Plan
    BY <1>1, <2>1, PlanFacts
  <2>2. CASE \E w \in Want, publish \in BOOLEAN : Starts(w, publish)
    BY <2>2 DEF Starts
  <2> QED BY <1>1, <2>1, <2>2, StepCases
          DEF Waits, ReferenceDataChanges, ForgetUnused, Create, Disable, Hides, Hide, Closes,
            GivesUp, RollBack
<1> QED BY <1>4, <1>5, <1>6

LEMMA OfferedFacts ==
    ASSUME Fits, RowsAgree, HalfArchived, PublishedIsMade
    PROVE  PublishedIsOffered
<1> SUFFICES ASSUME sync = None, IsRems(db.want), ~db.error, label = 1, crashes = 0
             PROVE  Offered
  BY DEF PublishedIsOffered
<1>1. SyncTypeOK /\ EntitiesFit /\ RowsFit(db) /\ db.want \in Want
  BY DEF Fits, SyncTypeOK, DB
<1>2. PICK r, w : r = db.row /\ w = db.want
  OBVIOUS
<1>3. Needed(w) \subseteq Key
  BY <1>1, <1>2, KeyFacts DEF Needed
<1>4. \A k \in Needed(w) : r[k] \in Id /\ IsFor(r[k], k) /\ rems[r[k]].state = "active"
  <2> SUFFICES ASSUME NEW k \in Needed(w)
               PROVE  r[k] \in Id /\ IsFor(r[k], k) /\ rems[r[k]].state = "active"
    OBVIOUS
  <2>1. r[k] # 0 /\ k \in Key
    BY <1>2, <1>3 DEF PublishedIsMade, RowsMade
  <2>2. r[k] \in Id /\ IsFor(r[k], k)
    BY <1>1, <1>2, <2>1 DEF RowsFit
  <2>3. rems[r[k]].state # "archived"
    BY <1>2, <2>1 DEF RowsAgree, Cur
  <2>4. rems[r[k]].state # "disabled"
    BY <2>2 DEF HalfArchived
  <2>5. rems[r[k]].state \in {"active", "disabled", "archived"}
    BY <1>1, <2>2, RemsFacts DEF Entity, Made
  <2> QED BY <2>2, <2>3, <2>4, <2>5
<1>5. {Item, Resource, Reference, Workflow(w)} \subseteq Needed(w)
      /\ (w.terms # 0 => Terms \in Needed(w))
  BY DEF Needed
<1>6. rems[r[Item]].type = "item" /\ rems[r[Resource]].type = "resource"
  BY <1>4, <1>5, KeyFacts DEF IsFor
<1>7. Active("item") = {r[Item]} /\ Active("resource") = {r[Resource]}
  <2>1. Active("item") \subseteq {r[Item]} /\ Active("resource") \subseteq {r[Resource]}
    BY <1>2 DEF RowsAgree, Cur
  <2>2. r[Item] \in Active("item") /\ r[Resource] \in Active("resource")
    BY <1>4, <1>5, <1>6 DEF Active
  <2> QED BY <2>1, <2>2
<1>8. {r[Resource], r[Workflow(w)]} \subseteq rems[r[Item]].uses
  BY <1>2, <1>5, Zenon DEF PublishedIsMade, RowsMade
<1>9. rems[r[Resource]].uses = {r[Reference]} \cup (IF w.terms = 0 THEN {} ELSE {r[Terms]})
  BY <1>2, <1>5 DEF PublishedIsMade, RowsMade
<1>10. rems[r[Reference]].what = << "reference", 1 >>
  <2>1. IsReference(r[Reference])
    BY <1>4, <1>5, KeyFacts DEF IsFor
  <2> QED BY <1>1, <1>4, <1>5, <2>1 DEF EntitiesFit
<1>11. w.terms # 0 => rems[r[Terms]].what = << "terms", w.terms >>
  BY <1>2, <1>5 DEF PublishedIsMade, RowsMade
<1>12. TextsOf(rems[r[Resource]].uses) = {<< "reference", 1 >>}
       \cup {<< "terms", t >> : t \in {w.terms} \ {0}}
  <2>1. CASE w.terms = 0
    BY <1>9, <1>10, <2>1 DEF TextsOf
  <2>2. CASE w.terms # 0
    <3>1. rems[r[Resource]].uses = {r[Reference], r[Terms]}
      BY <1>9, <2>2
    <3>2. TextsOf(rems[r[Resource]].uses) = {rems[r[Reference]].what, rems[r[Terms]].what}
      BY <3>1 DEF TextsOf
    <3> QED BY <1>10, <1>11, <2>2, <3>2, Zenon
  <2> QED BY <2>1, <2>2
<1>13. \A l \in rems[r[Resource]].uses : rems[l].state = "active"
  BY <1>4, <1>5, <1>9
<1>14. rems[r[Item]].state = "active"
  BY <1>4, <1>5
<1> QED BY <1>2, <1>7, <1>8, <1>12, <1>13, <1>14 DEF Offered

LEMMA OfferInit ==
    ASSUME SyncInit
    PROVE  HalfArchived /\ PublishedIsMade /\ PublishesForRems
<1>1. rems = << >> /\ sync = None /\ ~IsRems(db.want)
  BY DEF SyncInit, IsRems
<1>2. Id = {}
  BY <1>1 DEF Id
<1> QED BY <1>1, <1>2 DEF HalfArchived, PublishedIsMade, PublishesForRems

\* A dataset whose last sync succeeded is offered as the dataset says, whatever
\* failed before, if REMS does not fail between disabling an entity and archiving it
\* and no dataset changes between the listing of the command and its sync.
THEOREM SyncOffers ==
    ASSUME "hide" \notin MayFail, "stale" \notin Kinds
    PROVE  SyncSpec => []PublishedIsOffered
<1> DEFINE I == Fits /\ RowsAgree /\ HalfArchived /\ PublishesForRems /\ PublishedIsMade
<1>1. SyncInit => I
  BY FitsInit, AgreementInit, OfferInit
<1>2. I /\ [SyncNext]_syncVars => I'
  BY FitsStep, AgreementStep, HalfArchivedStep, PurposeStep, PublishedStep
<1>3. I => PublishedIsOffered
  BY OfferedFacts
<1> QED BY <1>1, <1>2, <1>3, PTL DEF SyncSpec

-----------------------------------------------------------------------------
(* What is not for REMS is not there. *)

\* What the first operation is about goes with it, and what else was left to do
\* is left.
LEMMA UnpublishesStays ==
    ASSUME Unpublishes, crashes' = crashes, sync # None, NEW s, s = sync.todo, NEW t,
           sync'.todo = t,
           sync'.publish = sync.publish, sync'.db.error = sync.db.error,
           \A type : Active(type)' \subseteq Active(type),
           \A a \in Applicant : IsOpen(a)' => IsOpen(a),
           \A x \in Pending(s) : x = s[1] \/ x \in Pending(t),
           \A type \in {"item", "resource"} : s[1] = << "archiveAll", type >> =>
               \A j \in Active(type) : Leaving(t, j),
           \A type \in {"item", "resource"} : \A j \in Active(type)' :
               s[1] \in {<< "archive", j >>, << "hide", j >>} => Leaving(t, j),
           s[1] = << "closeAll", 0 >> =>
             \A a \in Applicant : IsOpen(a) => << "close", a >> \in Pending(t),
           \A a \in Applicant : s[1] = << "close", a >> => ~IsOpen(a)'
    PROVE  Unpublishes'
<1> SUFFICES ASSUME crashes = 0, ~sync.publish, ~sync.db.error
             PROVE  TakesAway(t)' /\ ClosesOpen(t)'
  BY DEF Unpublishes, TakesAway, ClosesOpen
<1>1. TakesAway(s) /\ ClosesOpen(s)
  BY DEF Unpublishes
<1>2. ASSUME NEW type \in {"item", "resource"}, << "archiveAll", type >> \notin Pending(t),
             NEW j \in Active(type)'
      PROVE  Leaving(t, j)
  <2>1. j \in Active(type)
    BY <1>2
  <2>2. CASE s[1] = << "archiveAll", type >>
    BY <2>1, <2>2
  <2>3. CASE s[1] # << "archiveAll", type >>
    <3>1. Leaving(s, j)
      BY <1>1, <1>2, <2>1, <2>3 DEF TakesAway
    <3>2. CASE s[1] \in {<< "archive", j >>, << "hide", j >>}
      BY <1>2, <3>2
    <3>3. CASE s[1] \notin {<< "archive", j >>, << "hide", j >>}
      BY <3>1, <3>3 DEF Leaving
    <3> QED BY <3>2, <3>3
  <2> QED BY <2>2, <2>3
<1>3. ASSUME << "closeAll", 0 >> \notin Pending(t), NEW a \in Applicant, IsOpen(a)'
      PROVE  << "close", a >> \in Pending(t)
  <2>1. IsOpen(a) /\ s[1] # << "close", a >>
    BY <1>3
  <2>2. CASE s[1] = << "closeAll", 0 >>
    BY <2>1, <2>2
  <2>3. CASE s[1] # << "closeAll", 0 >>
    BY <1>1, <1>3, <2>1, <2>3 DEF ClosesOpen
  <2> QED BY <2>2, <2>3
<1>4. TakesAway(t)'
  BY <1>2 DEF TakesAway, Leaving, Pending
<1>5. ClosesOpen(t)'
  BY <1>3 DEF ClosesOpen, Pending
<1> QED BY <1>4, <1>5

\* A sync that has nothing to take away finds nothing, and none open.
LEMMA NothingToHide ==
    ASSUME Fits, RowsAgree, PublishedIsMade, UnpublishedIsHidden,
           sync = None, db.row[Resource] = 0, ~db.error, crashes = 0
    PROVE  Hidden /\ \A a \in Applicant : ~IsOpen(a)
<1>1. ~IsRems(db.want)
  <2>1. Resource \in Needed(db.want)
    BY DEF Needed
  <2> QED BY <2>1 DEF PublishedIsMade, RowsMade
<1> QED BY <1>1 DEF UnpublishedIsHidden

LEMMA StartUnpublishes ==
    ASSUME "stale" \notin Kinds, Fits, RowsAgree, PublishedIsMade, UnpublishedIsHidden,
           NEW w \in Want, NEW publish \in BOOLEAN, Starts(w, publish)
    PROVE  Unpublishes'
<1>1. SyncTypeOK /\ EntitiesFit /\ RowsFit(db)
  BY DEF Fits
<1>2. PICK t : t = sync'.todo
  OBVIOUS
<1>3. /\ sync'.publish = publish
      /\ t = IF ~publish /\ db.row[Resource] = 0 THEN << >> ELSE Todo(w, publish)
      /\ sync'.db.error = (db.error /\ ~publish /\ db.row[Resource] = 0)
      /\ sync = None /\ rems' = rems /\ apps' = apps /\ crashes' = crashes
  BY <1>1, <1>2, StartFacts DEF Starts
<1> SUFFICES ASSUME crashes = 0, ~publish, ~sync'.db.error
             PROVE  TakesAway(t)' /\ ClosesOpen(t)'
  BY <1>2, <1>3 DEF Unpublishes, TakesAway, ClosesOpen
<1>4. CASE db.row[Resource] = 0
  <2>1. Hidden /\ \A a \in Applicant : ~IsOpen(a)
    BY <1>3, <1>4, NothingToHide, Zenon
  <2>2. Active("item")' = {} /\ Active("resource")' = {}
    BY <1>3, <2>1 DEF Hidden, Active, Id
  <2>3. \A a \in Applicant : ~IsOpen(a)'
    BY <1>3, <2>1 DEF IsOpen
  <2> QED BY <2>2, <2>3 DEF TakesAway, ClosesOpen
<1>5. CASE db.row[Resource] # 0
  <2>1. Pending(t) = FirstOps(w, publish)
    BY <1>3, <1>5, TodoFacts
  <2>2. << "closeAll", 0 >> \in Pending(t)
        /\ \A type \in {"item", "resource"} : << "archiveAll", type >> \in Pending(t)
    BY <2>1 DEF FirstOps
  <2> QED BY <2>2 DEF TakesAway, ClosesOpen, Pending
<1> QED BY <1>4, <1>5

\* The steps of a sync after the first.
LEMMA PlanUnpublishes ==
    ASSUME Fits, Unpublishes, Plan
    PROVE  Unpublishes'
<1>1. SyncTypeOK /\ EntitiesFit /\ SyncFits
  BY DEF Fits
<1>2. /\ sync # None /\ sync.todo \in Seq(Op) /\ sync.todo # << >>
      /\ UNCHANGED << db, rems, label, apps, listed, changes, failures, crashes >>
  BY <1>1, PlanFacts
<1>3. PICK more \in Seq(Op) :
         /\ Put(more) /\ MoreFits(sync.todo, more) /\ sync.todo[1] = << sync.todo[1][1], Arg >>
         /\ \/ /\ Doing("ensure")
               /\ \/ << "create", Arg >> \in Pending(more)
                  \/ MadeAs(Arg)
            \/ Doing("organization") /\ more = CloseIfNewOrg
            \/ Doing("licenses") /\ more = CloseIfNewLicenses
            \/ Doing("unused")
            \/ Doing("archive")
            \/ Doing("archiveAll") /\ Pending(more) = {<< "archive", i >> : i \in Active(Arg)}
            \/ Doing("closeAll") /\ more = CloseAll
  BY <1>1, PlanFacts, Zenon
<1>4. PICK s, t : s = sync.todo /\ t = sync'.todo
  OBVIOUS
<1>5. /\ sync'.publish = sync.publish /\ sync'.db = sync.db /\ t = more \o Tail(s)
      /\ Tail(s) \in Seq(Op) /\ Pending(s) = {s[1]} \cup Pending(Tail(s))
  BY <1>1, <1>2, <1>3, <1>4, PutFacts, TailFacts
<1>6. Pending(t) = Pending(more) \cup Pending(Tail(s))
  BY <1>5, ConcatFacts, Zenon
<1>7. \A type : Active(type)' = Active(type)
  BY <1>2 DEF Active, Id
<1>8. \A a \in Applicant : IsOpen(a)' <=> IsOpen(a)
  BY <1>2 DEF IsOpen
<1>9. s[1] = << s[1][1], Arg >> /\ Doing(s[1][1])
  BY <1>2, <1>3, <1>4 DEF Doing
<1>10. ASSUME NEW type \in {"item", "resource"}, s[1] = << "archiveAll", type >>,
              NEW j \in Active(type)
       PROVE  Leaving(t, j)
  <2>1. s[1][1] = "archiveAll" /\ Arg = type
    BY <1>4, <1>10 DEF Arg
  <2>2. Pending(more) = {<< "archive", i >> : i \in Active(type)}
    BY <1>3, <1>4, <2>1 DEF Doing
  <2>3. << "archive", j >> \in Pending(t)
    BY <1>6, <1>10, <2>2
  <2> QED BY <2>3 DEF Leaving
<1>11. ASSUME NEW j, s[1] \in {<< "archive", j >>, << "hide", j >>}
       PROVE  Leaving(t, j)
  <2>1. s[1] \in Pending(s)
    BY <1>5
  <2>2. Leaving(s, j)
    BY <1>11, <2>1 DEF Leaving
  <2> QED BY <1>2, <1>3, <1>4, <1>5, <2>2, LeavingPut
<1>12. ASSUME s[1] = << "closeAll", 0 >>, NEW a \in Applicant, IsOpen(a)
       PROVE  << "close", a >> \in Pending(t)
  <2>1. s[1][1] = "closeAll"
    BY <1>12
  <2>2. more = CloseAll
    BY <1>3, <1>4, <2>1 DEF Doing
  <2>3. Pending(CloseAll) = {<< "close", b >> : b \in {x \in Applicant : IsOpen(x)}}
    BY <1>1, <2>1, ClosesFit
  <2> QED BY <1>6, <1>12, <2>2, <2>3
<1>13. \A a \in Applicant : s[1] # << "close", a >>
  <2>1. s[1][1] # "close"
    BY <1>3, <1>4 DEF Doing
  <2>2. \A a : << "close", a >>[1] = "close"
    OBVIOUS
  <2> QED BY <2>1, <2>2
<1>14. \A x \in Pending(s) : x = s[1] \/ x \in Pending(t)
  BY <1>5, <1>6
<1>15. \A type \in {"item", "resource"} : s[1] = << "archiveAll", type >>
       => \A j \in Active(type) : Leaving(t, j)
  BY <1>10
<1>16. \A type \in {"item", "resource"} : \A j \in Active(type)' :
          s[1] \in {<< "archive", j >>, << "hide", j >>} => Leaving(t, j)
  BY <1>11
<1>17. s[1] = << "closeAll", 0 >> =>
       \A a \in Applicant : IsOpen(a) => << "close", a >> \in Pending(t)
  BY <1>12
<1>18. /\ crashes' = crashes /\ sync # None /\ sync'.todo = t
       /\ sync'.publish = sync.publish /\ sync'.db.error = sync.db.error
  BY <1>2, <1>4, <1>5
<1>19. /\ \A type : Active(type)' \subseteq Active(type)
       /\ \A a \in Applicant : IsOpen(a)' => IsOpen(a)
       /\ \A a \in Applicant : s[1] = << "close", a >> => ~IsOpen(a)'
  BY <1>7, <1>8, <1>13
<1> QED BY <1>4, <1>14, <1>15, <1>16, <1>17, <1>18, <1>19, UnpublishesStays

LEMMA UnpublishStep ==
    ASSUME "overlap" \notin Kinds, "stale" \notin Kinds, Fits, RowsAgree, PublishedIsMade,
           Unpublishes, UnpublishedIsHidden,
           [SyncNext]_syncVars
    PROVE  Unpublishes'
<1>1. SyncTypeOK /\ EntitiesFit /\ RowsFit(db) /\ SyncFits
  BY DEF Fits
<1>2. PICK s, t : s = sync.todo /\ t = sync'.todo
  OBVIOUS
<1>3. ASSUME sync # None, s \in Seq(Op), s # << >>, t = Tail(s), crashes' = crashes,
             sync'.publish = sync.publish, sync'.db.error = sync.db.error,
             \A type : Active(type)' \subseteq Active(type),
             \A a \in Applicant : IsOpen(a)' => IsOpen(a),
             s[1][1] \notin {"archiveAll", "closeAll", "archive"},
             \A type, j : j \in Active(type)' => s[1] # << "hide", j >>,
             \A a \in Applicant : s[1] = << "close", a >> => ~IsOpen(a)'
      PROVE  Unpublishes'
  <2>1. \A x \in Pending(s) : x = s[1] \/ x \in Pending(t)
    BY <1>3, TailFacts
  <2>2. /\ \A type : s[1] # << "archiveAll", type >>
        /\ \A j : s[1] # << "archive", j >>
        /\ s[1] # << "closeAll", 0 >>
    BY <1>3
  <2> QED BY <1>2, <1>3, <2>1, <2>2, UnpublishesStays, Zenon
<1>4. CASE Waits \/ ReferenceDataChanges
  <2>1. CASE sync = None
    BY <1>4, <2>1 DEF Waits, ReferenceDataChanges, Unpublishes
  <2>2. CASE sync # None
    <3>1. sync' = sync /\ rems' = rems /\ apps' = apps /\ crashes' = crashes
      BY <1>4, <2>2 DEF Waits, ReferenceDataChanges, MayAct
    <3>2. \A type : Active(type)' = Active(type)
      BY <3>1 DEF Active, Id
    <3>3. \A a \in Applicant : IsOpen(a)' <=> IsOpen(a)
      BY <3>1 DEF IsOpen
    <3>4. (TakesAway(s)' <=> TakesAway(s)) /\ (ClosesOpen(s)' <=> ClosesOpen(s))
      BY <3>2, <3>3 DEF TakesAway, ClosesOpen, Leaving, Pending
    <3>5. TakesAway(sync.todo)' <=> TakesAway(s)'
      BY <1>2, <3>1 DEF TakesAway, Leaving, Pending
    <3>6. ClosesOpen(sync.todo)' <=> ClosesOpen(s)'
      BY <1>2, <3>1 DEF ClosesOpen, Pending
    <3> QED BY <1>2, <3>1, <3>4, <3>5, <3>6 DEF Unpublishes
  <2> QED BY <2>1, <2>2
<1>5. CASE \E w \in Want, publish \in BOOLEAN : Starts(w, publish)
  BY <1>5, StartUnpublishes
<1>6. CASE Plan
  BY <1>6, PlanUnpublishes
<1>7. CASE ForgetUnused
  <2>1. /\ sync # None /\ s \in Seq(Op) /\ s # << >> /\ t = Tail(s) /\ s[1][1] = "forget"
        /\ sync'.publish = sync.publish /\ sync'.db.error = sync.db.error
        /\ rems' = rems /\ apps' = apps /\ crashes' = crashes
    BY <1>1, <1>2, <1>7, ForgetFacts, SyncFacts, Zenon DEF ForgetUnused, Doing
  <2>2. \A type : Active(type)' = Active(type)
    BY <2>1 DEF Active, Id
  <2>3. \A a \in Applicant : IsOpen(a)' <=> IsOpen(a)
    BY <2>1 DEF IsOpen
  <2>4. \A x : s[1] # << "hide", x >> /\ s[1] # << "close", x >>
    BY <2>1
  <2> QED BY <1>3, <2>1, <2>2, <2>3, <2>4
<1>8. CASE Create
  <2>1. sync.publish
    BY <1>1, <1>8, CreatingFacts
  <2> QED BY <1>1, <1>8, <2>1, CreateFacts, Zenon DEF Unpublishes
<1>9. CASE Disable
  <2>1. /\ sync # None /\ s \in Seq(Op) /\ s # << >> /\ t = Tail(s) /\ s[1][1] = "disable"
        /\ sync'.publish = sync.publish /\ sync'.db.error = sync.db.error
        /\ apps' = apps /\ crashes' = crashes
    BY <1>1, <1>2, <1>9, DisableFacts, SyncFacts DEF Disable, Doing
  <2>2. \A type : Active(type)' = Active(type)
    BY <1>1, <1>9, DisableFacts, ActiveStays
  <2>3. \A a \in Applicant : IsOpen(a)' <=> IsOpen(a)
    BY <2>1 DEF IsOpen
  <2>4. \A x : s[1] # << "hide", x >> /\ s[1] # << "close", x >>
    BY <2>1
  <2> QED BY <1>3, <2>1, <2>2, <2>3, <2>4
<1>10. CASE Hides
  <2>1. /\ sync # None /\ s \in Seq(Op) /\ s # << >> /\ t = Tail(s) /\ s[1] = << "hide", Arg >>
        /\ sync'.publish = sync.publish /\ sync'.db.error = sync.db.error
        /\ apps' = apps /\ crashes' = crashes
    BY <1>1, <1>2, <1>10, HideFacts, ArgFacts DEF Hides, Hide
  <2>2. \A type : \A j \in Active(type)' : j \in Active(type) /\ j # Arg
    <3>1. PICK i : i = Arg
      OBVIOUS
    <3>2. /\ Id' = Id
          /\ \A j \in Id : /\ rems'[j].type = rems[j].type
                           /\ j # i => rems'[j].state = rems[j].state
                           /\ j = i => rems'[j].state = "archived"
      BY <1>1, <1>10, <3>1, HideFacts
    <3> QED BY <3>1, <3>2 DEF Active
  <2>3. \A a \in Applicant : IsOpen(a)' <=> IsOpen(a)
    BY <2>1 DEF IsOpen
  <2>4. s[1][1] = "hide" /\ \A x : s[1] # << "close", x >> /\ (s[1] = << "hide", x >> => x = Arg)
    BY <2>1
  <2> QED BY <1>3, <2>1, <2>2, <2>3, <2>4
<1>11. CASE Closes
  <2>1. /\ sync # None /\ s \in Seq(Op) /\ s # << >> /\ Put(<< >>) /\ << >> \in Seq(Op)
        /\ s[1] = << "close", Arg >> /\ Arg \in Applicant
    BY <1>1, <1>2, <1>11, ClosesFacts
  <2>2. /\ t = Tail(s) /\ sync'.publish = sync.publish /\ sync'.db = sync.db
        /\ rems' = rems /\ crashes' = crashes
    <3>1. Tail(s) \in Seq(Op) /\ << >> \o Tail(s) = Tail(s)
      BY <2>1, TailFacts
    <3> QED BY <1>1, <1>2, <1>11, <2>1, <3>1, PutFacts, Zenon DEF Closes
  <2>3. \A type : Active(type)' = Active(type)
    BY <2>2 DEF Active, Id
  <2>4. PICK c \in Applicant : c = Arg
    BY <2>1
  <2>5. apps[c] \in Filed /\ apps' = [apps EXCEPT ![c].state = "closed"]
        /\ apps \in [Applicant -> Filed \cup {None}]
    BY <1>1, <1>11, <2>4 DEF Closes, IsOpen, SyncTypeOK
  <2>6. apps'[c].state = "closed" /\ \A a \in Applicant : a # c => apps'[a] = apps[a]
    BY <2>5 DEF Filed
  <2>7. \A a \in Applicant : IsOpen(a)' => IsOpen(a) /\ a # c
    BY <2>6 DEF IsOpen
  <2>8. s[1][1] = "close" /\ \A x : s[1] # << "hide", x >> /\ (s[1] = << "close", x >> => x = c)
    BY <2>1, <2>4
  <2> QED BY <1>3, <2>1, <2>2, <2>3, <2>7, <2>8
<1>12. CASE GivesUp
  BY <1>1, <1>12, GiveUpFacts, Zenon DEF GivesUp, Unpublishes
<1>13. CASE Commit \/ RollBack
  BY <1>13 DEF Commit, RollBack, Unpublishes
<1> QED BY <1>1, <1>4, <1>5, <1>6, <1>7, <1>8, <1>9, <1>10, <1>11, <1>12, <1>13, StepCases

LEMMA UnpublishedStep ==
    ASSUME "overlap" \notin Kinds, "stale" \notin Kinds, Fits, PublishesForRems, Unpublishes,
           UnpublishedIsHidden, [SyncNext]_syncVars
    PROVE  UnpublishedIsHidden'
<1>1. SyncTypeOK /\ EntitiesFit /\ RowsFit(db) /\ SyncFits
  BY DEF Fits
<1>2. CASE Waits
  <2>1. CASE sync # None
    BY <1>2, <2>1 DEF Waits, UnpublishedIsHidden
  <2>2. CASE sync = None
    <3>1. (Hidden' <=> Hidden) /\ (IsRems(db.want)' <=> IsRems(db.want))
      BY <1>2 DEF Waits, Hidden, Active, Id, IsRems
    <3>2. ~IsRems(db.want) => \A a \in Applicant : IsOpen(a)' => IsOpen(a)
      BY <1>2 DEF Waits, IsOpen
    <3> QED BY <1>2, <2>2, <3>1, <3>2 DEF Waits, UnpublishedIsHidden
  <2> QED BY <2>1, <2>2
<1>3. CASE ReferenceDataChanges
  BY <1>3 DEF ReferenceDataChanges, UnpublishedIsHidden, Hidden, Active, Id, IsOpen, IsRems
<1>4. CASE Commit
  <2> SUFFICES ASSUME ~IsRems(sync.db.want), ~sync.db.error, crashes = 0
               PROVE  Hidden' /\ \A a \in Applicant : ~IsOpen(a)'
    <3>1. db' = sync.db
      BY <1>1, <1>4, CommitFacts DEF Commit, PublishesForRems
    <3>2. sync' = None /\ crashes' = crashes
      BY <1>4 DEF Commit
    <3> QED BY <3>1, <3>2, Zenon DEF UnpublishedIsHidden, IsRems
  <2>1. sync # None /\ sync.todo = << >> /\ rems' = rems /\ apps' = apps
    BY <1>4 DEF Commit
  <2>2. ~sync.publish
    BY <2>1 DEF PublishesForRems
  <2>3. Pending(sync.todo) = {} /\ \A i : ~Leaving(sync.todo, i)
    BY <2>1 DEF Pending, Leaving
  <2>4. Active("item") = {} /\ Active("resource") = {} /\ \A a \in Applicant : ~IsOpen(a)
    BY <2>1, <2>2, <2>3, Zenon DEF Unpublishes, TakesAway, ClosesOpen
  <2> QED BY <2>1, <2>4 DEF Hidden, Active, Id, IsOpen
<1>5. CASE RollBack
  <2>1. crashes' # 0
    BY <1>1, <1>5, BoundsAreNumbers DEF RollBack, SyncTypeOK
  <2> QED BY <2>1 DEF UnpublishedIsHidden
<1>6. CASE sync' # None
  BY <1>6 DEF UnpublishedIsHidden
<1>7. Waits \/ ReferenceDataChanges \/ Commit \/ RollBack \/ sync' # None
  <2>1. CASE Plan
    <3>1. sync # None /\ sync.todo # << >> /\ \E more \in Seq(Op) : Put(more)
      BY <1>1, <2>1, PlanFacts
    <3> QED BY <1>1, <3>1, PutFacts
  <2>2. CASE \E w \in Want, publish \in BOOLEAN : Starts(w, publish)
    BY <1>1, <2>2, StartFacts DEF Starts
  <2>3. CASE Closes
    <3>1. sync # None /\ sync.todo # << >> /\ Put(<< >>) /\ << >> \in Seq(Op)
      BY <1>1, <2>3, ClosesFacts
    <3> QED BY <1>1, <3>1, PutFacts, Zenon
  <2>4. CASE ForgetUnused \/ Create \/ Disable \/ Hides
    BY <1>1, <2>4, ForgetFacts, CreateFacts, DisableFacts, HideFacts
  <2>5. CASE GivesUp
    BY <1>1, <2>5, GiveUpFacts DEF GivesUp
  <2> QED BY <1>1, <2>1, <2>2, <2>3, <2>4, <2>5, StepCases
<1> QED BY <1>2, <1>3, <1>4, <1>5, <1>6, <1>7

LEMMA HiddenInit ==
    ASSUME SyncInit
    PROVE  Unpublishes /\ UnpublishedIsHidden
<1>1. rems = << >> /\ sync = None /\ \A a \in Applicant : apps[a] = None
  BY DEF SyncInit
<1>2. Id = {}
  BY <1>1 DEF Id
<1> QED BY <1>1, <1>2 DEF Unpublishes, UnpublishedIsHidden, Hidden, Active, IsOpen

\* What is not for REMS, without an error, is not there and no application is open,
\* whichever calls of earlier syncs failed, as long as nobody applies during a sync
\* and no dataset changes between the listing of the command and its sync.
THEOREM SyncHides ==
    ASSUME "overlap" \notin Kinds, "stale" \notin Kinds
    PROVE  SyncSpec => []UnpublishedIsHidden
<1> DEFINE I == Fits /\ RowsAgree /\ PublishesForRems /\ PublishedIsMade /\ Unpublishes
    /\ UnpublishedIsHidden
<1>1. SyncInit => I
  BY FitsInit, AgreementInit, OfferInit, HiddenInit
<1>2. I /\ [SyncNext]_syncVars => I'
  BY FitsStep, AgreementStep, PurposeStep, PublishedStep, UnpublishStep, UnpublishedStep
<1>3. I => UnpublishedIsHidden
  OBVIOUS
<1> QED BY <1>1, <1>2, <1>3, PTL DEF SyncSpec

-----------------------------------------------------------------------------
(* Which applications are open during a sync, as long as no call failed and nothing *)
(* was rolled back. *)

Clean == failures = 0 /\ crashes = 0

NoDrafts == \A a \in Applicant : apps[a] # None => apps[a].state # "draft"

ResourcesHaveLicenses == \A j \in Id : rems[j].type = "resource" => rems[j].uses # {}

\* The organization of item i.
OrgOf(i) == rems[CHOOSE x \in rems[i].uses : rems[x].type = "workflow"].what[2]

\* Applications are under what the rows d are about.
Covered(d) ==
    \A a \in Applicant : IsOpen(a) =>
        /\ d.row[Item] # 0 /\ d.row[Resource] # 0
        /\ apps[a].licenses = rems[d.row[Resource]].uses
        /\ apps[a].org = OrgOf(d.row[Item])

\* Closing comes first, once for each application, and they are open.
ClosesFirst(s) ==
    /\ \A n, m \in DOMAIN s : n < m /\ s[m][1] = "close" => s[n][1] = "close" /\ s[n] # s[m]
    /\ \A a \in Applicant : << "close", a >> \in Pending(s) => IsOpen(a)

Takes(op, i) == op \in {<< "archive", i >>, << "disable", i >>, << "hide", i >>}

\* When a reference license goes, nothing else does.
ReferenceGoesAlone(s) ==
    \A i \in Id : IsReference(i) /\ (\E x \in Pending(s) : Takes(x, i)) =>
        sync.publish /\ \A j \in Id : j # i => ~Leaving(s, j)

LicensesFollow(s) ==
    sync.publish => \A x \in Pending(s) : ~IsEarly(x) /\ Rank(x) < 5
      => << "licenses", 0 >> \in Pending(s)

ResourceIsOfRow(s) ==
    \A i \in Id : rems[i].type = "resource" /\ Leaving(s, i) /\ Row(Resource) # 0
      => i = Row(Resource)

\* Until the resource has been dealt with, the rows of resource and item are those
\* from before the sync, and the item goes only with the resource.
OldRows(s) ==
    << "ensure", Resource >> \in Pending(s) =>
        /\ Row(Resource) # 0 => rems[Row(Resource)].uses = sync.licenses
        /\ Row(Item) # 0 => OrgOf(Row(Item)) = sync.org
        /\ (\E a \in Applicant : IsOpen(a)) /\ (Row(Item) = 0 \/ Leaving(s, Row(Item))) =>
              Row(Resource) = 0 \/ Leaving(s, Row(Resource))

\* What is open and stays so.
StaysOpen(s) ==
    \A a \in Applicant : IsOpen(a) /\ << "close", a >> \notin Pending(s) =>
        IF sync.publish
        THEN /\ apps[a].org = sync.org
             /\ apps[a].licenses = sync.licenses
             /\ sync.licenses # {}
             /\ << "organization", 0 >> \notin Pending(s) => apps[a].org = sync.db.want.org
             /\ << "licenses", 0 >> \notin Pending(s) => apps[a].licenses = Licenses
        ELSE << "closeAll", 0 >> \in Pending(s)

ListCloses(s) ==
    /\ ClosesFirst(s)
    /\ ReferenceGoesAlone(s)
    /\ LicensesFollow(s)
    /\ ResourceIsOfRow(s)
    /\ OldRows(s)
    /\ StaysOpen(s)

SyncCloses ==
    Clean /\ sync # None => IF sync.db.error THEN Covered(sync.db) ELSE ListCloses(sync.todo)

RestIsCovered == Clean /\ sync = None => Covered(db)

LEMMA EarlyOps ==
    ASSUME NEW x, NEW i
    PROVE  /\ Takes(x, i) => IsEarly(x) /\ x[1] \in {"archive", "disable", "hide"} /\ x[2] = i
           /\ x \in {<< "archive", i >>, << "hide", i >>} => Takes(x, i)
           /\ x[1] = "close" => IsEarly(x) /\ ~Takes(x, i)
           /\ ~IsEarly(<< "licenses", i >>) /\ Rank(<< "licenses", i >>) = 5
           /\ ~IsEarly(<< "ensure", i >>) /\ ~IsEarly(<< "organization", i >>)
                /\ ~IsEarly(<< "closeAll", i >>)
           /\ IsEarly(<< "archive", i >>) /\ IsEarly(<< "hide", i >>) /\ IsEarly(<< "close", i >>)
BY DEF Takes, IsEarly, Rank

LEMMA RankIsNumber ==
    ASSUME NEW x
    PROVE  Rank(x) \in Nat
<1>1. \A k : KeyRank(k) \in Nat
  BY DEF KeyRank
<1> QED BY <1>1 DEF Rank

LEMMA ResourceIsEnsured ==
    /\ << "ensure", Resource >>[1] = "ensure" /\ << "ensure", Resource >>[2] = Resource
    /\ Rank(<< "ensure", Resource >>) = 7
    /\ \A k : Rank(<< "ensure", k >>) = KeyRank(k) /\ Rank(<< "create", k >>) = KeyRank(k)
    /\ KeyRank(Terms) = 3 /\ KeyRank(Reference) = 4 /\ KeyRank(Item) = 9 /\ KeyRank(Resource) = 7
BY KeyFacts DEF Rank, KeyRank

\* What the steps that call nothing add to the list.
MoreCloses(s, more) ==
    /\ s[1][1] \notin {"close", "disable", "hide"}
    /\ (more = CloseAll /\ s[1][1] # "archive") \/ \A x \in Pending(more) : x[1] # "close"
    /\ \A i \in Id, x \in Pending(more) : Takes(x, i) /\ IsReference(i) =>
          sync.publish /\ \A j \in Id : j # i => ~Leaving(s, j) /\ ~Leaving(more, j)
    /\ \A i \in Id : Leaving(more, i) /\ rems[i].type = "resource" /\ Row(Resource) # 0
         => i = Row(Resource)
    /\ << "ensure", Resource >> \in Pending(Tail(s)) /\ Leaving(more, Row(Item)) /\ Row(Item) # 0 =>
          Leaving(s, Row(Item)) \/ Row(Resource) = 0 \/ Leaving(more \o Tail(s), Row(Resource))
    /\ << "ensure", Resource >> \notin Pending(more)
    /\ s[1][1] = "organization" => more = CloseIfNewOrg
    /\ s[1][1] = "licenses" => more = CloseIfNewLicenses
    /\ s[1][1] = "closeAll" => more = CloseAll

\* The list after such a step.
LEMMA PutLists ==
    ASSUME NEW s \in Seq(Op), s # << >>, ListFits(s), ClosesFirst(s),
           NEW more, MoreFits(s, more), MoreCloses(s, more), NEW t, t = more \o Tail(s)
    PROVE  /\ Pending(s) = {s[1]} \cup Pending(Tail(s))
           /\ Pending(t) = Pending(more) \cup Pending(Tail(s))
           /\ \A x \in Pending(s) : x[1] # "close"
           /\ ~IsEarly(s[1]) => \A x \in Pending(Tail(s)) : ~IsEarly(x) /\ Rank(s[1]) < Rank(x)
           /\ \A i \in Id : Leaving(t, i) => Leaving(more, i) \/ Leaving(s, i)
<1>1. more \in Seq(Op) /\ Tail(s) \in Seq(Op)
  BY TailFacts DEF MoreFits
<1>2. Pending(s) = {s[1]} \cup Pending(Tail(s)) /\ Pending(t) = Pending(more) \cup Pending(Tail(s))
  BY <1>1, ConcatFacts, TailFacts, Zenon
<1>3. ASSUME NEW x \in Pending(s)
      PROVE  x[1] # "close"
  <2>1. PICK n \in DOMAIN s : s[n] = x
    BY DEF Pending
  <2>2. 1 \in DOMAIN s /\ s[1][1] # "close" /\ (n = 1 \/ 1 < n)
    BY ListFacts DEF MoreCloses
  <2> QED BY <2>1, <2>2 DEF ClosesFirst
<1>4. ~IsEarly(s[1]) => \A x \in Pending(Tail(s)) : IsFixed(x) /\ Rank(s[1]) < Rank(x)
  BY FirstIsDone, Zenon
<1>5. \A x : IsFixed(x) => ~IsEarly(x)
  BY DEF IsFixed
<1>6. \A i \in Id : Leaving(t, i) => Leaving(more, i) \/ Leaving(s, i)
  BY <1>2 DEF Leaving
<1> QED BY <1>2, <1>3, <1>4, <1>5, <1>6

LEMMA PutCloses ==
    ASSUME Fits, sync # None, NEW s \in Seq(Op), s = sync.todo, s # << >>, ListFits(s),
           ListCloses(s),
           NEW more, MoreFits(s, more), MoreCloses(s, more), NEW t, t = more \o Tail(s)
    PROVE  ListCloses(t)
<1>1. /\ ClosesFirst(s) /\ ReferenceGoesAlone(s) /\ LicensesFollow(s)
      /\ ResourceIsOfRow(s) /\ OldRows(s) /\ StaysOpen(s)
  BY DEF ListCloses
<1>2. /\ Pending(s) = {s[1]} \cup Pending(Tail(s))
           /\ Pending(t) = Pending(more) \cup Pending(Tail(s))
      /\ \A x \in Pending(s) : x[1] # "close"
      /\ ~IsEarly(s[1]) => \A x \in Pending(Tail(s)) : ~IsEarly(x) /\ Rank(s[1]) < Rank(x)
      /\ \A i \in Id : Leaving(t, i) => Leaving(more, i) \/ Leaving(s, i)
  BY <1>1, PutLists, Zenon
<1>3. more \in Seq(Op) /\ Tail(s) \in Seq(Op) /\ SyncTypeOK
  BY TailFacts DEF MoreFits, Fits
<1>4. ClosesFirst(t)
  <2>1. \A n \in DOMAIN Tail(s) : Tail(s)[n][1] # "close"
    BY <1>2 DEF Pending
  <2>2. CASE \A x \in Pending(more) : x[1] # "close"
    <3>1. \A x \in Pending(t) : x[1] # "close"
      BY <1>2, <2>2
    <3>2. \A a : << "close", a >>[1] = "close"
      OBVIOUS
    <3> QED BY <3>1, <3>2, Zenon DEF ClosesFirst, Pending
  <2>3. CASE more = CloseAll /\ s[1][1] # "archive"
    <3>3. /\ Pending(more) = {<< "close", a >> : a \in {x \in Applicant : IsOpen(x)}}
          /\ \A n, m \in DOMAIN more : n # m => more[n] # more[m]
      BY <1>3, <2>3, ClosesFit DEF MoreCloses
    <3>4. ASSUME NEW n \in DOMAIN t, NEW m \in DOMAIN t, n < m, t[m][1] = "close"
          PROVE  t[n][1] = "close" /\ t[n] # t[m]
      <4>1. m \in DOMAIN more /\ t[m] = more[m]
        BY <1>3, <2>1, <3>4, ConcatFacts
      <4>2. n \in DOMAIN more /\ t[n] = more[n]
        <5>1. DOMAIN more = 1 .. Len(more) /\ DOMAIN t = 1 .. Len(t) /\ Len(more) \in Nat
              /\ Len(t) \in Nat
          BY <1>3, ListFacts, ConcatFacts
        <5>2. n \in DOMAIN more
          BY <3>4, <4>1, <5>1
        <5> QED BY <1>3, <5>2, ConcatFacts
      <4>3. more[n] \in Pending(more) /\ more[n] # more[m]
        BY <3>3, <3>4, <4>1, <4>2, <1>3, ListFacts DEF Pending
      <4> QED BY <3>3, <4>1, <4>2, <4>3
    <3>5. ASSUME NEW a \in Applicant, << "close", a >> \in Pending(t)
          PROVE  IsOpen(a)
      <4>1. << "close", a >> \in Pending(more)
        BY <1>2, <3>5
      <4> QED BY <3>3, <4>1
    <3> QED BY <3>4, <3>5, ZenonT(60) DEF ClosesFirst
  <2> QED BY <2>2, <2>3 DEF MoreCloses
<1>5. ReferenceGoesAlone(t)
  <2> SUFFICES ASSUME NEW i \in Id, IsReference(i), NEW x \in Pending(t), Takes(x, i)
               PROVE  sync.publish /\ \A j \in Id : j # i => ~Leaving(t, j)
    BY DEF ReferenceGoesAlone
  <2>1. CASE x \in Pending(more)
    BY <1>2, <2>1 DEF MoreCloses
  <2>2. CASE x \in Pending(Tail(s))
    <3>1. IsEarly(s[1]) /\ x \in Pending(s)
      BY <1>2, <2>2, EarlyOps, Zenon
    <3>2. sync.publish /\ \A j \in Id : j # i => ~Leaving(s, j)
      BY <1>1, <3>1 DEF ReferenceGoesAlone
    <3>3. s[1][1] = "archive"
      BY <3>1 DEF IsEarly, MoreCloses
    <3>4. s[1] \in Op
      BY ListFacts
    <3>5. s[1] = << "archive", s[1][2] >> /\ s[1] \in Pending(s)
      BY <1>2, <3>3, <3>4 DEF Op
    <3>6. s[1][2] \in Id /\ Leaving(s, s[1][2])
      BY <3>3, <3>5, Zenon DEF ListFits, OpsFit, Leaving
    <3>7. << "hide", i >> \in Pending(more)
      BY <3>2, <3>3, <3>6, Zenon DEF MoreFits
    <3> QED BY <1>2, <3>2, <3>7, EarlyOps, Zenon DEF MoreCloses
  <2> QED BY <1>2, <2>1, <2>2
<1>6. LicensesFollow(t)
  <2> SUFFICES ASSUME sync.publish, NEW x \in Pending(t), ~IsEarly(x), Rank(x) < 5
               PROVE  << "licenses", 0 >> \in Pending(t)
    BY DEF LicensesFollow
  <2>1. PICK y \in Pending(s) : ~IsEarly(y) /\ Rank(y) = Rank(x)
        /\ (y = s[1] \/ y \in Pending(Tail(s)))
    <3>1. CASE x \in Pending(more)
      BY <1>2, <3>1 DEF MoreFits
    <3>2. CASE x \in Pending(Tail(s))
      BY <1>2, <3>2
    <3> QED BY <1>2, <3>1, <3>2
  <2>2. << "licenses", 0 >> \in Pending(s)
    BY <1>1, <2>1 DEF LicensesFollow
  <2>3. s[1] # << "licenses", 0 >>
    <3>1. SUFFICES ASSUME s[1] = << "licenses", 0 >>
                   PROVE  FALSE
      OBVIOUS
    <3>2. ~IsEarly(s[1]) /\ Rank(s[1]) = 5
      BY <3>1 DEF IsEarly, Rank
    <3>3. y = s[1] \/ 5 < Rank(y)
      BY <1>2, <2>1, <3>2
    <3> QED BY <2>1, <3>2, <3>3, RankIsNumber
  <2> QED BY <1>2, <2>2, <2>3
<1>7. ResourceIsOfRow(t)
  BY <1>1, <1>2 DEF ResourceIsOfRow, MoreCloses
<1>8. OldRows(t)
  <2> SUFFICES ASSUME << "ensure", Resource >> \in Pending(t)
               PROVE  /\ Row(Resource) # 0 => rems[Row(Resource)].uses = sync.licenses
                      /\ Row(Item) # 0 => OrgOf(Row(Item)) = sync.org
                      /\ (\E a \in Applicant : IsOpen(a))
                           /\ (Row(Item) = 0 \/ Leaving(t, Row(Item))) =>
                            Row(Resource) = 0 \/ Leaving(t, Row(Resource))
    BY DEF OldRows
  <2>1. << "ensure", Resource >> \in Pending(Tail(s))
    BY <1>2 DEF MoreCloses
  <2>2. << "ensure", Resource >> \in Pending(s)
    BY <1>2, <2>1
  <2>3. \A i \in Id : Leaving(s, i) => Leaving(t, i)
    BY LeavingPut
  <2>4. Row(Resource) # 0 => Row(Resource) \in Id
    BY KeyFacts DEF Fits, SyncFits, RowsFit, Row
  <2>5. Row(Item) # 0 => Row(Item) \in Id
    BY KeyFacts DEF Fits, SyncFits, RowsFit, Row
  <2>6. ASSUME \E a \in Applicant : IsOpen(a), Row(Item) = 0 \/ Leaving(t, Row(Item))
        PROVE  Row(Resource) = 0 \/ Leaving(t, Row(Resource))
    <3>1. CASE Row(Item) = 0 \/ Leaving(s, Row(Item))
      BY <1>1, <2>2, <2>3, <2>4, <2>6, <3>1 DEF OldRows
    <3>2. CASE Row(Item) # 0 /\ Leaving(more, Row(Item)) /\ ~Leaving(s, Row(Item))
      BY <2>1, <3>2 DEF MoreCloses
    <3> QED BY <1>2, <2>5, <2>6, <3>1, <3>2
  <2> QED BY <1>1, <2>2, <2>6 DEF OldRows
<1>9. StaysOpen(t)
  <2> SUFFICES ASSUME NEW a \in Applicant, IsOpen(a), << "close", a >> \notin Pending(t)
               PROVE  IF sync.publish
                      THEN /\ apps[a].org = sync.org
                           /\ apps[a].licenses = sync.licenses
                           /\ sync.licenses # {}
                           /\ << "organization", 0 >> \notin Pending(t)
                                => apps[a].org = sync.db.want.org
                           /\ << "licenses", 0 >> \notin Pending(t) => apps[a].licenses = Licenses
                      ELSE << "closeAll", 0 >> \in Pending(t)
    BY DEF StaysOpen
  <2>1. << "close", a >> \notin Pending(s)
    BY <1>2
  <2>2. more # CloseAll
    <3>1. SUFFICES ASSUME more = CloseAll
                   PROVE  FALSE
      OBVIOUS
    <3>2. Pending(more) = {<< "close", b >> : b \in {x \in Applicant : IsOpen(x)}}
      <4>1. IsFiniteSet(Applicant) /\ \A b \in Applicant : << "close", b >> \in Op
        BY ApplicantsAreFinite DEF Op
      <4>2. IsFiniteSet({x \in Applicant : IsOpen(x)})
        BY <4>1, FS_Subset
      <4> QED BY <3>1, <4>1, <4>2, EachFacts, Zenon DEF CloseAll
    <3> QED BY <1>2, <3>2
  <2>3. /\ s[1] # << "closeAll", 0 >>
        /\ s[1] = << "organization", 0 >> => more = CloseIfNewOrg
        /\ s[1] = << "licenses", 0 >> => more = CloseIfNewLicenses
    BY <2>2 DEF MoreCloses
  <2>4. CASE ~sync.publish
    BY <1>1, <1>2, <2>1, <2>3, <2>4 DEF StaysOpen
  <2>5. CASE sync.publish
    <3>1. apps[a].org = sync.org /\ apps[a].licenses = sync.licenses /\ sync.licenses # {}
      BY <1>1, <2>1, <2>5 DEF StaysOpen
    <3>2. ASSUME << "organization", 0 >> \notin Pending(t)
          PROVE  apps[a].org = sync.db.want.org
      <4>1. CASE s[1] = << "organization", 0 >>
        <5>1. sync.org \in {None, sync.db.want.org}
          BY <2>2, <2>3, <4>1 DEF CloseIfNewOrg
        <5>2. apps[a].org # None
          BY <1>3, NoneFacts DEF IsOpen, SyncTypeOK, Filed
        <5> QED BY <3>1, <5>1, <5>2
      <4>2. CASE s[1] # << "organization", 0 >>
        BY <1>1, <1>2, <2>1, <2>5, <3>2, <4>2 DEF StaysOpen
      <4> QED BY <4>1, <4>2
    <3>3. ASSUME << "licenses", 0 >> \notin Pending(t)
          PROVE  apps[a].licenses = Licenses
      <4>1. CASE s[1] = << "licenses", 0 >>
        BY <2>2, <2>3, <3>1, <4>1 DEF CloseIfNewLicenses
      <4>2. CASE s[1] # << "licenses", 0 >>
        BY <1>1, <1>2, <2>1, <2>5, <3>3, <4>2 DEF StaysOpen
      <4> QED BY <4>1, <4>2
    <3> QED BY <2>5, <3>1, <3>2, <3>3
  <2> QED BY <2>4, <2>5
<1> QED BY <1>4, <1>5, <1>6, <1>7, <1>8, <1>9 DEF ListCloses

\* Each phase of a sync adds such operations.
LEMMA EnsureCloses ==
    ASSUME Fits, NEW s \in Seq(Op), s = sync.todo, ListFits(s), Doing("ensure")
    PROVE  MoreCloses(s, Ensure(Arg))
<1>1. SyncTypeOK /\ RowsFit(sync.db) /\ sync # None /\ s # << >>
  BY DEF Doing, Fits, SyncFits
<1>2. PICK k \in Key : k = Arg /\ s[1] = << "ensure", k >>
  BY <1>1, ArgFacts
<1>3. PICK more : more = Ensure(Arg)
  OBVIOUS
<1>4. \A x \in Pending(more) : x = << "create", k >> \/ (x = << "archive", Row(k) >> /\ Row(k) # 0)
  BY <1>2, <1>3 DEF Pending, Ensure
<1>5. \A i \in Id, x \in Pending(more) : Takes(x, i) => i = Row(k) /\ Row(k) # 0
  BY <1>4 DEF Takes
<1>6. \A i : Leaving(more, i) => i = Row(k) /\ Row(k) # 0
  BY <1>4 DEF Leaving
<1>7. \A i : ~Leaving(s, i)
  <2>1. ~IsEarly(s[1])
    BY <1>2 DEF IsEarly
  <2> QED BY <1>1, <2>1, FirstIsDone
<1>8. sync.publish
  <2>1. s[1] \in Pending(s)
    BY <1>1, ListFacts DEF Pending
  <2> QED BY <1>2, <2>1 DEF ListFits, OpsFit
<1>9. \A x \in Pending(more) : x[1] # "close" /\ x # << "ensure", Resource >>
  BY <1>4
<1>10. Row(k) # 0 => IsFor(Row(k), k)
  BY <1>1 DEF RowsFit, Row
<1>11. Row(k) # 0 /\ rems[Row(k)].type = "resource" => k = Resource
  <2>1. rems[Row(k)].type = "resource" => IsFor(Row(k), Resource)
    BY DEF IsFor
  <2> QED BY <1>10, <2>1, IsForOne, KeyFacts
<1>12. << "ensure", Resource >> \in Pending(Tail(s)) => k # Item
  <2>1. ~IsEarly(s[1])
    BY <1>2 DEF IsEarly
  <2>2. << "ensure", Resource >> \in Pending(Tail(s)) => Rank(s[1]) < Rank(<< "ensure", Resource >>)
    BY <1>1, <2>1, FirstIsDone
  <2>3. Rank(s[1]) = KeyRank(k) /\ KeyRank(Item) = 9 /\ Rank(<< "ensure", Resource >>) = 7
    BY <1>2, ResourceIsEnsured
  <2> QED BY <2>2, <2>3
<1>13. Row(Item) = Row(k) /\ Row(Item) # 0 => k = Item
  BY <1>1, RowIsForOne, KeyFacts
<1>14. s[1][1] = "ensure"
  BY <1>2
<1>15. \A i \in Id, x \in Pending(more) : Takes(x, i) /\ IsReference(i) =>
          sync.publish /\ \A j \in Id : j # i => ~Leaving(s, j) /\ ~Leaving(more, j)
  BY <1>5, <1>6, <1>7, <1>8
<1>16. << "ensure", Resource >> \in Pending(Tail(s)) /\ Leaving(more, Row(Item))
       /\ Row(Item) # 0 => FALSE
  BY <1>6, <1>12, <1>13
<1>17. \A i \in Id : Leaving(more, i) /\ rems[i].type = "resource" => i = Row(Resource)
  BY <1>6, <1>11
<1> QED BY <1>3, <1>9, <1>14, <1>15, <1>16, <1>17 DEF MoreCloses

LEMMA ClosingCloses ==
    ASSUME Fits, NEW s \in Seq(Op), s = sync.todo, ListFits(s), NEW more,
           \/ Doing("organization") /\ more = CloseIfNewOrg
           \/ Doing("licenses") /\ more = CloseIfNewLicenses
           \/ Doing("closeAll") /\ more = CloseAll
    PROVE  MoreCloses(s, more)
<1>1. SyncTypeOK
  BY DEF Fits
<1>2. s[1][1] \in {"organization", "licenses", "closeAll"}
  BY DEF Doing
<1>3. more = CloseAll \/ more = << >>
  BY DEF CloseIfNewOrg, CloseIfNewLicenses
<1>4. \A x \in Pending(more) : x[1] = "close"
  <2>1. Pending(CloseAll) = {<< "close", a >> : a \in {x \in Applicant : IsOpen(x)}}
    BY <1>1, <1>2, ClosesFit
  <2>2. Pending(<< >>) = {}
    BY DEF Pending
  <2> QED BY <1>3, <2>1, <2>2
<1>5. \A i : ~Leaving(more, i) /\ \A x \in Pending(more) : ~Takes(x, i)
  BY <1>4 DEF Leaving, Takes
<1>6. << "ensure", Resource >> \notin Pending(more)
  BY <1>4
<1>7. (more = CloseAll /\ s[1][1] # "archive") \/ \A x \in Pending(more) : x[1] # "close"
  BY <1>2, <1>3 DEF Pending
<1>8. /\ s[1][1] = "organization" => more = CloseIfNewOrg
      /\ s[1][1] = "licenses" => more = CloseIfNewLicenses
      /\ s[1][1] = "closeAll" => more = CloseAll
  BY DEF Doing
<1> QED BY <1>2, <1>5, <1>6, <1>7, <1>8, Zenon DEF MoreCloses

LEMMA UnusedCloses ==
    ASSUME Fits, NEW s \in Seq(Op), s = sync.todo, ListFits(s), Doing("unused")
    PROVE  MoreCloses(s, ArchiveUnused)
<1>1. SyncTypeOK /\ RowsFit(sync.db) /\ sync # None /\ s[1][1] = "unused"
  BY DEF Doing, Fits, SyncFits
<1>2. PICK S : S = (sync.db.custom \ Licenses) \cap {Row(Terms)}
  BY Zenon
<1>3. S \subseteq Id /\ \A i \in S : IsTerms(i)
  BY <1>1, <1>2 DEF RowsFit
<1>4. /\ Archive(S) \in Seq(Op)
      /\ Pending(Archive(S)) = {<< "archive", i >> : i \in S}
  BY <1>1, <1>3, ArchivesFacts
<1>5. << "forget", 0 >> \in Op
  BY DEF Op
<1>6. PICK more : more = ArchiveUnused
  OBVIOUS
<1>7. Pending(more) = {<< "archive", i >> : i \in S} \cup {<< "forget", 0 >>}
  <2>1. PICK f : f = << << "forget", 0 >> >> /\ f \in Seq(Op) /\ Pending(f) = {<< "forget", 0 >>}
    BY <1>5, OneFacts, Zenon
  <2>2. PICK g : g = Archive(S) /\ g \in Seq(Op) /\ Pending(g) = {<< "archive", i >> : i \in S}
    BY <1>4
  <2>3. more = g \o f
    BY <1>2, <1>6, <2>1, <2>2 DEF ArchiveUnused
  <2>4. Pending(g \o f) = Pending(g) \cup Pending(f)
    BY <2>1, <2>2, ConcatFacts, Zenon
  <2> QED BY <2>1, <2>2, <2>3, <2>4
<1>8. \A i : Leaving(more, i) => i \in S
  BY <1>7 DEF Leaving
<1>9. \A i \in Id, x \in Pending(more) : Takes(x, i) => i \in S
  BY <1>7 DEF Takes
<1>10. \A i \in S : ~IsReference(i) /\ rems[i].type \notin {"resource", "item"}
  BY <1>3 DEF IsTerms, IsReference
<1>11. Row(Item) # 0 => rems[Row(Item)].type = "item"
  BY <1>1, KeyFacts DEF RowsFit, Row, IsFor
<1>12. \A x \in Pending(more) : x[1] # "close" /\ x # << "ensure", Resource >>
  BY <1>7
<1>13. \A i \in Id, x \in Pending(more) : ~(Takes(x, i) /\ IsReference(i))
  BY <1>9, <1>10
<1>14. Leaving(more, Row(Item)) /\ Row(Item) # 0 => FALSE
  BY <1>8, <1>10, <1>11
<1>15. \A i \in Id : Leaving(more, i) /\ rems[i].type = "resource" => FALSE
  BY <1>8, <1>10
<1> QED BY <1>1, <1>6, <1>12, <1>13, <1>14, <1>15 DEF MoreCloses

LEMMA ArchiveAllCloses ==
    ASSUME Fits, RowsAgree, crashes = 0, NEW s \in Seq(Op), s = sync.todo, ListFits(s),
           Doing("archiveAll")
    PROVE  MoreCloses(s, Archive(Active(Arg)))
<1>1. SyncTypeOK /\ sync # None /\ s # << >> /\ s[1][1] = "archiveAll"
  BY DEF Doing, Fits
<1>2. PICK type \in {"item", "resource"} : type = Arg /\ s[1] = << "archiveAll", type >>
  BY <1>1, ArgFacts
<1>3. PICK more : more = Archive(Active(Arg))
  OBVIOUS
<1>4. Pending(more) = {<< "archive", i >> : i \in Active(type)}
  BY <1>1, <1>2, <1>3, ArchiveAllFits
<1>5. \A i : Leaving(more, i) => i \in Active(type)
  BY <1>4 DEF Leaving
<1>6. \A i \in Id, x \in Pending(more) : Takes(x, i) => i \in Active(type)
  BY <1>4 DEF Takes
<1>7. \A i \in Active(type) : rems[i].type = type /\ ~IsReference(i)
  BY <1>2 DEF Active, IsReference
<1>8. \A i \in Active("resource") : i = Row(Resource)
  BY <1>1 DEF RowsAgree, Cur, Row
<1>9. ~sync.publish /\ (<< "ensure", Resource >> \in Pending(s) => sync.publish)
  <2>1. s[1] \in Pending(s)
    BY <1>1, ListFacts DEF Pending
  <2>2. << "ensure", Resource >> \in Pending(s) => sync.publish
    BY ResourceIsEnsured DEF ListFits, OpsFit
  <2> QED BY <1>1, <2>1, <2>2 DEF ListFits, OpsFit
<1>10. << "ensure", Resource >> \notin Pending(Tail(s))
  BY <1>1, <1>9, TailFacts
<1>11. \A x \in Pending(more) : x[1] # "close" /\ x # << "ensure", Resource >>
  BY <1>4
<1>12. \A i \in Id, x \in Pending(more) : ~(Takes(x, i) /\ IsReference(i))
  BY <1>6, <1>7
<1>13. \A i \in Id : Leaving(more, i) /\ rems[i].type = "resource" => i = Row(Resource)
  BY <1>2, <1>5, <1>7, <1>8
<1> QED BY <1>1, <1>3, <1>10, <1>11, <1>12, <1>13 DEF MoreCloses

LEMMA ArchiveCloses ==
    ASSUME Fits, RowsAgree, crashes = 0, NEW s \in Seq(Op), s = sync.todo, ListFits(s),
           ListCloses(s),
           Doing("archive")
    PROVE  MoreCloses(s, ArchiveEntity(Arg))
<1>1. SyncTypeOK /\ RowsFit(sync.db) /\ EntitiesFit /\ sync # None /\ s # << >>
      /\ s[1][1] = "archive"
  BY DEF Doing, Fits, SyncFits
<1>2. PICK r \in Nat : r = Arg /\ s[1] = << "archive", r >>
  BY <1>1, ArgFacts
<1>3. s[1] \in Pending(s) /\ Leaving(s, r) /\ r \in Id
  <2>1. s[1] \in Pending(s)
    BY <1>1, ListFacts DEF Pending
  <2> QED BY <1>2, <2>1 DEF Leaving, ListFits, OpsFit
<1>4. PICK S \in SUBSET Id :
              /\ rems[r].type = "resource" => S = Active("item")
              /\ rems[r].type # "resource" /\ r \in sync.db.custom => S = Active("resource")
              /\ rems[r].type # "resource" /\ r \notin sync.db.custom => S = {}
              /\ ArchiveFirst(r) \in Seq(Op)
              /\ Pending(ArchiveFirst(r)) = {<< "archive", j >> : j \in S}
              /\ Ordered(ArchiveFirst(r)) /\ Paired(ArchiveFirst(r))
  BY <1>1, <1>3, FirstFacts, Zenon
<1>5. << "disable", r >> \in Op /\ << "hide", r >> \in Op
  BY DEF Op
<1>6. PICK more : more = ArchiveEntity(Arg)
  OBVIOUS
<1>7. /\ Pending(more) = {<< "archive", j >> : j \in S} \cup {<< "disable", r >>, << "hide", r >>}
      /\ more \in Seq(Op)
  <2>1. PICK f : /\ f = << << "disable", r >>, << "hide", r >> >>
                 /\ f \in Seq(Op) /\ Pending(f) = {<< "disable", r >>, << "hide", r >>}
    BY <1>5, TwoFacts, Zenon
  <2>2. PICK g \in Seq(Op) : g = ArchiveFirst(r) /\ Pending(g) = {<< "archive", j >> : j \in S}
    BY <1>4
  <2>3. more = g \o f
    BY <1>2, <1>6, <2>1, <2>2 DEF ArchiveEntity
  <2>4. Pending(g \o f) = Pending(g) \cup Pending(f) /\ g \o f \in Seq(Op)
    BY <2>1, <2>2, ConcatFacts
  <2> QED BY <2>1, <2>2, <2>3, <2>4
<1>8. \A i : Leaving(more, i) => i \in S \cup {r}
  BY <1>7 DEF Leaving
<1>9. \A i \in Id, x \in Pending(more) : Takes(x, i) => i \in S \cup {r}
  BY <1>7 DEF Takes
<1>10. << "hide", r >> \in Pending(more \o Tail(s)) /\ Leaving(more \o Tail(s), r)
  <2>1. Tail(s) \in Seq(Op)
    BY <1>1, TailFacts
  <2>2. Pending(more \o Tail(s)) = Pending(more) \cup Pending(Tail(s))
    BY <1>7, <2>1, ConcatFacts, Zenon
  <2> QED BY <1>7, <2>2 DEF Leaving
<1>11. \A i \in S : ~IsReference(i) /\ (rems[i].type = "resource" => i \in Active("resource"))
  BY <1>4 DEF Active, IsReference
<1>12. \A i \in Active("resource") : i = Row(Resource)
  BY <1>1 DEF RowsAgree, Cur, Row
<1>13. IsReference(r) => S = {}
  <2>1. r \in sync.db.custom => IsTerms(r)
    BY <1>1 DEF RowsFit
  <2> QED BY <1>4, <2>1 DEF IsReference, IsTerms
<1>14. ReferenceGoesAlone(s) /\ ResourceIsOfRow(s) /\ OldRows(s)
  BY DEF ListCloses
<1>15. ASSUME NEW i \in Id, NEW x \in Pending(more), Takes(x, i), IsReference(i)
       PROVE  sync.publish /\ \A j \in Id : j # i => ~Leaving(s, j) /\ ~Leaving(more, j)
  <2>1. i = r
    BY <1>9, <1>11, <1>15
  <2>2. Takes(s[1], r)
    BY <1>2 DEF Takes
  <2>3. sync.publish /\ \A j \in Id : j # r => ~Leaving(s, j)
    BY <1>3, <1>14, <1>15, <2>1, <2>2 DEF ReferenceGoesAlone
  <2>4. \A j \in Id : j # r => ~Leaving(more, j)
    BY <1>8, <1>13, <1>15, <2>1
  <2> QED BY <2>1, <2>3, <2>4
<1>16. \A i \in Id : Leaving(more, i) /\ rems[i].type = "resource" /\ Row(Resource) # 0
       => i = Row(Resource)
  BY <1>3, <1>8, <1>11, <1>12, <1>14 DEF ResourceIsOfRow
<1>17. ASSUME << "ensure", Resource >> \in Pending(Tail(s)), Leaving(more, Row(Item)),
              Row(Item) # 0,
              Row(Resource) # 0
       PROVE  Leaving(more \o Tail(s), Row(Resource)) \/ Row(Item) = r
  <2>1. CASE Row(Item) \in S
    <3>1. rems[Row(Item)].type = "item"
      BY <1>1, <1>17, KeyFacts DEF RowsFit, Row, IsFor
    <3>2. rems[r].type = "resource"
      BY <1>4, <2>1, <3>1 DEF Active
    <3>3. r = Row(Resource)
      BY <1>3, <1>14, <1>17, <3>2 DEF ResourceIsOfRow
    <3> QED BY <1>10, <3>3
  <2> QED BY <1>8, <1>17, <2>1
<1>18. Row(Item) = r => Leaving(s, Row(Item))
  BY <1>3
<1>19. \A x \in Pending(more) : x[1] # "close" /\ x # << "ensure", Resource >>
  BY <1>7
<1> QED BY <1>1, <1>6, <1>15, <1>16, <1>17, <1>18, <1>19 DEF MoreCloses

LEMMA CloseListStays ==
    ASSUME sync'.publish = sync.publish, sync'.db = sync.db, sync'.org = sync.org,
           sync'.licenses = sync.licenses, rems' = rems, apps' = apps, NEW t, ListCloses(t)
    PROVE  ListCloses(t)'
<1>1. \A k : Row(k)' = Row(k)
  BY DEF Row
<1>2. Licenses' = Licenses
  BY <1>1 DEF Licenses, Terms, Reference
<1>3. (\A a : IsOpen(a)' <=> IsOpen(a)) /\ (\A i : IsReference(i)' <=> IsReference(i)) /\ Id' = Id
  BY DEF IsOpen, IsReference, Id
<1>4. \A i : OrgOf(i)' = OrgOf(i)
  BY DEF OrgOf
<1>5. ClosesFirst(t)' /\ ReferenceGoesAlone(t)' /\ LicensesFollow(t)' /\ ResourceIsOfRow(t)'
  BY <1>1, <1>3 DEF ListCloses, ClosesFirst, ReferenceGoesAlone, LicensesFollow, ResourceIsOfRow,
                     Resource, Leaving, Pending, Takes, IsEarly, Rank, KeyRank
<1>6. OldRows(t)'
  BY <1>1, <1>3, <1>4 DEF ListCloses, OldRows, Resource, Item, Leaving, Pending
<1>7. StaysOpen(t)'
  BY <1>2, <1>3 DEF ListCloses, StaysOpen, Pending
<1> QED BY <1>5, <1>6, <1>7 DEF ListCloses

LEMMA PlanCloses ==
    ASSUME Fits, RowsAgree, SyncCloses, Plan
    PROVE  SyncCloses'
<1>1. SyncTypeOK /\ EntitiesFit /\ RowsFit(db) /\ SyncFits
  BY DEF Fits
<1>2. /\ sync # None /\ sync.todo \in Seq(Op) /\ sync.todo # << >> /\ ~sync.db.error
      /\ UNCHANGED << db, rems, label, apps, listed, changes, failures, crashes >>
  BY <1>1, PlanFacts
<1>3. PICK s : s = sync.todo
  OBVIOUS
<1>4. ListFits(s) /\ RowsFit(sync.db)
  BY <1>1, <1>2, <1>3 DEF SyncFits
<1> SUFFICES ASSUME Clean
             PROVE  SyncCloses'
  BY <1>2 DEF SyncCloses, Clean
<1>5. ListCloses(s) /\ crashes = 0
  BY <1>2, <1>3 DEF SyncCloses, Clean
<1>6. PICK more : Put(more) /\ MoreFits(s, more) /\ MoreCloses(s, more)
  <2>1. \A op, more : Phase(op, more) => Doing(op) /\ Put(more)
    BY DEF Phase
  <2>2. \A op : Doing(op) => s[1][1] = op
    BY <1>3 DEF Doing
  <2>3. CASE Phase("ensure", Ensure(Arg))
    BY <1>1, <1>2, <1>3, <1>4, <2>1, <2>3, EnsureFits, EnsureCloses
  <2>4. CASE Phase("organization", CloseIfNewOrg)
    <3>1. MoreFits(s, CloseIfNewOrg)
      BY <1>1, <1>3, <2>1, <2>2, <2>4, EmptyFits, ClosesFit DEF CloseIfNewOrg
    <3> QED BY <1>2, <1>3, <1>4, <2>1, <2>4, <3>1, ClosingCloses
  <2>5. CASE Phase("licenses", CloseIfNewLicenses)
    <3>1. MoreFits(s, CloseIfNewLicenses)
      BY <1>1, <1>3, <2>1, <2>2, <2>5, EmptyFits, ClosesFit DEF CloseIfNewLicenses
    <3> QED BY <1>2, <1>3, <1>4, <2>1, <2>5, <3>1, ClosingCloses
  <2>6. CASE Phase("unused", ArchiveUnused)
    BY <1>1, <1>2, <1>3, <1>4, <2>1, <2>6, UnusedFits, UnusedCloses
  <2>7. CASE Phase("archive", ArchiveEntity(Arg))
    BY <1>1, <1>2, <1>3, <1>4, <1>5, <2>1, <2>7, ArchiveFits, ArchiveCloses
  <2>8. CASE Phase("archiveAll", Archive(Active(Arg)))
    BY <1>1, <1>2, <1>3, <1>4, <1>5, <2>1, <2>8, ArchiveAllFits, ArchiveAllCloses
  <2>9. CASE Phase("closeAll", CloseAll)
    <3>1. MoreFits(s, CloseAll)
      BY <1>1, <1>3, <2>1, <2>2, <2>9, ClosesFit
    <3> QED BY <1>2, <1>3, <1>4, <2>1, <2>9, <3>1, ClosingCloses
  <2> QED BY <2>3, <2>4, <2>5, <2>6, <2>7, <2>8, <2>9 DEF Plan
<1>7. PICK t : t = more \o Tail(s)
  BY Zenon
<1>8. more \in Seq(Op)
  BY <1>6 DEF MoreFits
<1>9. /\ sync' # None /\ sync'.todo = t
      /\ sync'.db = sync.db /\ sync'.publish = sync.publish
      /\ sync'.org = sync.org /\ sync'.licenses = sync.licenses
  BY <1>1, <1>2, <1>3, <1>6, <1>7, <1>8, PutFacts
<1>10. ListCloses(t)
  BY <1>2, <1>3, <1>4, <1>5, <1>6, <1>7, PutCloses, Zenon
<1>11. ListCloses(t)'
  BY <1>2, <1>9, <1>10, CloseListStays
<1>12. ListCloses(sync.todo)' <=> ListCloses(t)'
  BY <1>9 DEF ListCloses, ClosesFirst, ReferenceGoesAlone, LicensesFollow, ResourceIsOfRow,
     OldRows, StaysOpen,
              Leaving, Pending
<1> QED BY <1>2, <1>9, <1>11, <1>12 DEF SyncCloses

LEMMA OrgStays ==
    ASSUME EntitiesFit, NEW i \in Id, rems[i].type = "item",
           \A j \in Id : /\ rems'[j].type = rems[j].type
                         /\ rems'[j].what = rems[j].what
                         /\ rems'[j].uses = rems[j].uses
    PROVE  OrgOf(i)' = OrgOf(i)
<1>1. PICK x : x = CHOOSE y \in rems[i].uses : rems[y].type = "workflow"
  OBVIOUS
<1>2. rems[i].uses \subseteq Id /\ \E y \in rems[i].uses : rems[y].type = "workflow"
  BY DEF EntitiesFit, HasOne
<1>3. x \in Id
  BY <1>1, <1>2
<1>4. \A y \in rems[i].uses : rems'[y].type = "workflow" <=> rems[y].type = "workflow"
  BY <1>2
<1>5. (CHOOSE y \in rems[i].uses : rems'[y].type = "workflow")
      = (CHOOSE y \in rems[i].uses : rems[y].type = "workflow")
  BY <1>4
<1> QED BY <1>1, <1>3, <1>5, Zenon DEF OrgOf

\* The entities and the rest of the sync stay, what is open is open already, and the
\* first operation takes nothing away.
LEMMA TailCloses ==
    ASSUME Fits, sync # None, NEW s \in Seq(Op), s # << >>, ListFits(s), ListCloses(s),
           s[1][1] \in {"forget", "disable", "close"}, NEW t, t = Tail(s),
           Id' = Id, \A i \in Id : /\ rems'[i].type = rems[i].type
                                   /\ rems'[i].what = rems[i].what
                                   /\ rems'[i].uses = rems[i].uses,
           sync'.publish = sync.publish, sync'.db.want = sync.db.want, sync'.db.row = sync.db.row,
           sync'.org = sync.org, sync'.licenses = sync.licenses,
           \A a \in Applicant : IsOpen(a)' => /\ IsOpen(a) /\ s[1] # << "close", a >>
                                              /\ apps'[a].org = apps[a].org
                                              /\ apps'[a].licenses = apps[a].licenses,
           \A a \in Applicant : IsOpen(a) => IsOpen(a)' \/ s[1] = << "close", a >>
    PROVE  ListCloses(t)'
<1>1. SyncTypeOK /\ EntitiesFit /\ RowsFit(sync.db)
  BY DEF Fits, SyncFits
<1>2. /\ t \in Seq(Op) /\ Pending(s) = {s[1]} \cup Pending(t) /\ s[1] \in Pending(s)
      /\ DOMAIN t = 1 .. (Len(s) - 1) /\ \A n \in DOMAIN t : t[n] = s[n + 1] /\ n + 1 \in DOMAIN s
  BY TailFacts
<1>3. \A i : Leaving(t, i) <=> Leaving(s, i)
  BY <1>2 DEF Leaving
<1>4. \A k : Row(k)' = Row(k)
  BY DEF Row
<1>5. Licenses' = Licenses
  BY <1>4, Zenon DEF Licenses, Terms, Reference
<1>6. \A i \in Id : IsReference(i)' <=> IsReference(i)
  BY DEF IsReference
<1>7. \A k \in {Item, Resource} : Row(k) # 0 => Row(k) \in Id
  BY <1>1, KeyFacts DEF RowsFit, Row
<1>8. Row(Item) # 0 => OrgOf(Row(Item))' = OrgOf(Row(Item))
  <2> SUFFICES ASSUME Row(Item) # 0
               PROVE  OrgOf(Row(Item))' = OrgOf(Row(Item))
    OBVIOUS
  <2>1. PICK i : i = Row(Item)
    OBVIOUS
  <2>2. i \in Id /\ rems[i].type = "item"
    BY <1>1, <2>1, KeyFacts DEF RowsFit, Row, IsFor
  <2>3. OrgOf(i)' = OrgOf(i)
    BY <1>1, <2>2, OrgStays
  <2>4. OrgOf(Row(Item))' = OrgOf(i)'
    BY <1>4, <2>1, Zenon DEF OrgOf, Item
  <2> QED BY <2>1, <2>3, <2>4
<1>9. /\ ClosesFirst(s) /\ ReferenceGoesAlone(s) /\ LicensesFollow(s)
      /\ ResourceIsOfRow(s) /\ OldRows(s) /\ StaysOpen(s)
  BY DEF ListCloses
<1>10. ClosesFirst(t)'
  <2>1. ASSUME NEW n \in DOMAIN t, NEW m \in DOMAIN t, n < m, t[m][1] = "close"
        PROVE  t[n][1] = "close" /\ t[n] # t[m]
    <3>1. n + 1 < m + 1 /\ t[n] = s[n + 1] /\ t[m] = s[m + 1] /\ n + 1 \in DOMAIN s
          /\ m + 1 \in DOMAIN s
      BY <1>2, <2>1
    <3> QED BY <1>9, <2>1, <3>1 DEF ClosesFirst
  <2>2. ASSUME NEW a \in Applicant, << "close", a >> \in Pending(t)
        PROVE  IsOpen(a)'
    <3>1. IsOpen(a)
      BY <1>2, <1>9, <2>2 DEF ClosesFirst
    <3>2. s[1] # << "close", a >>
      <4>1. PICK m \in DOMAIN t : t[m] = << "close", a >>
        BY <2>2 DEF Pending
      <4>2. 1 < m + 1 /\ 1 \in DOMAIN s /\ m + 1 \in DOMAIN s /\ s[m + 1] = << "close", a >>
        BY <1>2, <4>1, ListFacts
      <4> QED BY <1>9, <4>2 DEF ClosesFirst
    <3> QED BY <3>1, <3>2
  <2> QED BY <2>1, <2>2 DEF ClosesFirst, Pending
<1>11. ReferenceGoesAlone(t)'
  BY <1>2, <1>3, <1>6, <1>9 DEF ReferenceGoesAlone, Leaving, Pending, Takes
<1>12. LicensesFollow(t)'
  <2>1. s[1] # << "licenses", 0 >>
    OBVIOUS
  <2> QED BY <1>2, <1>9, <2>1, Zenon DEF LicensesFollow, Pending, IsEarly, Rank, KeyRank
<1>13. ResourceIsOfRow(t)'
  BY <1>3, <1>4, <1>9 DEF ResourceIsOfRow, Leaving, Pending, Resource
<1>14. OldRows(t)'
  <2> SUFFICES ASSUME << "ensure", Resource >> \in Pending(t)
               PROVE  /\ Row(Resource) # 0 => rems'[Row(Resource)].uses = sync.licenses
                      /\ Row(Item) # 0 => OrgOf(Row(Item))' = sync.org
                      /\ (\E a \in Applicant : IsOpen(a)')
                           /\ (Row(Item) = 0 \/ Leaving(t, Row(Item))) =>
                            Row(Resource) = 0 \/ Leaving(t, Row(Resource))
    BY <1>4, Zenon DEF OldRows, Leaving, Pending, Resource, Item, OrgOf
  <2>1. << "ensure", Resource >> \in Pending(s)
    BY <1>2
  <2>2. Row(Resource) # 0 => rems'[Row(Resource)].uses = rems[Row(Resource)].uses
    BY <1>7
  <2>3. (\E a \in Applicant : IsOpen(a)') => \E a \in Applicant : IsOpen(a)
    OBVIOUS
  <2> QED BY <1>3, <1>8, <1>9, <2>1, <2>2, <2>3 DEF OldRows
<1>15. StaysOpen(t)'
  <2> SUFFICES ASSUME NEW a \in Applicant, IsOpen(a)', << "close", a >> \notin Pending(t)
               PROVE  IF sync.publish
                      THEN /\ apps'[a].org = sync.org
                           /\ apps'[a].licenses = sync.licenses
                           /\ sync.licenses # {}
                           /\ << "organization", 0 >> \notin Pending(t)
                                => apps'[a].org = sync.db.want.org
                           /\ << "licenses", 0 >> \notin Pending(t) => apps'[a].licenses = Licenses
                      ELSE << "closeAll", 0 >> \in Pending(t)
    BY <1>5, Zenon DEF StaysOpen, Pending
  <2>1. << "close", a >> \notin Pending(s)
    BY <1>2
  <2>2. s[1] \notin {<< "organization", 0 >>, << "licenses", 0 >>, << "closeAll", 0 >>}
    OBVIOUS
  <2> QED BY <1>2, <1>9, <2>1, <2>2 DEF StaysOpen
<1> QED BY <1>10, <1>11, <1>12, <1>13, <1>14, <1>15 DEF ListCloses

LEMMA ListIsTodo ==
    ASSUME NEW t, sync'.todo = t, ListCloses(t)'
    PROVE  ListCloses(sync.todo)'
BY DEF ListCloses, ClosesFirst, ReferenceGoesAlone, LicensesFollow, ResourceIsOfRow, OldRows,
   StaysOpen,
       Leaving, Pending

\* Its steps that take one operation from the list.
LEMMA SkipCloses ==
    ASSUME Fits, SyncCloses, Clean, ForgetUnused \/ Disable \/ Closes
    PROVE  SyncCloses'
<1>1. SyncTypeOK /\ SyncFits
  BY DEF Fits
<1>2. PICK s, t : s = sync.todo /\ t = Tail(s)
  BY Zenon
<1>3. /\ sync # None /\ s \in Seq(Op) /\ s # << >> /\ s[1][1] \in {"forget", "disable", "close"}
      /\ s[1] = << s[1][1], Arg >>
  BY <1>1, <1>2, ArgFacts DEF ForgetUnused, Disable, Closes
<1>4. ~sync.db.error /\ ListFits(s)
  BY <1>1, <1>2, <1>3 DEF SyncFits
<1>5. ListCloses(s)
  BY <1>2, <1>3, <1>4 DEF SyncCloses
<1>6. /\ sync' # None /\ sync'.todo = t /\ sync'.db.error = sync.db.error
      /\ sync'.publish = sync.publish /\ sync'.db.want = sync.db.want /\ sync'.db.row = sync.db.row
      /\ sync'.org = sync.org /\ sync'.licenses = sync.licenses
  <2>1. CASE ForgetUnused
    BY <1>1, <1>2, <2>1, ForgetFacts
  <2>2. CASE Disable
    BY <1>1, <1>2, <2>2, DisableFacts
  <2>3. CASE Closes
    <3>1. Put(<< >>) /\ << >> \in Seq(Op)
      BY <2>3 DEF Closes
    <3>2. t \in Seq(Op) /\ << >> \o t = t
      BY <1>2, <1>3, TailFacts
    <3> QED BY <1>1, <1>2, <1>3, <3>1, <3>2, PutFacts, Zenon
  <2> QED BY <2>1, <2>2, <2>3
<1>7. Id' = Id /\ \A i \in Id : /\ rems'[i].type = rems[i].type
                                /\ rems'[i].what = rems[i].what
                                /\ rems'[i].uses = rems[i].uses
  <2>1. CASE ForgetUnused \/ Closes
    BY <2>1 DEF ForgetUnused, Closes, Id
  <2>2. CASE Disable
    BY <1>1, <2>2, DisableFacts
  <2> QED BY <2>1, <2>2
<1>8. /\ \A a \in Applicant : IsOpen(a)' => /\ IsOpen(a) /\ s[1] # << "close", a >>
                                            /\ apps'[a].org = apps[a].org
                                            /\ apps'[a].licenses = apps[a].licenses
      /\ \A a \in Applicant : IsOpen(a) => IsOpen(a)' \/ s[1] = << "close", a >>
  <2>1. CASE ForgetUnused \/ Disable
    <3>1. apps' = apps /\ s[1][1] # "close"
      BY <1>2, <2>1 DEF ForgetUnused, Disable, Doing
    <3>2. \A a : s[1] # << "close", a >>
      BY <3>1
    <3> QED BY <3>1, <3>2 DEF IsOpen
  <2>2. CASE Closes
    <3>1. PICK c \in Applicant : c = Arg
      BY <1>1, <2>2, ClosesFacts
    <3>2. s[1] = << "close", c >>
      BY <1>2, <1>3, <2>2, <3>1 DEF Closes, Doing
    <3>3. apps[c] \in Filed /\ apps' = [apps EXCEPT ![c].state = "closed"]
          /\ apps \in [Applicant -> Filed \cup {None}]
      BY <1>1, <2>2, <3>1 DEF Closes, IsOpen, SyncTypeOK
    <3>4. apps'[c].state = "closed" /\ \A a \in Applicant : a # c => apps'[a] = apps[a]
      BY <3>3 DEF Filed
    <3>5. \A a \in Applicant : s[1] = << "close", a >> <=> a = c
      BY <3>2
    <3> QED BY <3>4, <3>5 DEF IsOpen
  <2> QED BY <2>1, <2>2
<1>9. ListCloses(t)'
  BY <1>2, <1>3, <1>4, <1>5, <1>6, <1>7, <1>8, TailCloses, Zenon
<1> QED BY <1>4, <1>6, <1>9, ListIsTodo DEF SyncCloses

\* What is made is not about what is open, before the licenses have been compared.
LEMMA CreateCloses ==
    ASSUME Fits, SyncCloses, Clean, Create
    PROVE  SyncCloses'
<1>1. SyncTypeOK /\ SyncFits /\ EntitiesFit
  BY DEF Fits
<1>2. PICK s, t : s = sync.todo /\ t = Tail(s)
  BY Zenon
<1>3. PICK k \in Key : k = Arg
  BY <1>1, CreatingFacts
<1>4. /\ sync # None /\ ~sync.db.error /\ sync.publish /\ s \in Seq(Op) /\ s # << >>
      /\ s[1] = << "create", k >>
      /\ \A x \in Pending(s) : ~IsEarly(x) /\ Rank(x) >= KeyRank(k)
      /\ \A x \in Pending(t) : Rank(x) > KeyRank(k)
  BY <1>1, <1>2, <1>3, CreatingFacts
<1>5. RowsFit(sync.db) /\ ListCloses(s)
  BY <1>1, <1>2, <1>4 DEF SyncFits, SyncCloses
<1>6. /\ sync' \in Sync /\ sync' # None /\ sync'.todo = t
      /\ sync'.db.row = [sync.db.row EXCEPT ![k] = NewId]
      /\ sync'.db.want = sync.db.want /\ sync'.db.error = sync.db.error
      /\ sync'.publish = sync.publish /\ sync'.org = sync.org /\ sync'.licenses = sync.licenses
      /\ Id' = Id \cup {NewId} /\ \A i \in Id : rems'[i] = rems[i]
  BY <1>1, <1>2, <1>3, CreateFacts
<1>7. apps' = apps
  BY DEF Create
<1>8. Pending(s) = {s[1]} \cup Pending(t) /\ s[1] \in Pending(s)
  BY <1>2, <1>4, TailFacts, Zenon
<1>9. \A i : ~Leaving(s, i) /\ ~Leaving(t, i) /\ \A x \in Pending(t) : ~Takes(x, i)
  BY <1>4, <1>8 DEF Leaving, Takes, IsEarly
<1>10. \A x \in Pending(s) : x[1] # "close"
  BY <1>4 DEF IsEarly
<1>11. \A a : << "close", a >> \notin Pending(s)
  <2>1. \A a : << "close", a >>[1] = "close"
    OBVIOUS
  <2> QED BY <1>10, <2>1
<1>12. \A j \in Key : j # k => Row(j)' = Row(j)
  BY <1>1, <1>4, <1>6, SyncFacts DEF Row
<1>13. \A a : IsOpen(a)' <=> IsOpen(a)
  BY <1>7 DEF IsOpen
<1>14. LicensesFollow(s) /\ OldRows(s) /\ StaysOpen(s)
  BY <1>5 DEF ListCloses
<1>15. ClosesFirst(t)'
  BY <1>8, <1>10, <1>11 DEF ClosesFirst, Pending
<1>16. ReferenceGoesAlone(t)' /\ ResourceIsOfRow(t)'
  BY <1>9 DEF ReferenceGoesAlone, ResourceIsOfRow, Leaving, Takes, Pending
<1>17. s[1] # << "licenses", 0 >> /\ s[1] # << "organization", 0 >>
  BY <1>4
<1>18. LicensesFollow(t)'
  BY <1>8, <1>14, <1>17, <1>6 DEF LicensesFollow, Pending, IsEarly, Rank, KeyRank
<1>19. << "licenses", 0 >> \notin Pending(t) => Licenses' = Licenses
  <2> SUFFICES ASSUME << "licenses", 0 >> \notin Pending(t)
               PROVE  Licenses' = Licenses
    OBVIOUS
  <2>1. Rank(s[1]) >= 5
    <3>1. << "licenses", 0 >> \notin Pending(s)
      BY <1>8, <1>17
    <3>2. ~(Rank(s[1]) < 5)
      BY <1>4, <1>8, <1>14, <3>1 DEF LicensesFollow
    <3> QED BY <3>2, RankIsNumber
  <2>2. Rank(s[1]) = KeyRank(k) /\ KeyRank(Terms) = 3 /\ KeyRank(Reference) = 4
    BY <1>4, ResourceIsEnsured
  <2>3. k # Terms /\ k # Reference
    BY <2>1, <2>2
  <2>4. Row(Terms)' = Row(Terms) /\ Row(Reference)' = Row(Reference)
    BY <1>12, <2>3, KeyFacts DEF Terms, Reference
  <2> QED BY <1>6, <2>4 DEF Licenses
<1>20. OldRows(t)'
  <2> SUFFICES ASSUME << "ensure", Resource >> \in Pending(t)
               PROVE  OldRows(t)'
    BY DEF OldRows, Pending, Resource
  <2>1. << "ensure", Resource >> \in Pending(s)
    BY <1>8
  <2>2. k # Resource /\ k # Item
    <3>1. 7 > KeyRank(k)
      BY <1>4, ResourceIsEnsured
    <3>2. KeyRank(Resource) = 7 /\ KeyRank(Item) = 9
      BY ResourceIsEnsured
    <3> QED BY <3>1, <3>2
  <2>3. Row(Resource)' = Row(Resource) /\ Row(Item)' = Row(Item)
    BY <1>12, <2>2, KeyFacts DEF Resource, Item
  <2>4. PICK r, i : r = Row(Resource) /\ i = Row(Item)
    OBVIOUS
  <2>5. r # 0 => r \in Id /\ rems'[r].uses = sync.licenses
    BY <1>5, <1>6, <1>14, <2>1, <2>4, KeyFacts DEF OldRows, RowsFit, Row
  <2>6. i # 0 => OrgOf(i)' = sync.org
    <3>1. i # 0 => i \in Id /\ rems[i].type = "item"
      BY <1>5, <2>4, KeyFacts DEF RowsFit, Row, IsFor
    <3>2. i # 0 => OrgOf(i) = sync.org
      BY <1>14, <2>1, <2>4 DEF OldRows
    <3> QED BY <1>1, <1>6, <3>1, <3>2, OrgStays
  <2>7. (\E a \in Applicant : IsOpen(a)) /\ i = 0 => r = 0
    BY <1>9, <1>14, <2>1, <2>4 DEF OldRows
  <2>8. (\E a \in Applicant : IsOpen(a)') => \E a \in Applicant : IsOpen(a)
    BY <1>13
  <2>9. Row(Resource)' = r /\ Row(Item)' = i
    BY <2>3, <2>4
  <2>10. i # 0 => OrgOf(Row(Item))' = sync.org
    BY <2>6, <2>9 DEF OrgOf
  <2> QED BY <1>6, <1>9, <2>5, <2>7, <2>8, <2>9, <2>10 DEF OldRows, Leaving, Pending, Resource, Item
<1>21. StaysOpen(t)'
  <2> SUFFICES ASSUME NEW a \in Applicant, IsOpen(a)'
               PROVE  /\ apps'[a].org = sync.org /\ apps'[a].licenses = sync.licenses
                      /\ sync.licenses # {}
                      /\ << "organization", 0 >> \notin Pending(t)
                           => apps'[a].org = sync.db.want.org
                      /\ << "licenses", 0 >> \notin Pending(t) => apps'[a].licenses = Licenses'
    BY <1>4, <1>6 DEF StaysOpen, Pending
  <2>1. IsOpen(a) /\ << "close", a >> \notin Pending(s)
    BY <1>11, <1>13
  <2> QED BY <1>4, <1>7, <1>8, <1>14, <1>17, <1>19, <2>1 DEF StaysOpen
<1>22. ListCloses(t)'
  BY <1>15, <1>16, <1>18, <1>20, <1>21 DEF ListCloses
<1> QED BY <1>4, <1>6, <1>22, ListIsTodo DEF SyncCloses

\* A license of the dataset goes before the licenses have been compared.
LEMMA HideCloses ==
    ASSUME Fits, SyncCloses, Clean, Hides
    PROVE  SyncCloses'
<1>1. SyncTypeOK /\ SyncFits /\ EntitiesFit
  BY DEF Fits
<1>2. PICK s, t : s = sync.todo /\ t = Tail(s)
  BY Zenon
<1>3. PICK g : g = Arg
  OBVIOUS
<1>4. sync # None /\ s \in Seq(Op) /\ s # << >> /\ s[1] = << "hide", g >>
  BY <1>1, <1>2, <1>3, ArgFacts DEF Hides
<1>5. ~sync.db.error /\ RowsFit(sync.db) /\ ListFits(s) /\ ListCloses(s)
  BY <1>1, <1>2, <1>4 DEF SyncFits, SyncCloses
<1>6. /\ sync' \in Sync /\ sync' # None /\ sync'.todo = t
      /\ sync'.db.row = [k \in Key |-> IF sync.db.row[k] = g THEN 0 ELSE sync.db.row[k]]
      /\ sync'.db.want = sync.db.want /\ sync'.db.error = sync.db.error
      /\ sync'.publish = sync.publish /\ sync'.org = sync.org /\ sync'.licenses = sync.licenses
      /\ Id' = Id
      /\ \A j \in Id : /\ rems'[j].type = rems[j].type
                       /\ rems'[j].what = rems[j].what
                       /\ rems'[j].uses = rems[j].uses
  BY <1>1, <1>2, <1>3, HideFacts
<1>7. apps' = apps
  BY DEF Hides, Hide
<1>8. Pending(s) = {s[1]} \cup Pending(t) /\ s[1] \in Pending(s)
  BY <1>2, <1>4, TailFacts, Zenon
<1>9. /\ \A i : Leaving(t, i) => Leaving(s, i)
      /\ \A i : Leaving(s, i) => Leaving(t, i) \/ i = g
      /\ Leaving(s, g) /\ g \in Id
  <2>1. g \in Id
    <3>1. s[1][1] = "hide" /\ s[1][2] = g
      BY <1>4
    <3> QED BY <1>5, <1>8, <3>1 DEF ListFits, OpsFit
  <2>2. Leaving(s, g)
    BY <1>4, <1>8, Zenon DEF Leaving
  <2>3. \A i : Leaving(t, i) => Leaving(s, i)
    BY <1>8 DEF Leaving
  <2>4. ASSUME NEW i, Leaving(s, i)
        PROVE  Leaving(t, i) \/ i = g
    <3>1. PICK x \in {<< "archive", i >>, << "hide", i >>} : x \in Pending(s)
      BY <2>4 DEF Leaving
    <3>2. CASE x = s[1]
      BY <1>4, <3>1, <3>2
    <3>3. CASE x \in Pending(t)
      BY <3>1, <3>3 DEF Leaving
    <3> QED BY <1>8, <3>1, <3>2, <3>3
  <2> QED BY <2>1, <2>2, <2>3, <2>4
<1>10. \A k \in Key : Row(k)' = IF Row(k) = g THEN 0 ELSE Row(k)
  BY <1>6 DEF Row
<1>11. /\ ClosesFirst(s) /\ ReferenceGoesAlone(s) /\ LicensesFollow(s)
       /\ ResourceIsOfRow(s) /\ OldRows(s) /\ StaysOpen(s)
  BY <1>5 DEF ListCloses
<1>12. \A x \in Pending(s) : x[1] # "close"
  <2> SUFFICES ASSUME NEW x \in Pending(s), x[1] = "close"
               PROVE  FALSE
    OBVIOUS
  <2>1. PICK n \in DOMAIN s : s[n] = x
    BY DEF Pending
  <2>2. 1 \in DOMAIN s /\ s[1][1] # "close" /\ (n = 1 \/ 1 < n)
    BY <1>4, ListFacts
  <2> QED BY <1>11, <2>1, <2>2 DEF ClosesFirst
<1>13. \A a : << "close", a >> \notin Pending(s)
  <2>1. \A a : << "close", a >>[1] = "close"
    OBVIOUS
  <2> QED BY <1>12, <2>1
<1>14. \A a : IsOpen(a)' <=> IsOpen(a)
  BY <1>7 DEF IsOpen
<1>15. ClosesFirst(t)'
  BY <1>8, <1>12, <1>13 DEF ClosesFirst, Pending
<1>16. \A i \in Id : IsReference(i)' <=> IsReference(i)
  BY <1>6 DEF IsReference
<1>17. ReferenceGoesAlone(t)'
  BY <1>6, <1>8, <1>9, <1>11, <1>16, Zenon DEF ReferenceGoesAlone, Leaving, Takes, Pending
<1>18. s[1] \notin {<< "licenses", 0 >>, << "organization", 0 >>, << "closeAll", 0 >>}
  BY <1>4
<1>19. LicensesFollow(t)'
  BY <1>6, <1>8, <1>11, <1>18, Zenon DEF LicensesFollow, Pending, IsEarly, Rank, KeyRank
<1>20. Row(Resource)' = (IF Row(Resource) = g THEN 0 ELSE Row(Resource))
       /\ Row(Item)' = (IF Row(Item) = g THEN 0 ELSE Row(Item))
  BY <1>10, KeyFacts DEF Resource, Item
<1>21. ResourceIsOfRow(t)'
  BY <1>6, <1>9, <1>11, <1>20, Zenon DEF ResourceIsOfRow, Leaving, Pending, Resource
<1>22. OldRows(t)'
  <2> SUFFICES ASSUME << "ensure", Resource >> \in Pending(t)
               PROVE  OldRows(t)'
    BY DEF OldRows, Pending, Resource
  <2>1. << "ensure", Resource >> \in Pending(s)
    BY <1>8
  <2>2. PICK r, i, r1, i1 : r = Row(Resource) /\ i = Row(Item) /\ r1 = Row(Resource)'
        /\ i1 = Row(Item)'
    OBVIOUS
  <2>3. r1 = (IF r = g THEN 0 ELSE r) /\ i1 = (IF i = g THEN 0 ELSE i)
    BY <1>20, <2>2
  <2>4. r # 0 => r \in Id /\ rems'[r].uses = sync.licenses
    BY <1>5, <1>6, <1>11, <2>1, <2>2, KeyFacts DEF OldRows, RowsFit, Row
  <2>5. i # 0 => OrgOf(i)' = sync.org
    <3>1. i # 0 => i \in Id /\ rems[i].type = "item"
      BY <1>5, <2>2, KeyFacts DEF RowsFit, Row, IsFor
    <3>2. i # 0 => OrgOf(i) = sync.org
      BY <1>11, <2>1, <2>2 DEF OldRows
    <3> QED BY <1>1, <1>6, <3>1, <3>2, OrgStays
  <2>6. i1 # 0 => OrgOf(Row(Item))' = sync.org
    BY <2>2, <2>3, <2>5, Zenon DEF OrgOf
  <2>7. (\E a \in Applicant : IsOpen(a)) /\ (i1 = 0 \/ Leaving(t, i1)) => r1 = 0 \/ Leaving(t, r1)
    <3> SUFFICES ASSUME \E a \in Applicant : IsOpen(a), i1 = 0 \/ Leaving(t, i1)
                 PROVE  r1 = 0 \/ Leaving(t, r1)
      OBVIOUS
    <3>1. i = 0 \/ Leaving(s, i)
      BY <1>9, <2>3
    <3>2. r = 0 \/ Leaving(s, r)
      BY <1>11, <2>1, <2>2, <3>1 DEF OldRows
    <3> QED BY <1>9, <2>3, <3>2
  <2>8. (\E a \in Applicant : IsOpen(a)') => \E a \in Applicant : IsOpen(a)
    BY <1>14
  <2> QED BY <1>6, <2>2, <2>3, <2>4, <2>6, <2>7, <2>8 DEF OldRows, Leaving, Pending, Resource, Item
<1>23. sync.publish /\ << "licenses", 0 >> \notin Pending(s) => Licenses' = Licenses
  <2> SUFFICES ASSUME sync.publish, << "licenses", 0 >> \notin Pending(s)
               PROVE  Licenses' = Licenses
    OBVIOUS
  <2>1. Again(s, g)
    BY <1>5, <1>9 DEF ListFits, ComesAgain
  <2>2. ~Soon(s, Terms) /\ ~Soon(s, Reference)
    <3>1. \A x \in Pending(s) : ~IsEarly(x) => ~(Rank(x) < 5)
      BY <1>11 DEF LicensesFollow
    <3>2. \A k \in {Terms, Reference} : Rank(<< "ensure", k >>) < 5 /\ Rank(<< "create", k >>) < 5
      <4> SUFFICES ASSUME NEW k \in {Terms, Reference}
                   PROVE  Rank(<< "ensure", k >>) < 5 /\ Rank(<< "create", k >>) < 5
        OBVIOUS
      <4>1. KeyRank(k) = 3 \/ KeyRank(k) = 4
        BY ResourceIsEnsured
      <4>2. Rank(<< "ensure", k >>) = KeyRank(k) /\ Rank(<< "create", k >>) = KeyRank(k)
        BY ResourceIsEnsured
      <4> QED BY <4>1, <4>2
    <3>3. \A k : ~IsEarly(<< "ensure", k >>) /\ ~IsEarly(<< "create", k >>)
      BY DEF IsEarly
    <3> QED BY <3>1, <3>2, <3>3 DEF Soon
  <2>3. Row(Reference) # g /\ (sync.db.want.terms # 0 => Row(Terms) # g)
    BY <2>1, <2>2 DEF Again
  <2>4. Row(Reference)' = Row(Reference) /\ (sync.db.want.terms # 0 => Row(Terms)' = Row(Terms))
    BY <1>10, <2>3, KeyFacts DEF Reference, Terms
  <2> QED BY <1>6, <2>4 DEF Licenses
<1>24. StaysOpen(t)'
  <2> SUFFICES ASSUME NEW a \in Applicant, IsOpen(a)'
               PROVE  IF sync.publish
                      THEN /\ apps'[a].org = sync.org
                           /\ apps'[a].licenses = sync.licenses
                           /\ sync.licenses # {}
                           /\ << "organization", 0 >> \notin Pending(t)
                                => apps'[a].org = sync.db.want.org
                           /\ << "licenses", 0 >> \notin Pending(t) => apps'[a].licenses = Licenses'
                      ELSE << "closeAll", 0 >> \in Pending(t)
    BY <1>6 DEF StaysOpen, Pending
  <2>1. IsOpen(a) /\ << "close", a >> \notin Pending(s)
    BY <1>13, <1>14
  <2> QED BY <1>7, <1>8, <1>11, <1>18, <1>23, <2>1 DEF StaysOpen
<1>25. ListCloses(t)'
  BY <1>15, <1>17, <1>19, <1>21, <1>22, <1>24 DEF ListCloses
<1> QED BY <1>5, <1>6, <1>25, ListIsTodo DEF SyncCloses

\* What is given up leaves what is open under what the rows are about: what REMS
\* refuses to hide is the old reference license, before the resource has been made anew.
LEMMA GiveUpCloses ==
    ASSUME Fits, RowsAgree, SyncCloses, Clean, GivesUp, failures' = failures
    PROVE  SyncCloses'
<1>1. SyncTypeOK /\ SyncFits /\ EntitiesFit
  BY DEF Fits
<1>2. PICK s : s = sync.todo
  OBVIOUS
<1>3. PICK g : g = Arg
  OBVIOUS
<1>4. sync # None /\ s \in Seq(Op) /\ s # << >> /\ crashes = 0
  BY <1>1, <1>2, SyncFacts DEF GivesUp, Clean
<1>5. ~sync.db.error /\ RowsFit(sync.db) /\ ListFits(s) /\ ListCloses(s)
  BY <1>1, <1>2, <1>4 DEF SyncFits, SyncCloses
<1>6. /\ sync' # None /\ sync'.db.error = TRUE /\ sync'.db.row = sync.db.row
      /\ rems' = rems /\ apps' = apps
  BY <1>1, <1>4, GiveUpFacts, Zenon DEF GivesUp
<1>7. s[1] \in Pending(s)
  BY <1>4, ListFacts DEF Pending
<1>8. /\ ClosesFirst(s) /\ ReferenceGoesAlone(s) /\ OldRows(s) /\ StaysOpen(s)
  BY <1>5 DEF ListCloses
<1>9. s[1] = << "hide", g >> /\ InUse(g)
  <2>1. failures + 1 # failures
    BY <1>1, BoundsAreNumbers DEF SyncTypeOK
  <2>2. ~(Doing("close") /\ ~IsOpen(Arg))
    <3> SUFFICES ASSUME Doing("close"), ~IsOpen(Arg)
                 PROVE  FALSE
      OBVIOUS
    <3>1. g \in Applicant /\ s[1] = << "close", g >>
      BY <1>1, <1>2, <1>3, ArgFacts
    <3> QED BY <1>3, <1>7, <1>8, <3>1 DEF ClosesFirst
  <2>3. Doing("hide") /\ InUse(g)
    BY <1>3, <2>1, <2>2 DEF GivesUp
  <2> QED BY <1>1, <1>2, <1>3, <2>3, ArgFacts
<1>10. s[1][1] = "hide" /\ s[1][2] = g /\ g \in Id
  <2>1. s[1][1] = "hide" /\ s[1][2] = g
    BY <1>9
  <2> QED BY <1>5, <1>7, <2>1 DEF ListFits, OpsFit
<1>11. PICK j \in Active("resource") \cup Active("item") : g \in rems[j].uses
       /\ rems[g].type \in {"license", "resource"}
  BY <1>9 DEF InUse
<1>12. IsReference(g)
  <2> SUFFICES ASSUME ~IsReference(g)
               PROVE  FALSE
    OBVIOUS
  <2>1. 1 \in DOMAIN s
    BY <1>4, ListFacts
  <2>2. \E m \in DOMAIN s : m < 1
    BY <1>5, <1>10, <1>11, <2>1 DEF ListFits, UsersFirst
  <2> QED BY <1>4, <2>2, ListFacts
<1>13. Takes(s[1], g) /\ Leaving(s, g)
  BY <1>7, <1>9 DEF Takes, Leaving
<1>14. sync.publish /\ \A i \in Id : i # g => ~Leaving(s, i)
  BY <1>7, <1>8, <1>10, <1>12, <1>13 DEF ReferenceGoesAlone
<1>15. << "ensure", Resource >> \in Pending(s)
  BY <1>5, <1>10, <1>12, <1>13, <1>14 DEF ListFits, ComesAgain, Again, IsReference
<1>16. j \in Id /\ rems[j].type = "resource"
  <2>1. j \in Id /\ rems[j].type \in {"resource", "item"}
    BY <1>11 DEF Active
  <2>2. rems[j].type = "item" => rems[g].type \in {"resource", "workflow", "form"}
    BY <1>1, <1>11, <2>1 DEF EntitiesFit
  <2>3. rems[g].type = "license"
    BY <1>12 DEF IsReference
  <2> QED BY <2>1, <2>2, <2>3
<1>17. PICK r, i : r = Row(Resource) /\ i = Row(Item)
  OBVIOUS
<1>18. j = r /\ r # 0 /\ ~Leaving(s, r)
  <2>1. j \in Active("resource")
    BY <1>11, <1>16 DEF Active
  <2>2. j = r
    BY <1>4, <1>17, <2>1 DEF RowsAgree, Cur, Row
  <2>3. j # 0
    BY <1>1, <1>16, RemsFacts
  <2>4. rems[g].type = "license"
    BY <1>12 DEF IsReference
  <2>5. j # g
    BY <1>16, <2>4
  <2> QED BY <1>14, <1>16, <2>2, <2>3, <2>5
<1>19. ASSUME NEW a \in Applicant, IsOpen(a)
       PROVE  i # 0 /\ apps[a].licenses = rems[r].uses /\ apps[a].org = OrgOf(i)
  <2>1. i # 0
    BY <1>8, <1>15, <1>17, <1>18, <1>19 DEF OldRows
  <2>2. rems[r].uses = sync.licenses /\ OrgOf(i) = sync.org
    BY <1>8, <1>15, <1>17, <1>18, <2>1 DEF OldRows
  <2>3. << "close", a >> \notin Pending(s)
    <3> SUFFICES ASSUME << "close", a >> \in Pending(s)
                 PROVE  FALSE
      OBVIOUS
    <3>1. PICK n \in DOMAIN s : s[n] = << "close", a >>
      BY DEF Pending
    <3>2. s[n][1] = "close"
      BY <3>1
    <3>3. 1 \in DOMAIN s /\ (n = 1 \/ 1 < n)
      BY <1>4, ListFacts
    <3> QED BY <1>8, <1>10, <3>2, <3>3 DEF ClosesFirst
  <2> QED BY <1>8, <1>14, <1>19, <2>1, <2>2, <2>3 DEF StaysOpen
<1>20. Covered(sync.db)
  BY <1>17, <1>18, <1>19, Zenon DEF Covered, Row
<1>21. Covered(sync.db)'
  BY <1>6, <1>20, Zenon DEF Covered, IsOpen, OrgOf, Item, Resource
<1> QED BY <1>6, <1>21 DEF SyncCloses

\* What is open when a sync ends is under what it has made.
LEMMA OpenAtCommit ==
    ASSUME Fits, SyncCloses, Clean, sync # None, sync.todo = << >>
    PROVE  /\ Covered(sync.db)
           /\ ~sync.db.error => \A a \in Applicant : IsOpen(a) =>
                 sync.publish /\ apps[a].licenses = Licenses /\ apps[a].org = sync.db.want.org
<1>1. SyncTypeOK /\ SyncFits /\ EntitiesFit
  BY DEF Fits
<1>2. RowsFit(sync.db) /\ IsMade
  BY <1>1 DEF SyncFits
<1> SUFFICES ASSUME ~sync.db.error, NEW a \in Applicant, IsOpen(a)
             PROVE  /\ sync.publish /\ apps[a].licenses = Licenses /\ apps[a].org = sync.db.want.org
                    /\ Row(Item) # 0 /\ Row(Resource) # 0
                    /\ apps[a].licenses = rems[Row(Resource)].uses
                    /\ apps[a].org = OrgOf(Row(Item))
  BY DEF SyncCloses, Covered, Row
<1>3. Pending(sync.todo) = {} /\ \A k : ~Soon(sync.todo, k)
  BY DEF Pending, Soon
<1>4. StaysOpen(sync.todo)
  BY DEF SyncCloses, ListCloses
<1>5. sync.publish /\ apps[a].licenses = Licenses /\ apps[a].org = sync.db.want.org
  BY <1>3, <1>4, Zenon DEF StaysOpen
<1>6. PICK w : w = sync.db.want
  OBVIOUS
<1>7. w \in Want /\ {Resource, Item, Workflow(w)} \subseteq Needed(w)
  BY <1>1, <1>6, SyncFacts DEF Needed
<1>8. \A k \in Needed(w) : Row(k) # 0 /\ rems[Row(k)].uses = Wanted(k).uses
  BY <1>2, <1>3, <1>5, <1>6 DEF IsMade
<1>9. Workflow(w) \in Key /\ Resource \in Key /\ Item \in Key
  BY <1>7, KeyFacts
<1>10. Wanted(Resource).uses = Licenses /\ Row(Workflow(w)) \in Wanted(Item).uses
  BY <1>1, <1>6, <1>9, WantedFacts
<1>11. apps[a].licenses = rems[Row(Resource)].uses
  BY <1>5, <1>7, <1>8, <1>10
<1>12. PICK i, f : i = Row(Item) /\ f = Row(Workflow(w))
  OBVIOUS
<1>13. i \in Id /\ rems[i].type = "item" /\ f \in rems[i].uses
  BY <1>2, <1>7, <1>8, <1>9, <1>10, <1>12, KeyFacts DEF RowsFit, Row, IsFor
<1>14. rems[f].type = "workflow" /\ rems[f].what[2] = w.org
  <2>1. IsFor(f, Workflow(w))
    BY <1>2, <1>7, <1>8, <1>9, <1>12 DEF RowsFit, Row
  <2>2. Workflow(w)[1] = "workflow" /\ Workflow(w)[2] = w.manual /\ Workflow(w)[3] = w.org
    BY DEF Workflow
  <2>3. \A k \in {Terms, Reference, Resource, Form, Item} : k[1] # "workflow"
    BY KeyFacts
  <2>4. rems[f].type = "workflow" /\ rems[f].what = << w.manual, w.org >>
    BY <2>1, <2>2, <2>3 DEF IsFor
  <2> QED BY <2>4
<1>15. f = CHOOSE x \in rems[i].uses : rems[x].type = "workflow"
  BY <1>1, <1>13, <1>14 DEF EntitiesFit, HasOne
<1>16. OrgOf(i) = w.org
  BY <1>14, <1>15 DEF OrgOf
<1> QED BY <1>5, <1>6, <1>7, <1>8, <1>11, <1>12, <1>16

LEMMA StartCloses ==
    ASSUME "stale" \notin Kinds, Fits, ResourcesHaveLicenses, RestIsCovered, Clean,
           NEW w \in Want, NEW publish \in BOOLEAN, Starts(w, publish)
    PROVE  SyncCloses'
<1>1. SyncTypeOK /\ EntitiesFit /\ RowsFit(db)
  BY DEF Fits
<1>2. PICK t : t = sync'.todo
  OBVIOUS
<1>3. /\ sync' # None /\ sync'.publish = publish
      /\ t = IF ~publish /\ db.row[Resource] = 0 THEN << >> ELSE Todo(w, publish)
      /\ sync'.db.error = (db.error /\ ~publish /\ db.row[Resource] = 0)
      /\ sync'.db.row = db.row /\ sync'.db.want = w
      /\ sync'.org = OldOrg /\ sync'.licenses = OldLicenses
      /\ sync = None /\ rems' = rems /\ apps' = apps
  BY <1>1, <1>2, StartFacts DEF Starts
<1>4. Covered(db)
  BY <1>3 DEF RestIsCovered
<1>5. \A k : Row(k)' = db.row[k]
  BY <1>3 DEF Row
<1>6. (\A a : IsOpen(a)' <=> IsOpen(a)) /\ Id' = Id
  BY <1>3 DEF IsOpen, Id
<1>7. CASE sync'.db.error
  <2>1. Covered(sync.db)'
    BY <1>3, <1>4 DEF Covered, IsOpen, OrgOf, Item, Resource
  <2> QED BY <1>7, <2>1 DEF SyncCloses
<1>8. CASE ~sync'.db.error
  <2>1. \A x \in Pending(t) : ~IsEarly(x)
    <3>1. CASE t = << >>
      BY <3>1 DEF Pending
    <3>2. CASE t = Todo(w, publish)
      <4>1. Pending(t) = FirstOps(w, publish)
        BY <3>2, TodoFacts
      <4> QED BY <4>1 DEF FirstOps, IsEarly
    <3> QED BY <1>3, <3>1, <3>2
  <2>2. \A i : ~Leaving(t, i) /\ \A x \in Pending(t) : ~Takes(x, i)
    BY <2>1 DEF Leaving, Takes, IsEarly
  <2>3. \A x \in Pending(t) : x[1] # "close"
    BY <2>1 DEF IsEarly
  <2>4. \A a : << "close", a >> \notin Pending(t)
    <3>1. \A a : << "close", a >>[1] = "close"
      OBVIOUS
    <3> QED BY <2>3, <3>1
  <2>5. ClosesFirst(t)'
    BY <2>3, <2>4 DEF ClosesFirst, Pending
  <2>6. ReferenceGoesAlone(t)' /\ ResourceIsOfRow(t)'
    BY <2>2 DEF ReferenceGoesAlone, ResourceIsOfRow, Leaving, Takes, Pending
  <2>7. publish => {<< "licenses", 0 >>, << "organization", 0 >>} \subseteq Pending(t)
    <3> SUFFICES ASSUME publish
                 PROVE  {<< "licenses", 0 >>, << "organization", 0 >>} \subseteq Pending(t)
      OBVIOUS
    <3>1. Pending(t) = FirstOps(w, publish)
      BY <1>3, TodoFacts, Zenon
    <3> QED BY <3>1 DEF FirstOps
  <2>8. LicensesFollow(t)'
    BY <1>3, <2>7, Zenon DEF LicensesFollow, Pending
  <2>9. OldRows(t)'
    <3> SUFFICES /\ db.row[Resource] # 0 => rems[db.row[Resource]].uses = OldLicenses
                 /\ db.row[Item] # 0 => OrgOf(db.row[Item]) = OldOrg
                 /\ ~((\E a \in Applicant : IsOpen(a))
                      /\ (db.row[Item] = 0 \/ Leaving(t, db.row[Item])))
      <4>1. PICK r, i : r = db.row[Resource] /\ i = db.row[Item]
        OBVIOUS
      <4>2. Row(Resource)' = r /\ Row(Item)' = i
        BY <1>5, <4>1 DEF Resource, Item
      <4>3. OrgOf(Row(Item))' = OrgOf(i)
        BY <1>3, <4>2 DEF OrgOf
      <4>4. (\E a \in Applicant : IsOpen(a)') => \E a \in Applicant : IsOpen(a)
        BY <1>6
      <4> QED BY <1>3, <4>1, <4>2, <4>3, <4>4 DEF OldRows, Leaving, Pending, Resource, Item
    <3>1. (\E a \in Applicant : IsOpen(a)) => db.row[Item] # 0
      BY <1>4 DEF Covered
    <3>2. db.row[Resource] # 0 => rems[db.row[Resource]].uses = OldLicenses
      BY DEF OldLicenses, LicensesOf
    <3>3. db.row[Item] # 0 => OrgOf(db.row[Item]) = OldOrg
      BY DEF OldOrg, OrgOf
    <3> QED BY <2>2, <3>1, <3>2, <3>3
  <2>10. StaysOpen(t)'
    <3> SUFFICES ASSUME NEW a \in Applicant, IsOpen(a)
                 PROVE  IF publish
                        THEN /\ apps[a].org = OldOrg
                             /\ apps[a].licenses = OldLicenses
                             /\ OldLicenses # {}
                             /\ {<< "licenses", 0 >>, << "organization", 0 >>} \subseteq Pending(t)
                        ELSE << "closeAll", 0 >> \in Pending(t)
      BY <1>3, <1>6 DEF StaysOpen, Pending
    <3>1. /\ db.row[Item] # 0 /\ db.row[Resource] # 0
          /\ apps[a].licenses = rems[db.row[Resource]].uses
          /\ apps[a].org = OrgOf(db.row[Item])
      BY <1>4, Zenon DEF Covered
    <3>2. apps[a].licenses = OldLicenses /\ apps[a].org = OldOrg
      BY <3>1, Zenon DEF OldLicenses, LicensesOf, OldOrg, OrgOf
    <3>3. OldLicenses # {}
      <4>1. db.row[Resource] \in Id /\ rems[db.row[Resource]].type = "resource"
        BY <1>1, <3>1, KeyFacts DEF RowsFit, IsFor
      <4> QED BY <3>1, <4>1 DEF OldLicenses, LicensesOf, ResourcesHaveLicenses
    <3>4. ~publish => << "closeAll", 0 >> \in Pending(t)
      <4> SUFFICES ASSUME ~publish
                   PROVE  << "closeAll", 0 >> \in Pending(t)
        OBVIOUS
      <4>1. Pending(t) = FirstOps(w, publish)
        BY <1>3, <3>1, TodoFacts
      <4> QED BY <4>1 DEF FirstOps
    <3> QED BY <2>7, <3>2, <3>3, <3>4
  <2>11. ListCloses(t)'
    BY <2>5, <2>6, <2>8, <2>9, <2>10, Zenon DEF ListCloses
  <2> QED BY <1>2, <1>8, <2>11, ListIsTodo DEF SyncCloses
<1> QED BY <1>7, <1>8

\* Who applies, applies under what the rows are about.
LEMMA ApplyCovers ==
    ASSUME Fits, RowsAgree, crashes = 0, sync = None, Covered(db), NEW a \in Applicant, Apply(a)
    PROVE  Covered(db)'
<1>1. SyncTypeOK /\ EntitiesFit /\ RowsFit(db)
  BY DEF Fits
<1>2. PICK i, r, f :
         /\ i = db.row[Item]
         /\ r = CHOOSE x \in rems[i].uses : rems[x].type = "resource"
         /\ f = CHOOSE x \in rems[i].uses : rems[x].type = "workflow"
  BY Zenon
<1>3. /\ i # 0 /\ UNCHANGED << db, rems >>
      /\ \E state \in {Submitted(rems[f].what[1])} \cup ({"draft"} \cap Kinds) :
          apps' = [apps EXCEPT ![a] = [state |-> state, licenses |-> rems[r].uses,
                                     manual |-> rems[f].what[1], org |-> rems[f].what[2]]]
  BY <1>2, ZenonT(60) DEF Apply
<1>4. PICK state \in {Submitted(rems[f].what[1])} \cup ({"draft"} \cap Kinds) :
          apps' = [apps EXCEPT ![a] = [state |-> state, licenses |-> rems[r].uses,
                                     manual |-> rems[f].what[1], org |-> rems[f].what[2]]]
  BY <1>3, Zenon
<1>5. /\ apps'[a].licenses = rems[r].uses /\ apps'[a].org = OrgOf(i)
      /\ \A b \in Applicant : b # a => apps'[b] = apps[b]
  BY <1>1, <1>2, <1>4, Zenon DEF SyncTypeOK, OrgOf
<1>6. r = db.row[Resource] /\ r # 0
  <2>1. PICK q : q = db.row[Resource]
    OBVIOUS
  <2>2. i \in Id /\ rems[i].type = "item"
    BY <1>1, <1>2, <1>3, KeyFacts, ZenonT(60) DEF RowsFit, IsFor
  <2>3. rems[i].state # "archived"
    BY <1>2, <1>3, KeyFacts, Zenon DEF RowsAgree, Cur
  <2>4. i \in Active("item")
    BY <2>2, <2>3 DEF Active
  <2>5. q # 0 /\ q \in rems[i].uses
    BY <2>1, <2>4 DEF RowsAgree, Cur
  <2>6. rems[q].type = "resource"
    BY <1>1, <2>1, <2>5, KeyFacts, Zenon DEF RowsFit, IsFor
  <2>7. q = r
    BY <1>1, <1>2, <2>2, <2>5, <2>6 DEF EntitiesFit, HasOne
  <2> QED BY <2>1, <2>5, <2>7
<1>7. \A b \in Applicant : b # a /\ IsOpen(b)' => IsOpen(b)
  BY <1>5 DEF IsOpen
<1>8. ASSUME NEW b \in Applicant, IsOpen(b)'
      PROVE  /\ db.row[Item] # 0 /\ db.row[Resource] # 0
             /\ apps'[b].licenses = rems[db.row[Resource]].uses
             /\ apps'[b].org = OrgOf(db.row[Item])
  <2>1. CASE b = a
    BY <1>2, <1>3, <1>5, <1>6, <2>1, Zenon
  <2>2. CASE b # a
    BY <1>5, <1>7, <1>8, <2>2 DEF Covered
  <2> QED BY <2>1, <2>2, Zenon
<1> QED BY <1>3, <1>8 DEF Covered, OrgOf, Item, Resource

\* What happens to an application in REMS leaves it under what it was made.
LEMMA StateCovers ==
    ASSUME Fits, Covered(db), NEW a \in Applicant, NEW from, NEW to, SetState(a, from, to),
           from \subseteq {"submitted", "approved", "returned", "draft"},
           apps[a].state # "draft"
    PROVE  Covered(db)'
<1>1. SyncTypeOK /\ EntitiesFit /\ RowsFit(db)
  BY DEF Fits
<1>2. /\ apps[a] \in Filed
      /\ \A b \in Applicant : b # a => apps'[b] = apps[b]
      /\ apps'[a] = [apps[a] EXCEPT !.state = to]
  BY <1>1, SetStateFacts
<1>3. apps'[a].licenses = apps[a].licenses /\ apps'[a].org = apps[a].org
  BY <1>2 DEF Filed
<1>4. IsOpen(a)
  BY DEF SetState, IsOpen
<1>5. \A b \in Applicant : IsOpen(b)' => /\ IsOpen(b)
                                         /\ apps'[b].licenses = apps[b].licenses
                                         /\ apps'[b].org = apps[b].org
  BY <1>2, <1>3, <1>4, Zenon DEF IsOpen
<1>6. rems' = rems /\ db' = db
  BY DEF SetState
<1> QED BY <1>5, <1>6 DEF Covered, OrgOf, Item, Resource

LEMMA AppliedCovers ==
    ASSUME Fits, RowsAgree, NoDrafts, crashes = 0, sync = None, Covered(db),
           NEW a \in Applicant, Apply(a) \/ Submit(a) \/ Handle(a)
    PROVE  Covered(db)'
<1>1. apps[a] # None => apps[a].state # "draft"
  BY DEF NoDrafts
<1>2. CASE Apply(a)
  BY <1>2, ApplyCovers
<1>3. CASE Submit(a)
  <2>1. PICK to : to = Submitted(apps[a].manual)
    OBVIOUS
  <2>2. SetState(a, {"draft", "returned"}, to) /\ apps[a] # None
    BY <1>3, <2>1 DEF Submit
  <2> QED BY <1>1, <2>2, StateCovers
<1>4. CASE Handle(a)
  <2>1. \A from, to : SetState(a, from, to) => apps[a] # None
    BY DEF SetState
  <2>2. CASE \E s \in {"approved", "rejected", "returned"} : SetState(a, {"submitted"}, s)
    <3>1. PICK s \in {"approved", "rejected", "returned"} : SetState(a, {"submitted"}, s)
      BY <2>2
    <3> QED BY <1>1, <2>1, <3>1, StateCovers
  <2>3. CASE SetState(a, {"submitted", "approved", "returned"}, "closed")
    BY <1>1, <2>1, <2>3, StateCovers
  <2> QED BY <1>4, <2>2, <2>3 DEF Handle
<1> QED BY <1>2, <1>3, <1>4

LEMMA NoDraftsStep ==
    ASSUME "draft" \notin Kinds, Fits, NoDrafts, [SyncNext]_syncVars
    PROVE  NoDrafts'
<1>1. SyncTypeOK /\ EntitiesFit /\ RowsFit(db) /\ SyncFits
  BY DEF Fits
<1>2. CASE apps' = apps
  BY <1>2 DEF NoDrafts
<1>3. ASSUME NEW a \in Applicant, NEW from, NEW to, SetState(a, from, to), to # "draft"
      PROVE  NoDrafts'
  <2>1. apps'[a].state = to /\ \A b \in Applicant : b # a => apps'[b] = apps[b]
    BY <1>1, <1>3, SetStateFacts, Zenon
  <2> QED BY <1>3, <2>1 DEF NoDrafts
<1>4. ASSUME NEW a \in Applicant, Apply(a)
      PROVE  NoDrafts'
  <2>1. PICK r, f :
         /\ r = CHOOSE i \in rems[db.row[Item]].uses : rems[i].type = "resource"
         /\ f = CHOOSE i \in rems[db.row[Item]].uses : rems[i].type = "workflow"
    OBVIOUS
  <2>2. PICK state \in {Submitted(rems[f].what[1])} \cup ({"draft"} \cap Kinds) :
          apps' = [apps EXCEPT ![a] = [state |-> state, licenses |-> rems[r].uses,
                                     manual |-> rems[f].what[1], org |-> rems[f].what[2]]]
    BY <1>4, <2>1, Zenon DEF Apply
  <2>3. state # "draft"
    BY DEF Submitted
  <2>4. apps'[a].state # "draft" /\ \A b \in Applicant : b # a => apps'[b] = apps[b]
    BY <1>1, <2>2, <2>3 DEF SyncTypeOK
  <2> QED BY <2>4 DEF NoDrafts
<1>5. ASSUME NEW a \in Applicant, Submit(a) \/ Handle(a)
      PROVE  NoDrafts'
  <2>1. CASE Submit(a)
    <3>1. PICK to : to = Submitted(apps[a].manual)
      OBVIOUS
    <3>2. SetState(a, {"draft", "returned"}, to) /\ to # "draft"
      BY <2>1, <3>1 DEF Submit, Submitted
    <3> QED BY <1>3, <3>2
  <2>2. CASE Handle(a)
    BY <1>3, <2>2 DEF Handle
  <2> QED BY <1>5, <2>1, <2>2
<1>6. CASE Close
  <2>1. CASE ~IsOpen(Arg)
    BY <1>2, <1>6, <2>1 DEF Close
  <2>2. CASE IsOpen(Arg)
    <3>1. PICK c \in Applicant : c = Arg
      BY <1>1, <1>6, ArgFacts DEF Close
    <3>2. apps[c] \in Filed /\ apps' = [apps EXCEPT ![c].state = "closed"]
          /\ apps \in [Applicant -> Filed \cup {None}]
      BY <1>1, <1>6, <2>2, <3>1 DEF Close, IsOpen, SyncTypeOK
    <3>3. apps'[c].state = "closed" /\ \A a \in Applicant : a # c => apps'[a] = apps[a]
      BY <3>2 DEF Filed
    <3> QED BY <3>3 DEF NoDrafts
  <2> QED BY <2>1, <2>2
<1>7. CASE Update \/ Delete \/ Restore \/ CommandSyncs
  <2>1. \E w \in Want, publish \in BOOLEAN : Starts(w, publish)
    BY <1>1, <1>7, RequestFacts
  <2> QED BY <1>2, <2>1 DEF Starts
<1>8. CASE Plan
  BY <1>1, <1>2, <1>8, PlanFacts
<1>9. CASE CommandLists \/ CommandEnds \/ ReferenceDataChanges \/ ForgetUnused \/ Create
           \/ Disable \/ Hide
           \/ Commit \/ CallFails \/ RollBack \/ UNCHANGED syncVars
  BY <1>2, <1>9 DEF CommandLists, CommandEnds, ReferenceDataChanges, ForgetUnused, Create,
     Disable, Hide, Commit,
                    CallFails, RollBack, syncVars
<1> QED BY <1>4, <1>5, <1>6, <1>7, <1>8, <1>9 DEF SyncNext, Proceed, Command

LEMMA LicensesStep ==
    ASSUME Fits, ResourcesHaveLicenses, [SyncNext]_syncVars
    PROVE  ResourcesHaveLicenses'
<1>1. SyncTypeOK /\ EntitiesFit /\ RowsFit(db) /\ SyncFits
  BY DEF Fits
<1>2. /\ Id \subseteq Id'
      /\ \A i \in Id : rems'[i].type = rems[i].type /\ rems'[i].uses = rems[i].uses
  BY EntitiesLast
<1>3. CASE Create
  <2>1. PICK k \in Key : k = Arg /\ sync # None /\ sync.publish
    BY <1>1, <1>3, CreatingFacts
  <2>2. Id' = Id \cup {NewId} /\ rems'[NewId] = Wanted(k)
    BY <1>1, <1>3, <2>1, CreateFacts
  <2>3. Wanted(k).type = "resource" => Wanted(k).uses # {}
    <3>1. Licenses # {}
      BY <2>1 DEF Licenses
    <3>2. Wanted(k).type = "resource" => k = Resource
      BY <1>1, <2>1, WantedFacts
    <3> QED BY <1>1, <2>1, <3>1, <3>2, WantedFacts
  <2> QED BY <1>2, <2>2, <2>3 DEF ResourcesHaveLicenses
<1>4. CASE Id' = Id
  BY <1>2, <1>4 DEF ResourcesHaveLicenses
<1>5. Create \/ Id' = Id
  <2>1. CASE Waits \/ ReferenceDataChanges \/ Commit \/ RollBack \/ ForgetUnused \/ Closes
             \/ GivesUp
             \/ \E w \in Want, publish \in BOOLEAN : Starts(w, publish)
    BY <2>1 DEF Waits, ReferenceDataChanges, Commit, RollBack, ForgetUnused, Closes, GivesUp,
       Starts, Id
  <2>2. CASE Plan
    BY <1>1, <2>2, PlanFacts DEF Id
  <2>3. CASE Disable \/ Hides
    BY <1>1, <2>3, DisableFacts, HideFacts
  <2> QED BY <1>1, <2>1, <2>2, <2>3, StepCases
<1> QED BY <1>3, <1>4, <1>5

\* Nothing fails in a step that leaves a history without failures.
LEMMA CleanBefore ==
    ASSUME Fits, Clean', [SyncNext]_syncVars
    PROVE  Clean /\ failures' = failures /\ ~RollBack
<1>1. failures \in Nat /\ crashes \in Nat /\ failures' = 0 /\ crashes' = 0
  BY BoundsAreNumbers DEF Fits, SyncTypeOK, Clean
<1>2. SyncTypeOK /\ EntitiesFit /\ RowsFit(db) /\ SyncFits
  BY DEF Fits
<1>3. ~RollBack
  BY <1>1 DEF RollBack
<1>4. CASE Waits \/ ReferenceDataChanges \/ Commit \/ ForgetUnused \/ Closes \/ Create
           \/ Disable \/ Hides
           \/ (\E w \in Want, publish \in BOOLEAN : Starts(w, publish))
  BY <1>1, <1>3, <1>4 DEF Clean, Waits, ReferenceDataChanges, Commit, ForgetUnused, Closes,
     Starts, Create,
                          Disable, Hides, Hide
<1>5. CASE Plan
  BY <1>1, <1>2, <1>3, <1>5, PlanFacts DEF Clean
<1>6. CASE GivesUp
  BY <1>1, <1>3, <1>6 DEF Clean, GivesUp
<1> QED BY <1>2, <1>3, <1>4, <1>5, <1>6, StepCases

LEMMA CloseStep ==
    ASSUME "overlap" \notin Kinds, "stale" \notin Kinds, Fits, RowsAgree, ResourcesHaveLicenses, SyncCloses,
           RestIsCovered,
           [SyncNext]_syncVars
    PROVE  SyncCloses'
<1> SUFFICES ASSUME Clean', sync' # None
             PROVE  SyncCloses'
  BY DEF SyncCloses
<1>1. Clean /\ failures' = failures /\ ~RollBack
  BY CleanBefore
<1>2. SyncTypeOK /\ EntitiesFit /\ RowsFit(db) /\ SyncFits
  BY DEF Fits
<1>3. CASE Waits \/ ReferenceDataChanges
  <2>1. sync' = sync /\ rems' = rems /\ apps' = apps
    BY <1>3 DEF Waits, ReferenceDataChanges, MayAct
  <2>2. CASE sync.db.error
    <3>1. Covered(sync.db)
      BY <1>1, <2>1, <2>2, Zenon DEF SyncCloses
    <3>2. Covered(sync.db)'
      BY <2>1, <3>1, Zenon DEF Covered, IsOpen, OrgOf, Item, Resource
    <3> QED BY <2>1, <2>2, <3>2 DEF SyncCloses
  <2>3. CASE ~sync.db.error
    <3>1. PICK t : t = sync.todo
      OBVIOUS
    <3>2. ListCloses(t)
      BY <1>1, <2>1, <2>3, <3>1 DEF SyncCloses
    <3>3. ListCloses(t)'
      BY <2>1, <3>2, CloseListStays
    <3>4. ListCloses(sync.todo)'
      BY <2>1, <3>1, <3>3, ListIsTodo
    <3> QED BY <2>1, <2>3, <3>4 DEF SyncCloses
  <2> QED BY <2>2, <2>3
<1>4. CASE \E w \in Want, publish \in BOOLEAN : Starts(w, publish)
  BY <1>1, <1>4, StartCloses
<1>5. CASE Plan
  BY <1>5, PlanCloses
<1>6. CASE ForgetUnused \/ Disable \/ Closes
  BY <1>1, <1>6, SkipCloses
<1>7. CASE Create
  BY <1>1, <1>7, CreateCloses
<1>8. CASE Hides
  BY <1>1, <1>8, HideCloses
<1>9. CASE GivesUp
  BY <1>1, <1>9, GiveUpCloses
<1>10. CASE Commit
  BY <1>10 DEF Commit
<1> QED BY <1>1, <1>2, <1>3, <1>4, <1>5, <1>6, <1>7, <1>8, <1>9, <1>10, StepCases

\* A sync ends with its transaction.
LEMMA EndsAtCommit ==
    ASSUME Fits, sync # None, sync' = None, [SyncNext]_syncVars
    PROVE  Commit \/ RollBack
<1>1. SyncTypeOK /\ EntitiesFit /\ RowsFit(db) /\ SyncFits
  BY Zenon DEF Fits
<1>2. CASE Waits \/ ReferenceDataChanges
           \/ (\E w \in Want, publish \in BOOLEAN : Starts(w, publish))
  BY <1>2 DEF Waits, ReferenceDataChanges, Starts
<1>3. CASE Plan
  <2>1. sync.todo # << >> /\ \E more \in Seq(Op) : Put(more)
    BY <1>1, <1>3, PlanFacts
  <2> QED BY <1>1, <2>1, PutFacts
<1>4. CASE ForgetUnused \/ Create \/ Disable \/ Hides
  BY <1>1, <1>4, ForgetFacts, CreateFacts, DisableFacts, HideFacts
<1>5. CASE Closes
  <2>1. sync.todo # << >> /\ Put(<< >>) /\ << >> \in Seq(Op)
    BY <1>1, <1>5, ClosesFacts
  <2> QED BY <1>1, <2>1, PutFacts, Zenon
<1>6. CASE GivesUp
  BY <1>1, <1>6, GiveUpFacts DEF GivesUp
<1> QED BY <1>1, <1>2, <1>3, <1>4, <1>5, <1>6, StepCases

LEMMA CoverStep ==
    ASSUME "overlap" \notin Kinds, Fits, RowsAgree, NoDrafts, SyncCloses, RestIsCovered,
           [SyncNext]_syncVars
    PROVE  RestIsCovered'
<1> SUFFICES ASSUME Clean', sync' = None
             PROVE  Covered(db)'
  BY DEF RestIsCovered
<1>1. Clean /\ failures' = failures /\ ~RollBack
  BY CleanBefore
<1>2. SyncTypeOK /\ EntitiesFit /\ RowsFit(db) /\ SyncFits
  BY Zenon DEF Fits
<1>3. CASE Commit
  <2>1. Covered(sync.db)
    BY <1>1, <1>3, OpenAtCommit DEF Commit
  <2>2. db'.row = sync.db.row /\ rems' = rems /\ apps' = apps
    BY <1>2, <1>3, CommitFacts DEF Commit
  <2> QED BY <2>1, <2>2, Zenon DEF Covered, IsOpen, OrgOf, Item, Resource
<1>4. CASE sync = None
  <2>1. Covered(db) /\ crashes = 0
    BY <1>1, <1>4 DEF RestIsCovered, Clean
  <2>2. CASE \E a \in Applicant : Apply(a) \/ Submit(a) \/ Handle(a)
    BY <1>4, <2>1, <2>2, AppliedCovers
  <2>3. CASE UNCHANGED << db, rems, apps >>
    BY <2>1, <2>3 DEF Covered, IsOpen, OrgOf, Item, Resource
  <2>4. CASE Plan \/ ForgetUnused \/ Create \/ Disable \/ Hide \/ Close \/ CallFails
    <3>1. sync # None
      BY <1>2, <2>4, PlanFacts DEF ForgetUnused, Create, Disable, Hide, Close, CallFails, Doing
    <3> QED BY <1>4, <3>1
  <2>5. CASE CommandLists \/ CommandEnds \/ ReferenceDataChanges \/ RollBack \/ UNCHANGED syncVars
    BY <2>3, <2>5 DEF CommandLists, CommandEnds, ReferenceDataChanges, RollBack, syncVars
  <2>6. CASE Update \/ Delete \/ Restore \/ CommandSyncs
    <3>1. \E w \in Want, publish \in BOOLEAN : Starts(w, publish)
      BY <1>2, <2>6, RequestFacts
    <3> QED BY <2>3, <3>1 DEF Starts
  <2> QED BY <1>3, <2>2, <2>4, <2>5, <2>6 DEF SyncNext, Proceed, Command
<1>5. CASE sync # None /\ ~Commit
  BY <1>1, <1>5, EndsAtCommit
<1> QED BY <1>3, <1>4, <1>5

LEMMA CloseInit ==
    ASSUME SyncInit
    PROVE  NoDrafts /\ ResourcesHaveLicenses /\ SyncCloses /\ RestIsCovered
<1>1. rems = << >> /\ sync = None /\ \A a \in Applicant : apps[a] = None
  BY DEF SyncInit
<1>2. Id = {}
  BY <1>1 DEF Id
<1> QED BY <1>1, <1>2 DEF NoDrafts, ResourcesHaveLicenses, SyncCloses, RestIsCovered, Covered,
           IsOpen

\* A sync that succeeds leaves no application open that was made under other licenses or
\* to another organization, as long as no sync has failed or was rolled back, nobody
\* applies during a sync, no application remains a draft and no dataset changes between
\* the listing of the command and its sync.
THEOREM SyncClosesOld ==
    ASSUME "overlap" \notin Kinds, "draft" \notin Kinds, "stale" \notin Kinds
    PROVE  SyncSpec => OldApplicationsAreClosed
<1> DEFINE I == /\ Fits /\ RowsAgree /\ NoDrafts /\ ResourcesHaveLicenses
                /\ SyncCloses /\ RestIsCovered
<1> DEFINE Step ==
       failures + crashes' = 0 /\ sync # None /\ sync' = None /\ sync.publish /\ ~sync.db.error =>
          \A a \in Applicant : IsOpen(a) =>
              /\ apps[a].licenses = Licenses
              /\ apps[a].org = sync.db.want.org
<1>1. SyncInit => I
  BY FitsInit, AgreementInit, CloseInit
<1>2. I /\ [SyncNext]_syncVars => I'
  BY FitsStep, AgreementStep, NoDraftsStep, LicensesStep, CloseStep, CoverStep
<1>3. I /\ [SyncNext]_syncVars => [Step]_syncVars
  <2> SUFFICES ASSUME I, [SyncNext]_syncVars, failures + crashes' = 0, sync # None, sync' = None,
                      ~sync.db.error, NEW a \in Applicant, IsOpen(a)
               PROVE  apps[a].licenses = Licenses /\ apps[a].org = sync.db.want.org
    OBVIOUS
  <2>1. failures \in Nat /\ crashes \in Nat /\ crashes' \in Nat
    BY BoundsAreNumbers, TypesStep DEF Fits, SyncTypeOK
  <2>2. failures = 0 /\ crashes' = 0
    <3>1. \A m, n \in Nat : m + n = 0 => m = 0 /\ n = 0
      OBVIOUS
    <3> QED BY <2>1, <3>1, Zenon
  <2>3. CASE Commit
    <3>1. Clean /\ sync.todo = << >>
      BY <2>2, <2>3 DEF Clean, Commit
    <3> QED BY <3>1, OpenAtCommit
  <2>4. CASE RollBack
    BY <2>1, <2>2, <2>4 DEF RollBack
  <2> QED BY <2>3, <2>4, EndsAtCommit
<1> QED BY <1>1, <1>2, <1>3, PTL DEF SyncSpec, OldApplicationsAreClosed

(***************************************************************************)
(*                              APPLICATIONS                               *)
(*                                                                         *)
(* REMS looks at an application again whenever Metax asks for something    *)
(* that was read before.                                                   *)
(***************************************************************************)

Place == {"idle", "fields", "licenses", "submit", "remark", "mail submitted",
          "mail if approved", "command", "mail"}

\* A request that goes on has an application.
NothingGoesOnWithoutOne == app = None => \A x \in Actor : pc[x] = "idle"

\* What has been submitted stays complete until it is returned.
SubmittedIsComplete ==
    app # None /\ app.state \in {"submitted", "approved"} =>
        app.accepted = License /\ (item.form => app.filled)

AccessNeedsApproval == app # None => app.access = (app.state = "approved")

\* Handlers with a decision that REMS has recorded and that is to be mailed next.
Mailing(d) == {h \in Handler : pc[h] = "mail" /\ input[h] = d}

IsOfBot(d) == item.automatic /\ d = "approved"

\* Each recorded decision of a handler has been mailed, or a handler is about to.
MailedOrMailing ==
    \A d \in Decision : IsOfBot(d) \/ mails[d] + Cardinality(Mailing(d)) >= events[d]

IInv ==
    /\ TypeOK
    /\ NothingGoesOnWithoutOne
    /\ SubmittedIsComplete
    /\ AccessNeedsApproval
    /\ MailedOrMailing

LEMMA InitIsGood == Init => IInv
<1> SUFFICES ASSUME Init PROVE IInv OBVIOUS
<1>1. \A s \in Session : input[s] \in Body
  BY DEF Init, Actor, Body
<1>2. \A h \in Handler : input[h] \in Decision
  BY ApplicantsAreNoHandlers DEF Init, Actor, Decision
<1>3. TypeOK
  BY <1>1, <1>2, Zenon DEF Init, TypeOK, Body, Decision
<1>4. MailedOrMailing
  <2> SUFFICES ASSUME NEW d \in Decision
               PROVE  mails[d] + Cardinality(Mailing(d)) >= events[d]
    BY DEF MailedOrMailing
  <2>1. Mailing(d) = {}
    BY DEF Init, Mailing, Actor
  <2>2. Cardinality(Mailing(d)) = 0
    BY <2>1, FS_EmptySet
  <2>3. mails[d] = 0 /\ events[d] = 0
    BY DEF Init, Event
  <2> QED BY <2>2, <2>3
<1> QED
  BY <1>3, <1>4 DEF Init, IInv, NothingGoesOnWithoutOne, SubmittedIsComplete, AccessNeedsApproval

-----------------------------------------------------------------------------
(* Types. *)

LEMMA CountIsNumber == \A e, S : Cardinality({e} \cap S) \in Nat
BY FS_Singleton, FS_Intersection, FS_CardinalityType, Zenon

LEMMA MailKeepsType ==
    ASSUME TypeOK, NEW e \in Event, Mail(e)
    PROVE  mails' \in [Event -> Nat]
<1>1. mails \in [Event -> Nat]
  BY Zenon DEF TypeOK
<1>2. mails[e] + 1 \in Nat
  BY <1>1
<1> QED BY <1>1, <1>2 DEF Mail

LEMMA DecidedIsTyped ==
    ASSUME TypeOK, app # None, NEW c \in Decision
    PROVE  Decided(c) \in Application
BY Zenon DEF TypeOK, Decided, Application, State, Decision

LEMMA BeginKeepsType ==
    ASSUME TypeOK, NEW s \in Session, Begin(s)
    PROVE  /\ pc' \in [Actor -> Place]
           /\ input' \in [Actor -> Body \cup Decision]
           /\ \A t \in Session :
                 input'[t] \in Body
           /\ \A h \in Handler : input'[h] \in Decision
<1>1. PICK licenses \in SUBSET License, fields \in {"none", "some", "all"} :
          /\ input' = [input EXCEPT ![s] = [licenses |-> licenses, fields |-> fields]]
          /\ GoTo(s, FirstStep(fields))
  BY Zenon DEF Begin
<1>2. FirstStep(fields) \in Place
  BY DEF FirstStep, Place
<1>3. pc' \in [Actor -> Place]
  BY <1>1, <1>2, Zenon DEF GoTo, TypeOK, Place
<1>4. [licenses |-> licenses, fields |-> fields] \in Body
  BY DEF Body
<1>5. s \in Actor /\ \A h \in Handler : h \in Actor /\ h # s
  BY ApplicantsAreNoHandlers DEF Actor
<1>6. input \in [Actor -> Body \cup Decision]
  BY Zenon DEF TypeOK
<1>7. input' \in [Actor -> Body \cup Decision]
  BY <1>1, <1>4, <1>6, Zenon
<1>8. \A t \in Session : input'[t] \in Body
  BY <1>1, <1>4, <1>6, Zenon DEF TypeOK, Actor
<1>9. \A h \in Handler : input'[h] \in Decision
  BY <1>1, <1>5, <1>6, Zenon DEF TypeOK
<1> QED BY <1>3, <1>7, <1>8, <1>9

LEMMA TypeStep == IInv /\ [Next]_vars => TypeOK'
<1> SUFFICES ASSUME IInv, [Next]_vars PROVE TypeOK' OBVIOUS
<1> USE DEF IInv
<1>1. ASSUME NEW s \in Session, CreateApplication(s) PROVE TypeOK'
  <2>1. app' \in Application
    BY <1>1 DEF CreateApplication, Application, State
  <2> QED BY <1>1, <2>1, BeginKeepsType, Zenon DEF CreateApplication, TypeOK, Application, Place
<1>2. ASSUME NEW s \in Session, SubmitApplication(s) PROVE TypeOK'
  BY <1>2, BeginKeepsType, Zenon DEF SubmitApplication, TypeOK, Place
<1>3. ASSUME NEW s \in Session, SaveFields(s) \/ AcceptLicenses(s) \/ Remark(s) PROVE TypeOK'
  <2>1. app # None
    BY <1>3, Zenon DEF SaveFields, AcceptLicenses, Remark, At, NothingGoesOnWithoutOne, Actor
  <2>2. app' \in Application
    BY <1>3, <2>1, Zenon DEF SaveFields, AcceptLicenses, Remark, Refused, TypeOK, Application
  <2>3. pc' \in [Actor -> Place]
    BY <1>3, Zenon DEF SaveFields, AcceptLicenses, Remark, Refused, GoTo, TypeOK, Place
  <2> QED BY <1>3, <2>2, <2>3, Zenon DEF SaveFields, AcceptLicenses, Remark, TypeOK, Place
<1>4. ASSUME NEW s \in Session, PostSubmit(s) PROVE TypeOK'
  <2>1. app # None
    BY <1>4, Zenon DEF PostSubmit, At, NothingGoesOnWithoutOne, Actor
  <2>2. item.automatic \in BOOLEAN
    BY Zenon DEF TypeOK, CatalogueItem
  <2>3. app' \in Application
    <3>1. app \in Application
      BY <2>1, Zenon DEF TypeOK, Application
    <3>2. \A st \in State, b \in BOOLEAN : [app EXCEPT !.state = st, !.access = b] \in Application
      BY <3>1, Zenon DEF Application
    <3> QED BY <1>4, <2>2, <3>1, <3>2, Zenon DEF PostSubmit, Refused, State
  <2>4. events' \in [Event -> Nat]
    <3>1. events \in [Event -> Nat]
      BY Zenon DEF TypeOK
    <3>2. \A S : [e \in Event |-> events[e] + Cardinality({e} \cap S)] \in [Event -> Nat]
      BY <3>1, CountIsNumber
    <3>3. \/ events' = events
          \/ \E S : events' = [e \in Event |-> events[e] + Cardinality({e} \cap S)]
      BY <1>4, Zenon DEF PostSubmit
    <3> QED BY <3>1, <3>2, <3>3, Zenon
  <2>5. pc' \in [Actor -> Place]
    BY <1>4, Zenon DEF PostSubmit, Refused, GoTo, TypeOK, Place
  <2> QED BY <1>4, <2>3, <2>4, <2>5, Zenon DEF PostSubmit, TypeOK, Place
<1>5. ASSUME NEW s \in Session, MailSubmitted(s) \/ MailIfApproved(s) PROVE TypeOK'
  <2>1. mails' \in [Event -> Nat]
    BY <1>5, MailKeepsType, Zenon
       DEF MailSubmitted, MailIfApproved, Event, Decision, TypeOK
  <2> QED BY <1>5, <2>1, Zenon DEF MailSubmitted, MailIfApproved, GoTo, TypeOK
<1>6. ASSUME NEW h \in Handler, ReadApplication(h) PROVE TypeOK'
  <2>1. h \in Actor /\ h \notin Session /\ input \in [Actor -> Body \cup Decision]
    BY ApplicantsAreNoHandlers, Zenon DEF Actor, TypeOK
  <2>2. /\ input' \in [Actor -> Body \cup Decision]
        /\ \A s \in Session : input'[s] \in Body
        /\ \A g \in Handler : input'[g] \in Decision
    BY <1>6, <2>1, Zenon DEF ReadApplication, TypeOK, Actor
  <2>3. pc' \in [Actor -> Place]
    BY <1>6, Zenon DEF ReadApplication, GoTo, TypeOK, Place
  <2> QED BY <1>6, <2>2, <2>3, Zenon DEF ReadApplication, TypeOK, Place
<1>7. ASSUME NEW h \in Handler, PostCommand(h) PROVE TypeOK'
  <2>1. app # None /\ input[h] \in Decision
    BY <1>7, Zenon DEF PostCommand, At, NothingGoesOnWithoutOne, Actor, TypeOK
  <2>2. app' \in Application
    BY <1>7, <2>1, DecidedIsTyped, Zenon DEF PostCommand, Refused, TypeOK, IsAllowed
  <2>3. events' \in [Event -> Nat]
    <3>1. events \in [Event -> Nat] /\ input[h] \in Event
      BY <2>1, Zenon DEF TypeOK, Event
    <3>2. events[input[h]] + 1 \in Nat
      BY <3>1
    <3> QED BY <1>7, <3>1, <3>2 DEF PostCommand, Record
  <2> QED BY <1>7, <2>2, <2>3, Zenon DEF PostCommand, Refused, GoTo, TypeOK, Application
<1>8. ASSUME NEW h \in Handler, MailDecision(h) PROVE TypeOK'
  <2>1. input[h] \in Event
    BY Zenon DEF TypeOK, Event
  <2>2. mails' \in [Event -> Nat]
    BY <1>8, <2>1, MailKeepsType DEF MailDecision
  <2> QED BY <1>8, <2>2, Zenon DEF MailDecision, GoTo, TypeOK
<1>9. CASE UNCHANGED vars
  BY <1>9, Zenon DEF vars, TypeOK
<1> QED BY <1>1, <1>2, <1>3, <1>4, <1>5, <1>6, <1>7, <1>8, <1>9 DEF Next

-----------------------------------------------------------------------------
(* The application. *)

\* What a step may do to it.
LEMMA ApplicationStep ==
    ASSUME IInv, [Next]_vars
    PROVE  \/ app' = app
           \/ app = None /\ app' \in Application /\ app'.state = "draft" /\ ~app'.access
           \/ app # None /\ IsWritable
                /\ app' = [app EXCEPT !.filled = TRUE]
           \/ app # None /\ IsWritable /\ app' = [app EXCEPT !.accepted = License]
           \/ app # None /\ IsWritable /\ IsComplete
                /\ app' = [app EXCEPT !.state = IF item.automatic THEN "approved" ELSE "submitted",
                                      !.access = item.automatic]
           \/ app # None /\ \E c \in Decision : IsAllowed(c) /\ app' = Decided(c)
<1> USE DEF IInv
<1>1. ASSUME NEW s \in Session, SaveFields(s) \/ AcceptLicenses(s) \/ PostSubmit(s) PROVE app # None
  BY <1>1, Zenon DEF SaveFields, AcceptLicenses, PostSubmit, At, NothingGoesOnWithoutOne, Actor
<1>2. ASSUME NEW h \in Handler, PostCommand(h) PROVE app # None /\ input[h] \in Decision
  BY <1>2, Zenon DEF PostCommand, At, NothingGoesOnWithoutOne, Actor, TypeOK
<1>3. ASSUME NEW s \in Session, CreateApplication(s)
      PROVE  app = None /\ app' \in Application /\ app'.state = "draft" /\ ~app'.access
  BY <1>3 DEF CreateApplication, Application, State
<1>4. ASSUME NEW s \in Session, SaveFields(s)
      PROVE  app' = app \/ (IsWritable /\ app' = [app EXCEPT !.filled = TRUE])
  BY <1>4 DEF SaveFields, Refused, IsWritable
<1>5. ASSUME NEW s \in Session, AcceptLicenses(s)
      PROVE  app' = app \/ (IsWritable /\ app' = [app EXCEPT !.accepted = License])
  <2>1. CASE input[s].licenses = License /\ IsWritable
    BY <1>5, <2>1 DEF AcceptLicenses
  <2>2. CASE ~(input[s].licenses = License /\ IsWritable)
    BY <1>5, <2>2 DEF AcceptLicenses, Refused
  <2> QED BY <2>1, <2>2
<1>6. ASSUME NEW s \in Session, PostSubmit(s)
      PROVE  \/ app' = app
             \/ /\ IsWritable /\ IsComplete
                /\ app' = [app EXCEPT !.state = IF item.automatic THEN "approved" ELSE "submitted",
                                      !.access = item.automatic]
  <2>1. CASE IsWritable /\ IsComplete
    BY <1>6, <2>1, Zenon DEF PostSubmit
  <2>2. CASE ~(IsWritable /\ IsComplete)
    BY <1>6, <2>2, Zenon DEF PostSubmit, Refused
  <2> QED BY <2>1, <2>2
<1>7. ASSUME NEW h \in Handler, PostCommand(h)
      PROVE  app' = app \/ (IsAllowed(input[h]) /\ app' = Decided(input[h]))
  <2>1. CASE IsAllowed(input[h])
    BY <1>7, <2>1 DEF PostCommand
  <2>2. CASE ~IsAllowed(input[h])
    BY <1>7, <2>2 DEF PostCommand, Refused
  <2> QED BY <2>1, <2>2
<1>8. ASSUME NEW s \in Session,
             SubmitApplication(s) \/ Remark(s) \/ MailSubmitted(s) \/ MailIfApproved(s)
      PROVE  app' = app
  BY <1>8, Zenon DEF SubmitApplication, Remark, Refused, MailSubmitted, MailIfApproved
<1>9. ASSUME NEW h \in Handler, ReadApplication(h) \/ MailDecision(h) PROVE app' = app
  BY <1>9 DEF ReadApplication, MailDecision
<1>10. CASE UNCHANGED vars
  BY <1>10 DEF vars
<1> QED
  BY <1>1, <1>2, <1>3, <1>4, <1>5, <1>6, <1>7, <1>8, <1>9, <1>10 DEF Next

LEMMA CompleteStep == IInv /\ [Next]_vars => SubmittedIsComplete' /\ AccessNeedsApproval'
<1> SUFFICES ASSUME IInv, [Next]_vars PROVE SubmittedIsComplete' /\ AccessNeedsApproval' OBVIOUS
<1> USE DEF IInv, SubmittedIsComplete, AccessNeedsApproval
<1>1. item' = item
  BY Zenon DEF Next, CreateApplication, SubmitApplication, SaveFields, AcceptLicenses, PostSubmit,
         Remark, MailSubmitted, MailIfApproved, ReadApplication, PostCommand, MailDecision, vars
<1>2. app # None => app \in Application
  BY Zenon DEF TypeOK, Application
<1>3. item.automatic \in BOOLEAN
  BY Zenon DEF TypeOK, CatalogueItem
<1>4. CASE app' = app
  BY <1>1, <1>4
<1>5. CASE app = None /\ app' \in Application /\ app'.state = "draft" /\ ~app'.access
  BY <1>5 DEF Application
<1>6. CASE app # None /\ IsWritable
             /\ app' = [app EXCEPT !.filled = TRUE]
  BY <1>2, <1>6 DEF IsWritable, Application
<1>7. CASE app # None /\ IsWritable /\ app' = [app EXCEPT !.accepted = License]
  BY <1>2, <1>7 DEF IsWritable, Application
<1>8. CASE app # None /\ IsWritable /\ IsComplete
             /\ app' = [app EXCEPT !.state = IF item.automatic THEN "approved" ELSE "submitted",
                                   !.access = item.automatic]
  BY <1>1, <1>2, <1>3, <1>8 DEF IsComplete, Application
<1>9. CASE app # None /\ \E c \in Decision : IsAllowed(c) /\ app' = Decided(c)
  BY <1>1, <1>2, <1>9 DEF IsAllowed, Decided, Decision, Application
<1> QED BY <1>4, <1>5, <1>6, <1>7, <1>8, <1>9, ApplicationStep

LEMMA GoingOnStep == IInv /\ [Next]_vars => NothingGoesOnWithoutOne'
<1> SUFFICES ASSUME IInv, [Next]_vars, app' = None
             PROVE  \A x \in Actor : pc'[x] = "idle"
  BY DEF NothingGoesOnWithoutOne
<1> USE DEF IInv
<1>1. app = None
  <2> SUFFICES ASSUME app # None PROVE app' \in Application
    BY NoneIsNoApplication
  <2>1. app \in Application
    BY Zenon DEF TypeOK
  <2>2. \A c \in Decision : Decided(c) \in Application
    BY DecidedIsTyped
  <2>3. /\ [app EXCEPT !.filled = TRUE] \in Application
        /\ [app EXCEPT !.accepted = License] \in Application
    BY <2>1, Zenon DEF Application
  <2>4. \A st \in State, b \in BOOLEAN : [app EXCEPT !.state = st, !.access = b] \in Application
    BY <2>1, Zenon DEF Application
  <2>5. item.automatic \in BOOLEAN
    BY Zenon DEF TypeOK, CatalogueItem
  <2> QED BY <2>1, <2>2, <2>3, <2>4, <2>5, ApplicationStep, Zenon DEF State
<1>2. \A x \in Actor : pc[x] = "idle"
  BY <1>1 DEF NothingGoesOnWithoutOne
<1>3. ASSUME NEW s \in Session PROVE ~CreateApplication(s) /\ ~SubmitApplication(s)
  <2>1. ~CreateApplication(s)
    <3>1. [state |-> "draft", accepted |-> {}, filled |-> FALSE, access |-> FALSE] \in Application
      BY DEF Application, State
    <3> QED BY <3>1, NoneIsNoApplication, Zenon DEF CreateApplication
  <2> QED BY <1>1, <2>1 DEF SubmitApplication
<1>4. ASSUME NEW s \in Session,
             SaveFields(s) \/ AcceptLicenses(s) \/ PostSubmit(s) \/ Remark(s)
                \/ MailSubmitted(s) \/ MailIfApproved(s)
      PROVE  FALSE
  BY <1>2, <1>4, Zenon DEF SaveFields, AcceptLicenses, PostSubmit, Remark, MailSubmitted,
                    MailIfApproved, At, Actor
<1>5. ASSUME NEW h \in Handler, ReadApplication(h) \/ PostCommand(h) \/ MailDecision(h)
      PROVE  FALSE
  BY <1>1, <1>2, <1>5 DEF ReadApplication, PostCommand, MailDecision, At, Actor
<1>6. CASE UNCHANGED vars
  BY <1>2, <1>6 DEF vars
<1> QED BY <1>3, <1>4, <1>5, <1>6 DEF Next

-----------------------------------------------------------------------------
(* Mails. *)

LEMMA MailingIsFinite == \A d : IsFiniteSet(Mailing(d)) /\ Cardinality(Mailing(d)) \in Nat
BY HandlersAreFinite, FS_Subset, FS_CardinalityType DEF Mailing

\* Who mails what depends on the handlers alone.
LEMMA MailingStays ==
    ASSUME \A h \in Handler : pc'[h] = pc[h] /\ input'[h] = input[h], NEW d
    PROVE  Mailing(d)' = Mailing(d)
BY DEF Mailing

\* Requests of the applicant.
LEMMA SessionStep ==
    ASSUME IInv, NEW s \in Session,
           \/ CreateApplication(s) \/ SubmitApplication(s)
           \/ SaveFields(s) \/ AcceptLicenses(s) \/ PostSubmit(s) \/ Remark(s)
           \/ MailSubmitted(s) \/ MailIfApproved(s)
    PROVE  /\ \A h \in Handler : pc'[h] = pc[h] /\ input'[h] = input[h]
           /\ \A d \in Decision : IsOfBot(d) \/ (events'[d] = events[d] /\ mails'[d] >= mails[d])
<1>1. \A h \in Handler : h \in Actor /\ h # s
  BY ApplicantsAreNoHandlers DEF Actor
<1>2. /\ pc \in [Actor -> Place] /\ input \in [Actor -> Body \cup Decision]
      /\ events \in [Event -> Nat] /\ mails \in [Event -> Nat] /\ Decision \subseteq Event
  BY Zenon DEF IInv, TypeOK, Place, Event
<1>3. \A place : GoTo(s, place) => \A h \in Handler : pc'[h] = pc[h]
  BY <1>1, <1>2 DEF GoTo
<1>4. Begin(s) => \A h \in Handler : pc'[h] = pc[h] /\ input'[h] = input[h]
  BY <1>1, <1>2, <1>3 DEF Begin
<1>5. \A h \in Handler : pc'[h] = pc[h] /\ input'[h] = input[h]
  BY <1>3, <1>4, Zenon DEF CreateApplication, SubmitApplication, SaveFields, AcceptLicenses,
     PostSubmit,
                    Remark, MailSubmitted, MailIfApproved, Refused
<1>6. \A e \in Event : Mail(e) => \A d \in Decision : mails'[d] >= mails[d]
  BY <1>2 DEF Mail
<1>7. \A d \in Decision : mails'[d] >= mails[d]
  <2>1. CASE mails' = mails
    BY <2>1, <1>2
  <2> QED BY <2>1, <1>6, Zenon DEF CreateApplication, SubmitApplication, SaveFields, AcceptLicenses,
                    PostSubmit, Remark, MailSubmitted, MailIfApproved, Event, Decision
<1>8. ASSUME NEW d \in Decision, ~IsOfBot(d) PROVE events'[d] = events[d]
  <2>1. CASE events' = events
    BY <2>1
  <2>2. CASE PostSubmit(s) /\ events' # events
    <3> DEFINE Recorded == {"submitted"} \cup (IF item.automatic THEN {"approved"} ELSE {})
    <3>1. events' = [e \in Event |-> events[e] + Cardinality({e} \cap Recorded)]
      BY <2>2, Zenon DEF PostSubmit
    <3>2. d \notin Recorded /\ d \in Event
      BY <1>8 DEF Decision, IsOfBot, Event
    <3>3. {d} \cap Recorded = {}
      BY <3>2
    <3>4. Cardinality({d} \cap Recorded) = 0
      BY <3>3, FS_EmptySet
    <3> HIDE DEF Recorded
    <3> QED BY <1>2, <3>1, <3>2, <3>4
  <2> QED BY <2>1, <2>2, Zenon DEF CreateApplication, SubmitApplication, SaveFields, AcceptLicenses,
                    Remark, MailSubmitted, MailIfApproved
<1> QED BY <1>5, <1>7, <1>8

LEMMA MailStep == IInv /\ [Next]_vars => MailedOrMailing'
<1> SUFFICES ASSUME IInv, [Next]_vars, NEW d \in Decision
             PROVE  (IsOfBot(d) \/ mails[d] + Cardinality(Mailing(d)) >= events[d])'
  BY DEF MailedOrMailing
<1> DEFINE Told == IsOfBot(d) \/ mails[d] + Cardinality(Mailing(d)) >= events[d]
<1>1. Told
  BY DEF IInv, MailedOrMailing
<1>2. item' = item
  BY Zenon DEF Next, CreateApplication, SubmitApplication, SaveFields, AcceptLicenses, PostSubmit,
         Remark, MailSubmitted, MailIfApproved, ReadApplication, PostCommand, MailDecision, vars
<1>3. /\ pc \in [Actor -> Place] /\ input \in [Actor -> Body \cup Decision]
      /\ events \in [Event -> Nat] /\ mails \in [Event -> Nat] /\ Decision \subseteq Event
      /\ d \in Event /\ Handler \subseteq Actor
      /\ \A h \in Handler : input[h] \in Decision
  BY Zenon DEF IInv, TypeOK, Place, Event, Actor
<1>4. events' \in [Event -> Nat] /\ mails' \in [Event -> Nat]
  BY TypeStep, Zenon DEF TypeOK
<1>5. IsOfBot(d)' = IsOfBot(d)
  BY <1>2 DEF IsOfBot
<1> DEFINE Count == Cardinality(Mailing(d))
<1>6. Count \in Nat
  BY MailingIsFinite
<1>7. ASSUME NEW s \in Session,
             \/ CreateApplication(s) \/ SubmitApplication(s)
             \/ SaveFields(s) \/ AcceptLicenses(s) \/ PostSubmit(s) \/ Remark(s)
             \/ MailSubmitted(s) \/ MailIfApproved(s)
      PROVE  Told'
  <2>1. Mailing(d)' = Mailing(d)
    BY <1>7, SessionStep, MailingStays
  <2>2. IsOfBot(d) \/ (events'[d] = events[d] /\ mails'[d] >= mails[d])
    BY <1>7, SessionStep
  <2>3. events[d] \in Nat /\ mails[d] \in Nat /\ mails'[d] \in Nat
    BY <1>3, <1>4
  <2> QED BY <1>1, <1>5, <1>6, <2>1, <2>2, <2>3
<1>8. ASSUME NEW h \in Handler, ReadApplication(h) PROVE Told'
  <2>1. Mailing(d)' = Mailing(d)
    BY <1>3, <1>8 DEF ReadApplication, Mailing, At, GoTo
  <2> QED BY <1>1, <1>5, <1>8, <2>1 DEF ReadApplication
<1>9. ASSUME NEW h \in Handler, PostCommand(h) PROVE Told'
  <2>1. CASE IsAllowed(input[h])
    <3>1. /\ pc' = [pc EXCEPT ![h] = "mail"] /\ pc[h] = "command"
          /\ events' = [events EXCEPT ![input[h]] = @ + 1]
          /\ mails' = mails /\ input' = input
      BY <1>9, <2>1 DEF PostCommand, GoTo, Record, At
    <3>2. CASE input[h] = d
      <4>1. Mailing(d)' = Mailing(d) \cup {h} /\ h \notin Mailing(d)
        BY <1>3, <3>1, <3>2 DEF Mailing
      <4>2. Cardinality(Mailing(d)') = Count + 1
        BY <4>1, MailingIsFinite, FS_AddElement
      <4>3. events'[d] = events[d] + 1 /\ events[d] \in Nat /\ mails[d] \in Nat
        BY <1>3, <3>1, <3>2
      <4> QED BY <1>1, <1>5, <1>6, <3>1, <4>2, <4>3
    <3>3. CASE input[h] # d
      <4>1. Mailing(d)' = Mailing(d)
        BY <1>3, <3>1, <3>3 DEF Mailing
      <4>2. events'[d] = events[d]
        BY <1>3, <3>1, <3>3
      <4> QED BY <1>1, <1>5, <3>1, <4>1, <4>2
    <3> QED BY <3>2, <3>3
  <2>2. CASE ~IsAllowed(input[h])
    <3>1. /\ pc' = [pc EXCEPT ![h] = "idle"] /\ pc[h] = "command"
          /\ events' = events /\ mails' = mails /\ input' = input
      BY <1>9, <2>2 DEF PostCommand, Refused, GoTo, At
    <3>2. Mailing(d)' = Mailing(d)
      BY <1>3, <3>1 DEF Mailing
    <3> QED BY <1>1, <1>5, <3>1, <3>2
  <2> QED BY <2>1, <2>2
<1>10. ASSUME NEW h \in Handler, MailDecision(h) PROVE Told'
  <2>1. /\ pc' = [pc EXCEPT ![h] = "idle"] /\ pc[h] = "mail"
        /\ mails' = [mails EXCEPT ![input[h]] = @ + 1]
        /\ events' = events /\ input' = input
    BY <1>10 DEF MailDecision, GoTo, Mail, At
  <2>2. CASE input[h] = d
    <3>1. Mailing(d)' = Mailing(d) \ {h} /\ h \in Mailing(d)
      BY <1>3, <2>1, <2>2 DEF Mailing
    <3>2. Cardinality(Mailing(d)') = Count - 1
      BY <3>1, MailingIsFinite, FS_RemoveElement, Zenon
    <3>3. mails'[d] = mails[d] + 1 /\ mails[d] \in Nat /\ events[d] \in Nat
      BY <1>3, <2>1, <2>2
    <3> QED BY <1>1, <1>5, <1>6, <2>1, <3>2, <3>3
  <2>3. CASE input[h] # d
    <3>1. Mailing(d)' = Mailing(d)
      BY <1>3, <2>1, <2>3 DEF Mailing
    <3>2. mails'[d] = mails[d]
      BY <1>3, <2>1, <2>3
    <3> QED BY <1>1, <1>5, <2>1, <3>1, <3>2
  <2> QED BY <2>2, <2>3
<1>11. CASE UNCHANGED vars
  <2>1. Mailing(d)' = Mailing(d)
    BY <1>11 DEF vars, Mailing
  <2> QED BY <1>1, <1>5, <1>11, <2>1 DEF vars
<1> QED BY <1>7, <1>8, <1>9, <1>10, <1>11 DEF Next

LEMMA Invariance == Spec => []IInv
<1>1. IInv /\ [Next]_vars => IInv'
  BY TypeStep, GoingOnStep, CompleteStep, MailStep DEF IInv
<1> QED BY InitIsGood, <1>1, PTL DEF Spec

\* The entitlement in REMS follows the state of the application: handlers and
\* the bot give it only for complete applications, and closing takes it away.
THEOREM AccessIsApprovedCorrect == Spec => []AccessIsApproved
<1>1. IInv => AccessIsApproved
  BY Zenon DEF IInv, AccessIsApproved, SubmittedIsComplete, AccessNeedsApproval, TypeOK
<1> QED BY <1>1, Invariance, PTL

\* However many handlers look at an application and decide afterwards, a
\* decision is not replaced by another, except that an approval can be closed.
THEOREM DecisionsStayCorrect == Spec => DecisionsStay
<1> DEFINE Stays == app # None /\ app'.state # app.state
                    => /\ app.state = "approved" => app'.state = "closed"
                       /\ app.state \notin {"rejected", "closed"}
<1>1. ASSUME IInv, [Next]_vars PROVE Stays
  <2>1. app # None => app \in Application
    BY <1>1, Zenon DEF IInv, TypeOK, Application
  <2> QED BY <1>1, <2>1, ApplicationStep, Zenon
             DEF IsWritable, IsAllowed, Decided, Decision, Application
<1>2. IInv /\ [Next]_vars =>
      [app # None /\ app'.state # app.state
       => /\ app.state = "approved" => app'.state = "closed"
          /\ app.state \notin {"rejected", "closed"}]_vars
  BY <1>1
<1> QED BY <1>2, Invariance, PTL DEF Spec, DecisionsStay
\* Whatever handlers decide one after another or at the same time, once no
\* request is running each decision that REMS recorded has been mailed to the
\* applicant; what the bot approves may be closed before it is mailed.
THEOREM DecisionsAreMailedCorrect == Spec => []DecisionsAreMailed
<1>1. ASSUME IInv, AllIdle, NEW d \in Decision
      PROVE  mails[d] >= events[d] \/ (item.automatic /\ d = "approved")
  <2>1. Mailing(d) = {}
    BY <1>1 DEF AllIdle, At, Actor, Mailing
  <2>2. Cardinality(Mailing(d)) = 0
    BY <2>1, FS_EmptySet
  <2>3. mails[d] \in Nat /\ events[d] \in Nat
    BY <1>1, Zenon DEF IInv, TypeOK, Event
  <2>4. IsOfBot(d) \/ mails[d] + Cardinality(Mailing(d)) >= events[d]
    BY <1>1 DEF IInv, MailedOrMailing
  <2> QED BY <2>2, <2>3, <2>4 DEF IsOfBot
<1>2. IInv => DecisionsAreMailed
  BY <1>1 DEF DecisionsAreMailed
<1> QED BY <1>2, Invariance, PTL
=============================================================================
