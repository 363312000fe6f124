------------------------- MODULE HooksInstallProofs -------------------------
(***************************************************************************)
(* Proofs about HooksInstall, for any hooks of others and any value of the *)
(* bounds.                                                                 *)
(*                                                                         *)
(* A command works on what it read of settings.json, and what it has done  *)
(* to the scripts before.  The three properties are about the end; the     *)
(* clauses added to them say what is already true on the way there.        *)
(***************************************************************************)
EXTENDS HooksInstall, SequenceTheorems, WellFoundedInduction, TLAPS

-----------------------------------------------------------------------------
(* What Within returns *)

\* A property that fails for some number up to n fails for one whose predecessor,
\* if it has one, satisfies it.
LEMMA FirstFailure ==
    ASSUME NEW Bad, Bad \subseteq Nat, Bad # {}
    PROVE  \E k \in Bad : k = 0 \/ (k - 1 \in Nat /\ k - 1 \notin Bad)
<1>1. PICK k \in Bad : \A j \in Bad : <<j, k>> \notin OpToRel(<, Nat)
    BY NatLessThanWellFounded, WFMin
<1>2. \A j \in Bad : ~(j < k)
    BY <1>1 DEF OpToRel
<1> QED
    BY <1>2

\* One more element puts one more into the set of a sequence.
LEMMA AppendedSet ==
    ASSUME NEW S, NEW seq \in Seq(S), NEW x \in S
    PROVE  Append(seq, x) \in Seq(S) /\ ToSet(Append(seq, x)) = ToSet(seq) \cup {x}
<1>1. Append(seq, x) \in Seq(S)
    BY AppendProperties
<1>2. Len(seq) \in Nat /\ DOMAIN seq = 1 .. Len(seq)
    BY LenProperties
<1>3. DOMAIN Append(seq, x) = 1 .. (Len(seq) + 1)
    BY <1>1, AppendProperties, LenProperties
<1>4. \A i \in 1 .. Len(seq) : Append(seq, x)[i] = seq[i]
    BY AppendProperties
<1>5. Append(seq, x)[Len(seq) + 1] = x
    BY AppendProperties
<1>6. \A i \in 1 .. (Len(seq) + 1) : i \in 1 .. Len(seq) \/ i = Len(seq) + 1
    BY <1>2
<1>7. 1 .. Len(seq) \subseteq 1 .. (Len(seq) + 1) /\ Len(seq) + 1 \in 1 .. (Len(seq) + 1)
    BY <1>2
<1> QED
    BY <1>1, <1>2, <1>3, <1>4, <1>5, <1>6, <1>7 DEF ToSet

\* Within keeps the members of seq that are in K, and adds nothing.  The function
\* it builds exists up to every length, and what it has kept after i elements is
\* right: the first i at which either fails would follow one at which it holds.
LEMMA WithinKeeps ==
    ASSUME NEW S, NEW seq \in Seq(S), NEW K
    PROVE  /\ Within(seq, K) \in Seq(S \cap K)
           /\ ToSet(Within(seq, K)) = ToSet(seq) \cap K
<1> DEFINE L         == Len(seq)
           Add(f, i) == IF i = 0 THEN <<>>
                        ELSE IF seq[i] \in K THEN Append(f[i - 1], seq[i]) ELSE f[i - 1]
           Built(f, n) == f = [i \in 0 .. n |-> Add(f, i)]
           kept == CHOOSE f : Built(f, L)
           UpTo(n) == {seq[i] : i \in 1 .. n} \cap K
           Right(n) == kept[n] \in Seq(S \cap K) /\ ToSet(kept[n]) = UpTo(n)
<1>1. L \in Nat /\ DOMAIN seq = 1 .. L /\ \A i \in 1 .. L : seq[i] \in S
    BY LenProperties, ElementOfSeq
<1> HIDE DEF L
<1>2. \A n \in 0 .. L : \E f : Built(f, n)
  <2> DEFINE Bad == {n \in 0 .. L : ~\E f : Built(f, n)}
  <2> SUFFICES ASSUME Bad # {} PROVE FALSE
    OBVIOUS
  <2>1. Bad \subseteq Nat
    BY <1>1
  <2>2. PICK n \in Bad : n = 0 \/ (n - 1 \in Nat /\ n - 1 \notin Bad)
    BY <2>1, FirstFailure
  <2>3. n \in 0 .. L /\ ~\E f : Built(f, n)
    OBVIOUS
  <2>4. CASE n = 0
    <3> DEFINE g == [i \in 0 .. 0 |-> <<>>]
    <3>1. \A i \in 0 .. 0 : Add(g, i) = <<>>
      OBVIOUS
    <3>2. Built(g, 0)
      BY <3>1
    <3> QED
      BY <2>3, <2>4, <3>2
  <2>5. CASE n # 0
    <3>1. n - 1 \in 0 .. L
      BY <1>1, <2>2, <2>3, <2>5
    <3>2. PICK f : Built(f, n - 1)
      BY <2>2, <2>5, <3>1
    <3> DEFINE g == [i \in 0 .. n |-> Add(f, i)]
    <3>3. \A i \in 0 .. n - 1 : f[i] = Add(f, i)
      BY <3>2
    <3>4. g = [i \in 0 .. n |-> Add(f, i)] /\ \A i \in 0 .. n : g[i] = Add(f, i)
      <4> HIDE DEF Add
      <4> QED
        OBVIOUS
    <3> HIDE DEF g
    <3>5. \A i \in 0 .. n : Add(f, i) = Add(g, i)
      <4> SUFFICES ASSUME NEW i \in 0 .. n PROVE Add(f, i) = Add(g, i)
        OBVIOUS
      <4>1. i = 0 \/ (i - 1 \in 0 .. n - 1 /\ i - 1 \in 0 .. n)
        BY <2>3
      <4>2. i # 0 => g[i - 1] = f[i - 1]
        BY <3>3, <3>4, <4>1
      <4> QED
        BY <4>2
    <3>6. Built(g, n)
      <4> HIDE DEF Add
      <4> QED
        BY <3>4, <3>5
    <3> QED
      BY <2>3, <3>6
  <2> QED
    BY <2>4, <2>5
<1>3. Built(kept, L)
  <2>1. \E f : Built(f, L)
    BY <1>1, <1>2
  <2> HIDE DEF Add
  <2> QED
    BY <2>1, Zenon
<1>4. \A i \in 0 .. L : kept[i] = Add(kept, i)
  <2> HIDE DEF kept, Add
  <2> QED
    BY <1>3, Zenon
<1>5. Within(seq, K) = kept[L]
    BY DEF Within, L
<1> HIDE DEF kept
<1>6. \A n \in 0 .. L : Right(n)
  <2> DEFINE Bad == {n \in 0 .. L : ~Right(n)}
  <2> SUFFICES ASSUME Bad # {} PROVE FALSE
    OBVIOUS
  <2>1. Bad \subseteq Nat
    BY <1>1
  <2>2. PICK n \in Bad : n = 0 \/ (n - 1 \in Nat /\ n - 1 \notin Bad)
    BY <2>1, FirstFailure
  <2>3. n \in 0 .. L /\ ~Right(n) /\ kept[n] = Add(kept, n)
    BY <1>4
  <2>4. n # 0
    <3>1. UpTo(0) = {}
      OBVIOUS
    <3>2. <<>> \in Seq(S \cap K) /\ ToSet(<<>>) = {}
      BY EmptySeq DEF ToSet
    <3>3. kept[0] = <<>>
      BY <1>1, <1>4
    <3>4. Right(0)
      BY <3>1, <3>2, <3>3
    <3> QED
      BY <2>3, <3>4
  <2>5. n - 1 \in 0 .. L /\ n \in 1 .. L
    BY <1>1, <2>2, <2>3, <2>4
  <2>6. Right(n - 1)
    BY <2>2, <2>4, <2>5
  <2>7. {seq[i] : i \in 1 .. n} = {seq[i] : i \in 1 .. n - 1} \cup {seq[n]}
    <3>1. \A i \in 1 .. n : i \in 1 .. n - 1 \/ i = n
      BY <2>5
    <3>2. 1 .. n - 1 \subseteq 1 .. n /\ n \in 1 .. n
      BY <2>5
    <3> QED
      BY <3>1, <3>2
  <2>8. CASE seq[n] \in K
    <3>1. seq[n] \in S \cap K
      BY <1>1, <2>5, <2>8
    <3>2. kept[n] = Append(kept[n - 1], seq[n])
      BY <2>3, <2>4, <2>8
    <3>3. kept[n - 1] \in Seq(S \cap K)
      BY <2>6
    <3>4. /\ Append(kept[n - 1], seq[n]) \in Seq(S \cap K)
          /\ ToSet(Append(kept[n - 1], seq[n])) = ToSet(kept[n - 1]) \cup {seq[n]}
      BY <3>1, <3>3, AppendedSet
    <3> QED
      BY <2>3, <2>6, <2>7, <2>8, <3>2, <3>4
  <2>9. CASE seq[n] \notin K
    <3>1. kept[n] = kept[n - 1]
      BY <2>3, <2>4, <2>9
    <3> QED
      BY <2>3, <2>6, <2>7, <2>9, <3>1
  <2> QED
    BY <2>8, <2>9
<1>7. ToSet(seq) = {seq[i] : i \in 1 .. L}
    BY <1>1 DEF ToSet
<1> QED
  <2>1. Right(L)
    <3>1. L \in 0 .. L
      BY <1>1
    <3> HIDE DEF Right
    <3> QED
      BY <1>6, <3>1
  <2> QED
    BY <1>5, <1>7, <2>1

-----------------------------------------------------------------------------
(* The inductive invariant *)

\* The two events, in the order of their scripts.
LEMMA TwoEvents ==
    /\ Event = {"UserPromptSubmit", "Stop"}
    /\ Events[1] = "UserPromptSubmit" /\ Last(Events) = "Stop"
<1>1. Len(Events) = 2 /\ DOMAIN Events = {1, 2}
    BY DEF Events
<1>2. Events[1] = "UserPromptSubmit" /\ Events[2] = "Stop"
    BY DEF Events
<1> QED
    BY <1>1, <1>2 DEF Event, ToSet, Last

\* The hooks of others that no group shares with ours: an uninstall spares them.
Foreign(hooks) ==
    {p \in Pair : \E g \in ToSet(hooks[p[1]]) : p[2] \in g /\ Ours \notin g}

\* Where the hooks of others are: settings.json is empty while it is written.
TextOf == IF pc = "writing" THEN held ELSE settings.hooks

\* What is promised to stay stands in a group without our hook, in settings.json
\* and in what a command has made of it; in a text that does not parse, which
\* install replaces, nothing is promised to stay.
OthersInv ==
    /\ wanted \ atRisk \subseteq Foreign(TextOf)
    /\ pc = "write" => wanted \ atRisk \subseteq Foreign(held)
    /\ settings.state = "invalid" /\ pc # "writing" => wanted \subseteq atRisk

\* The script of an event is dealt with before the command goes on.
Passed(e) ==
    \/ pc \in {"read", "write", "writing"}
    \/ pc = Last(Events) /\ e = Events[1]

\* What a command has done to the scripts it has passed: the user may edit them, but
\* does not remove them or put one back.
PassedInv ==
    \A e \in Event : Passed(e) =>
        /\ cmd # "uninstall" => scripts[e] # "absent"
        /\ cmd = "uninstall" => scripts[e] = "absent"
        /\ cmd = "force" /\ done = "running" => scripts[e] = "ours"

\* What an install will write registers every event, what an uninstall will write
\* registers none.
HeldInv ==
    pc \in {"write", "writing"} =>
        \A e \in Event : Registered(held, e) <=> cmd # "uninstall"

\* A command runs, or has run undisturbed, never both.
DoneInv ==
    /\ done \in Command => cmd = "none"
    /\ done = "running" => cmd # "none"
    /\ DoneIsDone

\* RegisteredHasScript for a text that does not parse as well: the user may mend it.
RegisteredInv ==
    \A e \in Event : Registered(settings.hooks, e) /\ scripts[e] = "absent" => e \in unfinished

IInv ==
    /\ TypeOK
    /\ OthersInv
    /\ PassedInv
    /\ HeldInv
    /\ DoneInv
    /\ RegisteredInv

-----------------------------------------------------------------------------
(* The lists of groups *)

\* No groups, no hooks.
LEMMA Nothing ==
    /\ NoHooks \in [Event -> Groups]
    /\ \A e \in Event : ~Registered(NoHooks, e)
    /\ Foreign(NoHooks) = {}
<1>1. <<>> \in Seq(Group) /\ ToSet(<<>>) = {}
    BY EmptySeq DEF ToSet
<1>2. \A p \in Pair : p[1] \in Event
    BY DEF Pair
<1> QED
    BY <1>1, <1>2 DEF NoHooks, Groups, Registered, Foreign

\* install adds a group of our own where it is missing, and leaves the others.
LEMMA PatchedFacts ==
    ASSUME NEW hooks \in [Event -> Groups], NEW c
    PROVE  /\ Patched(hooks, c = "force") \in [Event -> Groups]
           /\ \A e \in Event : Registered(Patched(hooks, c = "force"), e)
           /\ Foreign(hooks) \subseteq Foreign(Patched(hooks, c = "force"))
           /\ Patched(hooks, c = "force") = hooks =>
                  c # "force" /\ \A e \in Event : Registered(hooks, e)
<1> DEFINE new       == Patched(hooks, c = "force")
           longer(e) == hooks[e] \o <<{Ours}>>
<1>1. {Ours} \in Group
    BY DEF Group
<1>2. ASSUME NEW e \in Event
      PROVE  /\ longer(e) \in Groups
             /\ ToSet(longer(e)) = ToSet(hooks[e]) \cup {{Ours}}
             /\ longer(e) # hooks[e]
  <2>1. hooks[e] \in Seq(Group)
    BY DEF Groups
  <2>2. longer(e) = Append(hooks[e], {Ours})
    BY <2>1, <1>1, AppendIsConcat
  <2> HIDE DEF longer
  <2>3. Append(hooks[e], {Ours}) # hooks[e]
    BY <2>1, <1>1, AppendProperties, LenProperties
  <2>4. /\ Append(hooks[e], {Ours}) \in Seq(Group)
        /\ ToSet(Append(hooks[e], {Ours})) = ToSet(hooks[e]) \cup {{Ours}}
    <3> DEFINE old == hooks[e]
               ours == {Ours}
    <3>1. old \in Seq(Group) /\ ours \in Group
      BY <1>1, <2>1
    <3> HIDE DEF old, ours
    <3>2. Append(old, ours) \in Seq(Group) /\ ToSet(Append(old, ours)) = ToSet(old) \cup {ours}
      BY <3>1, AppendedSet
    <3> QED
      BY <3>2 DEF old, ours
  <2> QED
    BY <2>2, <2>3, <2>4 DEF Groups
<1>3. new = [e \in Event |-> IF Registered(hooks, e) /\ c # "force" THEN hooks[e]
                                                    ELSE hooks[e] \o <<{Ours}>>]
    BY DEF Patched
<1> HIDE DEF new
<1>4. \A e \in Event : new[e] \in Groups
    BY <1>2, <1>3
<1>5. \A e \in Event : Registered(new, e)
    BY <1>2, <1>3 DEF Registered
<1>6. \A e \in Event : ToSet(hooks[e]) \subseteq ToSet(new[e])
    BY <1>2, <1>3
<1>7. Foreign(hooks) \subseteq Foreign(new)
    BY <1>6 DEF Foreign, Pair
<1>8. ASSUME new = hooks, NEW e \in Event PROVE c # "force" /\ Registered(hooks, e)
    BY <1>2, <1>3, <1>8
<1>9. new = hooks => c # "force" /\ \A e \in Event : Registered(hooks, e)
    BY <1>8, TwoEvents
<1>10. new \in [Event -> Groups]
    BY <1>3, <1>4
<1> QED
    BY <1>5, <1>7, <1>9, <1>10 DEF new

\* uninstall takes our groups, and leaves the groups of others.
LEMMA UnpatchedFacts ==
    ASSUME NEW hooks \in [Event -> Groups]
    PROVE  /\ Unpatched(hooks) \in [Event -> Groups]
           /\ \A e \in Event : ~Registered(Unpatched(hooks), e)
           /\ Foreign(hooks) \subseteq Foreign(Unpatched(hooks))
<1> DEFINE new == Unpatched(hooks)
<1>1. \A e \in Event : new[e] = Within(hooks[e], SUBSET Other)
    BY DEF Unpatched
<1>2. ASSUME NEW e \in Event
      PROVE  /\ new[e] \in Seq(Group \cap SUBSET Other)
             /\ ToSet(new[e]) = ToSet(hooks[e]) \cap SUBSET Other
             /\ \A g \in ToSet(hooks[e]) : g \in Group
  <2>1. hooks[e] \in Seq(Group)
    BY DEF Groups
  <2>2. \A g \in ToSet(hooks[e]) : g \in Group
    BY <2>1, LenProperties, ElementOfSeq DEF ToSet
  <2> QED
    BY <1>1, <2>1, <2>2, WithinKeeps
<1>3. new \in [Event -> Groups]
  <2>1. \A e \in Event : new[e] \in Seq(Group)
    BY <1>2
  <2> QED
    BY <2>1 DEF Unpatched, Groups
<1>4. \A e \in Event : ~Registered(new, e)
    BY <1>2, HooksInstallAssumption DEF Registered, HooksInstallAssumption
<1>5. \A e \in Event : \A g \in ToSet(hooks[e]) : Ours \notin g => g \in ToSet(new[e])
    BY <1>2 DEF Group
<1>6. Foreign(hooks) \subseteq Foreign(new)
    BY <1>5 DEF Foreign, Pair
<1> QED
    BY <1>3, <1>4, <1>6

\* The groups of an event are groups.
LEMMA GroupsTyped ==
    ASSUME NEW hooks \in [Event -> Groups], NEW e \in Event
    PROVE  /\ hooks[e] \in Seq(Group)
           /\ DOMAIN hooks[e] = 1 .. Len(hooks[e]) /\ Len(hooks[e]) \in Nat
           /\ \A i \in DOMAIN hooks[e] : hooks[e][i] \in Group
<1>1. hooks[e] \in Seq(Group)
    BY DEF Groups
<1> QED
    BY <1>1, LenProperties, ElementOfSeq

\* What the three edits of hooks make of a text.
Added(hooks, p)     == [hooks EXCEPT ![p[1]] = Append(hooks[p[1]], {p[2]})]
Joined(hooks, p, i) ==
    [hooks EXCEPT ![p[1]] = [hooks[p[1]] EXCEPT ![i] = hooks[p[1]][i] \cup {p[2]}]]
Dropped(hooks, p)   ==
    [hooks EXCEPT ![p[1]] =
        Within([i \in DOMAIN hooks[p[1]] |-> hooks[p[1]][i] \ {p[2]}], Group)]

\* A new group of somebody else.
LEMMA AddedFacts ==
    ASSUME NEW hooks \in [Event -> Groups], NEW p \in Pair
    PROVE  /\ Added(hooks, p) \in [Event -> Groups]
           /\ \A e \in Event : Registered(Added(hooks, p), e) => Registered(hooks, e)
           /\ Foreign(hooks) \subseteq Foreign(Added(hooks, p)) /\ p \in Foreign(Added(hooks, p))
<1> DEFINE new == Added(hooks, p)
<1>1. p[1] \in Event /\ p[2] \in Other /\ p[2] # Ours /\ {p[2]} \in Group
    BY HooksInstallAssumption DEF Pair, Group, HooksInstallAssumption
<1>2. /\ Append(hooks[p[1]], {p[2]}) \in Seq(Group)
      /\ ToSet(Append(hooks[p[1]], {p[2]})) = ToSet(hooks[p[1]]) \cup {{p[2]}}
  <2> DEFINE old == hooks[p[1]]
             x   == {p[2]}
  <2>1. old \in Seq(Group) /\ x \in Group
    BY <1>1, GroupsTyped
  <2> HIDE DEF old, x
  <2>2. Append(old, x) \in Seq(Group) /\ ToSet(Append(old, x)) = ToSet(old) \cup {x}
    BY <2>1, AppendedSet
  <2> QED
    BY <2>2 DEF old, x
<1>3. new[p[1]] = Append(hooks[p[1]], {p[2]})
    BY <1>1 DEF Added
<1>4. \A e \in Event : e # p[1] => new[e] = hooks[e]
    BY <1>1 DEF Added
<1>5. new \in [Event -> Groups]
  <2>1. \A e \in Event : new[e] \in Groups
    BY <1>2, <1>3, <1>4 DEF Groups
  <2> QED
    BY <2>1 DEF Added
<1> HIDE DEF new
<1>6. \A e \in Event : ToSet(hooks[e]) \subseteq ToSet(new[e])
    BY <1>2, <1>3, <1>4
<1>7. \A e \in Event : Registered(new, e) => Registered(hooks, e)
  <2>1. \A g \in ToSet(new[p[1]]) : Ours \in g => g \in ToSet(hooks[p[1]])
    BY <1>1, <1>2, <1>3
  <2> QED
    BY <1>4, <2>1 DEF Registered
<1>8. p \in Foreign(new)
    BY <1>1, <1>2, <1>3 DEF Foreign
<1> QED
  <2>1. Foreign(hooks) \subseteq Foreign(new)
    BY <1>6 DEF Foreign, Pair
  <2> QED
    BY <1>5, <1>7, <1>8, <2>1 DEF new

\* A hook of somebody else in one of our groups.
LEMMA JoinedFacts ==
    ASSUME NEW hooks \in [Event -> Groups], NEW p \in Pair,
           NEW i \in DOMAIN hooks[p[1]], Ours \in hooks[p[1]][i]
    PROVE  /\ Joined(hooks, p, i) \in [Event -> Groups]
           /\ \A e \in Event : Registered(Joined(hooks, p, i), e) => Registered(hooks, e)
           /\ Foreign(hooks) \subseteq Foreign(Joined(hooks, p, i))
<1> DEFINE new    == Joined(hooks, p, i)
           old    == hooks[p[1]]
           joined == [old EXCEPT ![i] = old[i] \cup {p[2]}]
<1>1. p[1] \in Event /\ p[2] \in Other /\ p[2] # Ours
    BY HooksInstallAssumption DEF Pair, HooksInstallAssumption
<1>2. /\ old \in Seq(Group) /\ i \in 1 .. Len(old) /\ Len(old) \in Nat
      /\ DOMAIN old = 1 .. Len(old) /\ \A j \in 1 .. Len(old) : old[j] \in Group
    BY <1>1, GroupsTyped
<1>3. old[i] \cup {p[2]} \in Group
    BY <1>1, <1>2 DEF Group
<1>4. /\ joined \in Seq(Group) /\ DOMAIN joined = DOMAIN old
      /\ joined[i] = old[i] \cup {p[2]}
      /\ \A j \in DOMAIN old : j # i => joined[j] = old[j]
    BY <1>2, <1>3
<1>5. new = [hooks EXCEPT ![p[1]] = joined]
    BY DEF Joined
<1> HIDE DEF joined, new
<1>6. /\ new \in [Event -> Groups] /\ new[p[1]] = joined
      /\ \A e \in Event : e # p[1] => new[e] = hooks[e]
    BY <1>1, <1>4, <1>5 DEF Groups
<1> HIDE DEF old
<1>7. \A g \in ToSet(old) : Ours \notin g => g \in ToSet(joined)
    BY <1>4 DEF ToSet, old
<1>8. (\E g \in ToSet(old) : Ours \in g) <=> (\E g \in ToSet(joined) : Ours \in g)
    BY <1>2, <1>4 DEF ToSet, old
<1>9. \A e \in Event : Registered(new, e) => Registered(hooks, e)
    BY <1>1, <1>6, <1>8 DEF Registered, old
<1>10. Foreign(hooks) \subseteq Foreign(new)
    BY <1>1, <1>6, <1>7 DEF Foreign, Pair, old
<1> QED
    BY <1>6, <1>9, <1>10 DEF new

\* A hook of somebody else taken out of all its groups, and the groups it leaves empty.
LEMMA DroppedFacts ==
    ASSUME NEW hooks \in [Event -> Groups], NEW p \in Pair
    PROVE  /\ Dropped(hooks, p) \in [Event -> Groups]
           /\ \A e \in Event : Registered(Dropped(hooks, p), e) => Registered(hooks, e)
           /\ \A q \in Foreign(hooks) : q # p => q \in Foreign(Dropped(hooks, p))
<1> DEFINE new == Dropped(hooks, p)
           old == hooks[p[1]]
           left == [i \in DOMAIN old |-> old[i] \ {p[2]}]
           All == SUBSET (Other \cup {Ours})
<1>1. p[1] \in Event /\ p[2] \in Other /\ p[2] # Ours
    BY HooksInstallAssumption DEF Pair, HooksInstallAssumption
<1>2. /\ Len(old) \in Nat /\ DOMAIN old = 1 .. Len(old)
      /\ \A j \in 1 .. Len(old) : old[j] \in Group
    BY <1>1, GroupsTyped
<1>3. left \in Seq(All)
    BY <1>2 DEF Group
<1>4. /\ Within(left, Group) \in Seq(All \cap Group)
      /\ ToSet(Within(left, Group)) = ToSet(left) \cap Group
  <2> HIDE DEF left, All
  <2> QED
    BY <1>3, WithinKeeps
<1>5. All \cap Group = Group
    BY DEF Group
<1>6. ToSet(left) = {g \ {p[2]} : g \in ToSet(old)}
    BY DEF ToSet
<1>7. new = [hooks EXCEPT ![p[1]] = Within(left, Group)]
    BY DEF Dropped
<1> HIDE DEF left, All, new
<1>8. /\ new \in [Event -> Groups] /\ new[p[1]] = Within(left, Group)
      /\ \A e \in Event : e # p[1] => new[e] = hooks[e]
    BY <1>1, <1>4, <1>5, <1>7 DEF Groups
<1>9. \A g \in ToSet(old) : g \in Group
    BY <1>2 DEF ToSet
<1>10. \A g \in ToSet(old) : g \ {p[2]} # {} => g \ {p[2]} \in ToSet(new[p[1]])
  <2> HIDE DEF old
  <2> QED
    BY <1>4, <1>6, <1>8, <1>9 DEF Group
<1>11. \A g \in ToSet(new[p[1]]) : \E f \in ToSet(old) : g = f \ {p[2]}
  <2> HIDE DEF old
  <2> QED
    BY <1>4, <1>6, <1>8
<1>12. (\E g \in ToSet(old) : Ours \in g) <=> (\E g \in ToSet(new[p[1]]) : Ours \in g)
  <2> HIDE DEF old
  <2>1. ASSUME NEW g \in ToSet(old), Ours \in g
        PROVE  g \ {p[2]} \in ToSet(new[p[1]]) /\ Ours \in g \ {p[2]}
    <3>1. Ours \in g \ {p[2]}
      BY <1>1, <2>1
    <3> QED
      BY <1>10, <2>1, <3>1
  <2>2. ASSUME NEW g \in ToSet(new[p[1]]), Ours \in g
        PROVE  \E f \in ToSet(old) : Ours \in f
    BY <1>11, <2>2
  <2> QED
    BY <2>1, <2>2
<1>13. \A e \in Event : Registered(new, e) => Registered(hooks, e)
    BY <1>1, <1>8, <1>12 DEF Registered
<1>14. \A q \in Foreign(hooks) : q # p => q \in Foreign(new)
  <2> SUFFICES ASSUME NEW q \in Foreign(hooks), q # p PROVE q \in Foreign(new)
    OBVIOUS
  <2>1. q \in Pair /\ q[1] \in Event /\ (q[1] = p[1] => q[2] # p[2])
    BY DEF Foreign, Pair
  <2>2. PICK g \in ToSet(hooks[q[1]]) : q[2] \in g /\ Ours \notin g
    BY DEF Foreign
  <2>3. CASE q[1] = p[1]
    <3>1. q[2] \in g \ {p[2]} /\ Ours \notin g \ {p[2]}
      BY <2>1, <2>2, <2>3
    <3>2. g \ {p[2]} \in ToSet(new[q[1]])
      BY <1>10, <2>2, <2>3, <3>1
    <3> QED
      BY <2>1, <3>1, <3>2 DEF Foreign
  <2>4. CASE q[1] # p[1]
    BY <1>8, <2>1, <2>2, <2>4 DEF Foreign
  <2> QED
    BY <2>3, <2>4
<1> QED
    BY <1>8, <1>13, <1>14 DEF new

-----------------------------------------------------------------------------
(* The steps *)

LEMMA InitIInv == Init => IInv
<1> SUFFICES ASSUME Init PROVE IInv
    OBVIOUS
<1>1. TypeOK
    BY Nothing, TwoEvents, HooksInstallAssumption
       DEF Init, TypeOK, Command, HooksInstallAssumption
<1>2. OthersInv
    BY DEF Init, OthersInv
<1>3. PassedInv /\ HeldInv
    BY TwoEvents DEF Init, PassedInv, HeldInv, Passed
<1>4. DoneInv
    BY DEF Init, DoneInv, DoneIsDone, Command
<1>5. RegisteredInv
    BY Nothing DEF Init, RegisteredInv
<1> QED
    BY <1>1, <1>2, <1>3, <1>4, <1>5 DEF IInv

LEMMA StartIInv ==
    ASSUME IInv, NEW c \in Command, Start(c)
    PROVE  IInv'
<1>1. /\ cmd = "none" /\ cmd' = c /\ pc' = Events[1] /\ done' = "running" /\ pc = "idle"
      /\ UNCHANGED <<scripts, settings, held, wanted, atRisk, unfinished, edits>>
      /\ TypeOK
    BY DEF Start, IInv, TypeOK
<1>2. TypeOK'
    BY <1>1, TwoEvents DEF TypeOK, Command
<1>3. OthersInv'
    BY <1>1, TwoEvents DEF IInv, OthersInv, TextOf
<1>4. PassedInv' /\ HeldInv'
    BY <1>1, TwoEvents DEF PassedInv, HeldInv, Passed
<1>5. DoneInv'
    BY <1>1 DEF DoneInv, DoneIsDone, Command
<1>6. RegisteredInv'
    BY <1>1 DEF IInv, RegisteredInv
<1> QED
    BY <1>2, <1>3, <1>4, <1>5, <1>6 DEF IInv

\* A script dealt with: settings.json and what the command holds are as before, and
\* the script is as the command promises.
LEMMA ScriptIInv ==
    ASSUME IInv, NEW e \in Event, InstallScript(e) \/ RemoveScript(e)
    PROVE  IInv'
<1>1. /\ pc = e /\ cmd \in Command /\ AfterScript(e)
      /\ UNCHANGED <<settings, cmd, held, wanted, atRisk, done, edits>>
      /\ cmd # "uninstall" =>
            /\ scripts' = IF scripts[e] # "absent" /\ cmd # "force" THEN scripts
                                                   ELSE [scripts EXCEPT ![e] = "ours"]
            /\ unfinished' = unfinished
      /\ cmd = "uninstall" =>
            /\ scripts' = [scripts EXCEPT ![e] = "absent"]
            /\ unfinished' = IF scripts[e] = "absent" THEN unfinished ELSE unfinished \cup {e}
    BY DEF InstallScript, RemoveScript, Keeps, Command
<1>2. TypeOK /\ done \notin Command
    BY <1>1 DEF IInv, DoneInv, Command
<1>3. e \in {"UserPromptSubmit", "Stop"} /\ pc' \in {"Stop", "read"}
    BY <1>1, TwoEvents DEF AfterScript
<1>4. TypeOK'
  <2>1. scripts' \in [Event -> {"absent", "ours", "edited", "inert"}]
    BY <1>1, <1>2 DEF TypeOK
  <2> QED
    BY <1>1, <1>2, <1>3, <2>1, TwoEvents DEF TypeOK, Command
<1>5. OthersInv'
    BY <1>1, <1>3 DEF IInv, OthersInv, TextOf
<1>6. PassedInv'
  <2>1. ASSUME NEW f \in Event, Passed(f)' PROVE f = e \/ Passed(f)
    BY <1>1, <1>3, <2>1, TwoEvents DEF AfterScript, Passed
  <2>2. /\ cmd # "uninstall" => scripts'[e] # "absent"
        /\ cmd = "uninstall" => scripts'[e] = "absent"
        /\ cmd = "force" => scripts'[e] = "ours"
        /\ \A f \in Event : f # e => scripts'[f] = scripts[f]
    BY <1>1, <1>2 DEF TypeOK
  <2> QED
    BY <1>1, <2>1, <2>2 DEF IInv, PassedInv
<1>7. HeldInv'
    BY <1>3 DEF HeldInv
<1>8. DoneInv'
    BY <1>1, <1>2 DEF IInv, DoneInv, DoneIsDone, Command
<1>9. RegisteredInv'
  <2>1. ASSUME NEW f \in Event, scripts'[f] = "absent"
        PROVE  f \in unfinished' \/ (scripts[f] = "absent" /\ unfinished \subseteq unfinished')
    BY <1>1, <1>2, <2>1 DEF TypeOK
  <2> QED
    BY <1>1, <2>1 DEF IInv, RegisteredInv
<1> QED
    BY <1>4, <1>5, <1>6, <1>7, <1>8, <1>9 DEF IInv

\* A command that reads settings.json ends, with nothing to change, or goes on with
\* what it will write.
LEMMA ReadIInv ==
    ASSUME IInv, ReadForInstall \/ ReadForUninstall
    PROVE  IInv'
<1> DEFINE hooks == IF settings.state = "valid" THEN settings.hooks ELSE NoHooks
           new   == IF cmd = "uninstall" THEN Unpatched(settings.hooks)
                                         ELSE Patched(hooks, cmd = "force")
<1>1. /\ TypeOK /\ pc = "read" /\ cmd \in Command /\ UNCHANGED <<settings, atRisk, user>>
      /\ done \notin Command
    BY DEF ReadForInstall, ReadForUninstall, IInv, Command, DoneInv
<1>2. settings.hooks \in [Event -> Groups] /\ hooks \in [Event -> Groups]
    BY <1>1, Nothing DEF TypeOK
<1>3. wanted \ atRisk \subseteq Foreign(settings.hooks)
      /\ (settings.state # "valid" => wanted \ atRisk = {})
  <2>1. wanted \ atRisk \subseteq Foreign(settings.hooks)
    BY <1>1 DEF IInv, OthersInv, TextOf
  <2>2. settings.state = "missing" => settings.hooks = NoHooks
    BY <1>1 DEF TypeOK
  <2>3. settings.state = "invalid" => wanted \subseteq atRisk
    BY <1>1 DEF IInv, OthersInv
  <2> QED
    BY <1>1, <2>1, <2>2, <2>3, Nothing DEF TypeOK
<1>4. \A e \in Event : /\ cmd # "uninstall" => scripts[e] # "absent"
                       /\ cmd = "uninstall" => scripts[e] = "absent"
                       /\ cmd = "force" /\ done = "running" => scripts[e] = "ours"
    BY <1>1 DEF IInv, PassedInv, Passed
<1>5. CASE held' = new /\ pc' = "write" /\ UNCHANGED <<cmd, done>>
           /\ (cmd = "uninstall" => settings.state = "valid")
  <2>1. new \in [Event -> Groups] /\ wanted \ atRisk \subseteq Foreign(new)
        /\ \A e \in Event : Registered(new, e) <=> cmd # "uninstall"
    <3>1. CASE cmd = "uninstall"
      BY <1>2, <1>3, <3>1, UnpatchedFacts
    <3>2. CASE cmd # "uninstall"
      <4>1. wanted \ atRisk \subseteq Foreign(hooks)
        BY <1>3
      <4> HIDE DEF hooks
      <4> QED
        BY <1>2, <3>2, <4>1, PatchedFacts
    <3> QED
      BY <3>1, <3>2
  <2> HIDE DEF new, hooks
  <2>2. TypeOK'
    BY <1>1, <1>5, <2>1 DEF TypeOK, Command, user
  <2>3. OthersInv'
    BY <1>1, <1>3, <1>5, <2>1 DEF OthersInv, TextOf, IInv, user
  <2>4. PassedInv'
    BY <1>1, <1>4, <1>5 DEF PassedInv, Passed, user
  <2>5. HeldInv'
    BY <1>5, <2>1 DEF HeldInv, Registered
  <2>6. DoneInv'
    BY <1>1, <1>5 DEF IInv, DoneInv, DoneIsDone, Command, user
  <2>7. RegisteredInv'
    BY <1>1 DEF IInv, RegisteredInv, user
  <2> QED
    BY <2>2, <2>3, <2>4, <2>5, <2>6, <2>7 DEF IInv
<1>6. CASE Stop(cmd) /\ (cmd # "uninstall" => new = hooks)
           /\ (cmd = "uninstall" => settings.state # "valid")
  <2>1. cmd' = "none" /\ pc' = "idle" /\ held' = NoHooks
        /\ done' = IF done = "running" THEN cmd ELSE "none"
    BY <1>6 DEF Stop
  <2>2. TypeOK'
    BY <1>1, <2>1, Nothing DEF TypeOK, Command, user
  <2>3. OthersInv'
    BY <1>1, <1>3, <2>1 DEF OthersInv, TextOf, IInv, user
  <2>4. PassedInv' /\ HeldInv'
    BY <2>1, TwoEvents DEF PassedInv, HeldInv, Passed
  <2>5. DoneInv'
    <3>1. CASE cmd # "uninstall"
      <4>1. Patched(hooks, cmd = "force") = hooks
        BY <1>6, <3>1
      <4> HIDE DEF hooks
      <4>2. cmd # "force" /\ \A e \in Event : Registered(hooks, e)
        BY <1>2, <4>1, PatchedFacts
      <4>3. settings.state = "valid" /\ hooks = settings.hooks
        BY <4>2, Nothing, TwoEvents DEF hooks
      <4>4. \A e \in Event : Registered(settings.hooks, e)
        BY <4>2, <4>3
      <4>5. \A e \in Event : scripts[e] # "absent"
        BY <1>4, <3>1
      <4>6. done' # "force" /\ done' # "uninstall"
        BY <2>1, <3>1, <4>2
      <4> QED
        BY <1>1, <2>1, <4>3, <4>4, <4>5, <4>6
        DEF DoneInv, DoneIsDone, StatusInstalled, Registered, user
    <3>2. CASE cmd = "uninstall"
      <4>1. settings.state # "invalid" => settings.hooks = NoHooks
        BY <1>1, <1>6, <3>2 DEF TypeOK
      <4>2. \A e \in Event : scripts[e] = "absent"
        BY <1>4, <3>2
      <4>3. settings.state # "invalid" => \A e \in Event : ~Registered(settings.hooks, e)
        BY <4>1, Nothing
      <4>4. done' \notin {"install", "force", "running"}
        BY <2>1, <3>2
      <4> QED
        BY <1>1, <2>1, <4>2, <4>3, <4>4 DEF DoneInv, DoneIsDone, Registered, user
    <3> QED
      BY <3>1, <3>2
  <2>6. RegisteredInv'
    BY <1>1 DEF IInv, RegisteredInv, user
  <2> QED
    BY <2>2, <2>3, <2>4, <2>5, <2>6 DEF IInv
<1>7. CASE ReadForInstall
    BY <1>5, <1>6, <1>7 DEF ReadForInstall
<1>8. CASE ReadForUninstall
    BY <1>5, <1>6, <1>8 DEF ReadForUninstall
<1> QED
    BY <1>7, <1>8

LEMMA WritingIInv ==
    ASSUME IInv, Truncate \/ Write
    PROVE  IInv'
<1>1. /\ TypeOK /\ pc \in {"write", "writing"} /\ cmd \in Command /\ done \notin Command
      /\ \A e \in Event : Registered(held, e) <=> cmd # "uninstall"
      /\ \A e \in Event : /\ cmd # "uninstall" => scripts[e] # "absent"
                          /\ cmd = "uninstall" => scripts[e] = "absent"
                          /\ cmd = "force" /\ done = "running" => scripts[e] = "ours"
    BY TwoEvents DEF Truncate, Write, IInv, TypeOK, HeldInv, PassedInv, Passed, DoneInv, Command
<1>2. CASE Truncate
  <2>1. /\ pc = "write" /\ pc' = "writing" /\ settings' = Torn
        /\ UNCHANGED <<cmd, held, atRisk, done, user>>
    BY <1>2 DEF Truncate
  <2>2. TypeOK'
    BY <1>1, <2>1, Nothing DEF TypeOK, Torn, user
  <2>3. OthersInv'
    BY <1>1, <2>1 DEF IInv, OthersInv, TextOf, Torn, user
  <2>4. PassedInv'
    BY <1>1, <2>1 DEF PassedInv, Passed, user
  <2>7. HeldInv'
    BY <1>1, <2>1 DEF HeldInv, Registered
  <2>5. DoneInv'
    BY <1>1, <2>1 DEF IInv, DoneInv, DoneIsDone, Command
  <2>6. RegisteredInv'
    BY <2>1, Nothing DEF RegisteredInv, Registered, Torn
  <2> QED
    BY <2>2, <2>3, <2>4, <2>5, <2>6, <2>7 DEF IInv
<1>3. CASE Write
  <2>1. /\ pc = "writing" /\ pc' = "idle" /\ cmd' = "none" /\ held' = NoHooks
        /\ settings' = [state |-> "valid", hooks |-> held]
        /\ unfinished' = IF cmd = "uninstall" THEN {} ELSE unfinished
        /\ done' = IF done = "running" THEN cmd ELSE "none"
        /\ UNCHANGED <<scripts, wanted, atRisk, edits>>
    BY <1>3 DEF Write, Stop
  <2>2. TypeOK'
    BY <1>1, <2>1, Nothing DEF TypeOK
  <2>3. OthersInv'
    BY <1>1, <2>1 DEF IInv, OthersInv, TextOf
  <2>4. PassedInv' /\ HeldInv'
    BY <2>1, TwoEvents DEF PassedInv, HeldInv, Passed
  <2>5. DoneInv'
    BY <1>1, <2>1 DEF DoneInv, DoneIsDone, StatusInstalled, Registered, Command
  <2>6. RegisteredInv'
    BY <1>1, <2>1 DEF RegisteredInv, Registered
  <2> QED
    BY <2>2, <2>3, <2>4, <2>5, <2>6 DEF IInv
<1> QED
    BY <1>2, <1>3

\* A command that dies leaves the text it had emptied, and with it no promise.
LEMMA DieIInv ==
    ASSUME IInv, Die
    PROVE  IInv'
<1>1. /\ TypeOK /\ cmd \in Command /\ pc' = "idle" /\ cmd' = "none" /\ held' = NoHooks
      /\ done' = "none"
      /\ atRisk' = IF pc = "writing" THEN wanted ELSE atRisk
      /\ UNCHANGED <<settings, wanted, unfinished, edits>>
    BY DEF Die, Stop, IInv, TypeOK
<1>2. scripts' \in [Event -> {"absent", "ours", "edited", "inert"}]
      /\ \A e \in Event : scripts'[e] = "absent" => scripts[e] = "absent"
    BY <1>1 DEF Die, TypeOK
<1>3. TypeOK'
    BY <1>1, <1>2, Nothing DEF TypeOK, Command
<1>4. OthersInv'
    BY <1>1 DEF IInv, OthersInv, TextOf
<1>5. PassedInv' /\ HeldInv'
    BY <1>1, TwoEvents DEF PassedInv, HeldInv, Passed
<1>6. DoneInv'
    BY <1>1 DEF DoneInv, DoneIsDone, Command
<1>7. RegisteredInv'
    BY <1>1, <1>2 DEF IInv, RegisteredInv, Registered
<1> QED
    BY <1>3, <1>4, <1>5, <1>6, <1>7 DEF IInv

\* An edit by the user keeps the invariant if it keeps the registrations and the
\* promises; it takes no script away, and ends what DoneIsDone is about.
LEMMA EditIInv ==
    ASSUME IInv, Edits, TypeOK',
           \A e \in Event : scripts'[e] = "absent" <=> scripts[e] = "absent",
           \A e \in Event : Registered(settings'.hooks, e) => Registered(settings.hooks, e),
           wanted' \ atRisk' \subseteq Foreign(settings'.hooks),
           pc = "write" => wanted' \ atRisk' \subseteq Foreign(held),
           settings'.state = "invalid" => wanted' \subseteq atRisk'
    PROVE  IInv'
<1>1. /\ pc # "writing" /\ done' = "none" /\ UNCHANGED <<cmd, pc, held, unfinished>>
    BY DEF Edits
<1>2. OthersInv'
    BY <1>1 DEF OthersInv, TextOf, Foreign
<1>3. PassedInv'
    BY <1>1 DEF IInv, PassedInv, Passed
<1>4. HeldInv'
    BY <1>1 DEF IInv, HeldInv, Registered
<1>5. DoneInv'
    BY <1>1 DEF DoneInv, DoneIsDone, Command
<1>6. RegisteredInv'
    BY <1>1 DEF IInv, RegisteredInv, Registered
<1> QED
    BY <1>2, <1>3, <1>4, <1>5, <1>6 DEF IInv

LEMMA HookEditIInv ==
    ASSUME IInv, NEW p \in Pair, AddHook(p) \/ JoinGroup(p) \/ DropHook(p)
    PROVE  IInv'
<1> DEFINE hooks == settings.hooks
           new   == settings'.hooks
<1>1. /\ TypeOK /\ Edits /\ edits' \in 0 .. MaxEdits
      /\ pc # "writing" /\ done' = "none" /\ UNCHANGED <<scripts, cmd, pc, held, unfinished>>
    BY HooksInstallAssumption
       DEF AddHook, JoinGroup, DropHook, Edits, IInv, TypeOK, HooksInstallAssumption
<1>2. /\ settings \in [state : {"missing", "invalid", "valid"}, hooks : [Event -> Groups]]
      /\ hooks \in [Event -> Groups]
      /\ wanted \ atRisk \subseteq Foreign(hooks)
      /\ pc = "write" => wanted \ atRisk \subseteq Foreign(held)
    BY <1>1 DEF IInv, OthersInv, TextOf, TypeOK
<1>3. /\ settings' \in [state : {"valid"}, hooks : [Event -> Groups]]
      /\ wanted' \subseteq Pair /\ atRisk' \subseteq wanted'
      /\ \A e \in Event : Registered(new, e) => Registered(hooks, e)
      /\ wanted' \ atRisk' \subseteq Foreign(new)
      /\ pc = "write" => wanted' \ atRisk' \subseteq wanted \ atRisk
  <2>1. CASE AddHook(p)
    <3>1. /\ settings' = [state |-> "valid",
                          hooks |-> [hooks EXCEPT ![p[1]] = Append(@, {p[2]})]]
          /\ wanted' = wanted \cup {p}
          /\ atRisk' = IF pc = "write" THEN atRisk \cup {p} ELSE atRisk \ {p}
      BY <2>1 DEF AddHook
    <3>2. new = Added(hooks, p)
      BY <3>1 DEF Added
    <3>3. /\ new \in [Event -> Groups]
          /\ \A e \in Event : Registered(new, e) => Registered(hooks, e)
          /\ Foreign(hooks) \subseteq Foreign(new) /\ p \in Foreign(new)
      <4>1. hooks \in [Event -> Groups]
        BY <1>2
      <4> HIDE DEF hooks, new
      <4> QED
        BY <3>2, <4>1, AddedFacts
    <3> QED
      BY <1>1, <1>2, <3>1, <3>3 DEF TypeOK
  <2>2. CASE JoinGroup(p)
    <3>1. PICK i \in DOMAIN hooks[p[1]] :
             /\ Ours \in hooks[p[1]][i]
             /\ settings' = [settings EXCEPT !.hooks[p[1]][i] = @ \cup {p[2]}]
      BY <2>2 DEF JoinGroup
    <3>2. /\ settings.state = "valid" /\ wanted' = wanted \cup {p} /\ atRisk' = atRisk \cup {p}
      BY <2>2 DEF JoinGroup
    <3>3. /\ new = Joined(hooks, p, i)
          /\ settings' = [state |-> "valid", hooks |-> new]
      BY <1>2, <3>1, <3>2 DEF Joined
    <3>4. /\ new \in [Event -> Groups]
          /\ \A e \in Event : Registered(new, e) => Registered(hooks, e)
          /\ Foreign(hooks) \subseteq Foreign(new)
      <4>1. hooks \in [Event -> Groups] /\ Ours \in hooks[p[1]][i]
        BY <1>2, <3>1
      <4> HIDE DEF hooks, new
      <4> QED
        BY <3>3, <4>1, JoinedFacts
    <3> QED
      BY <1>1, <1>2, <3>2, <3>3, <3>4 DEF TypeOK
  <2>3. CASE DropHook(p)
    <3>1. /\ settings.state = "valid" /\ wanted' = wanted \ {p} /\ atRisk' = atRisk \ {p}
          /\ settings' = [settings EXCEPT !.hooks[p[1]] =
                 Within([i \in DOMAIN hooks[p[1]] |-> hooks[p[1]][i] \ {p[2]}], Group)]
      BY <2>3 DEF DropHook
    <3>2. /\ new = Dropped(hooks, p)
          /\ settings' = [state |-> "valid", hooks |-> new]
      BY <1>2, <3>1 DEF Dropped
    <3>3. /\ new \in [Event -> Groups]
          /\ \A e \in Event : Registered(new, e) => Registered(hooks, e)
          /\ \A q \in Foreign(hooks) : q # p => q \in Foreign(new)
      <4> HIDE DEF hooks, new
      <4> QED
        BY <1>2, <3>2, DroppedFacts
    <3> QED
      BY <1>1, <1>2, <3>1, <3>2, <3>3 DEF TypeOK
  <2> QED
    BY <2>1, <2>2, <2>3
<1>4. settings'.state = "valid"
    BY <1>3
<1>5. TypeOK'
    BY <1>1, <1>3 DEF TypeOK
<1> QED
    BY <1>1, <1>2, <1>3, <1>4, <1>5, EditIInv

LEMMA OtherEditIInv ==
    ASSUME IInv, Break \/ Mend \/ \E e \in Event : EditScript(e)
    PROVE  IInv'
<1>1. /\ TypeOK /\ Edits /\ edits' \in 0 .. MaxEdits
      /\ pc # "writing" /\ done' = "none" /\ UNCHANGED <<cmd, pc, held, unfinished, wanted>>
    BY HooksInstallAssumption
       DEF Break, Mend, EditScript, Edits, IInv, TypeOK, HooksInstallAssumption
<1>2. /\ settings' \in [state : {"missing", "invalid", "valid"}, hooks : [Event -> Groups]]
      /\ settings'.hooks = settings.hooks
      /\ settings'.state = "missing" => settings.state = "missing"
      /\ settings'.state = "invalid" => wanted \subseteq atRisk'
      /\ atRisk \subseteq atRisk' /\ atRisk' \subseteq wanted
    BY <1>1 DEF Break, Mend, EditScript, IInv, OthersInv, TypeOK
<1>3. /\ scripts' \in [Event -> {"absent", "ours", "edited", "inert"}]
      /\ \A e \in Event : scripts'[e] = "absent" <=> scripts[e] = "absent"
    BY <1>1 DEF Break, Mend, EditScript, TypeOK
<1>4. TypeOK'
    BY <1>1, <1>2, <1>3 DEF TypeOK
<1>5. wanted \ atRisk \subseteq Foreign(settings.hooks)
      /\ (pc = "write" => wanted \ atRisk \subseteq Foreign(held))
    BY <1>1 DEF IInv, OthersInv, TextOf
<1> QED
    BY <1>1, <1>2, <1>3, <1>4, <1>5, EditIInv

LEMMA NextIInv ==
    ASSUME IInv, [Next]_vars
    PROVE  IInv'
<1>1. CASE \E c \in Command : Start(c)
    BY <1>1, StartIInv
<1>2. CASE \E e \in Event : InstallScript(e) \/ RemoveScript(e)
    BY <1>2, ScriptIInv
<1>3. CASE ReadForInstall \/ ReadForUninstall
    BY <1>3, ReadIInv
<1>4. CASE Truncate \/ Write
    BY <1>4, WritingIInv
<1>5. CASE Die
    BY <1>5, DieIInv
<1>6. CASE \E p \in Pair : AddHook(p) \/ JoinGroup(p) \/ DropHook(p)
    BY <1>6, HookEditIInv
<1>7. CASE Break \/ Mend \/ \E e \in Event : EditScript(e)
    BY <1>7, OtherEditIInv
<1>8. CASE UNCHANGED vars
  <2> USE <1>8 DEF vars
  <2>1. TypeOK'
    BY DEF IInv, TypeOK
  <2>2. OthersInv' /\ PassedInv' /\ HeldInv'
    BY DEF IInv, OthersInv, TextOf, PassedInv, Passed, HeldInv
  <2>3. DoneInv' /\ RegisteredInv'
    BY DEF IInv, DoneInv, DoneIsDone, StatusInstalled, RegisteredInv
  <2> QED
    BY <2>1, <2>2, <2>3 DEF IInv
<1> QED
    BY <1>1, <1>2, <1>3, <1>4, <1>5, <1>6, <1>7, <1>8 DEF Next

-----------------------------------------------------------------------------
(* The theorems *)

LEMMA Invariance == Spec => []IInv
    BY InitIInv, NextIInv, PTL DEF Spec

\* Scripts, settings and what a command holds of them keep their types.
THEOREM TypeCorrect == Spec => []TypeOK
    BY Invariance, PTL DEF IInv

\* install, install --force and uninstall, killed at any step and repeated in any
\* order, lose no hook of somebody else that they promise to keep.
THEOREM OthersStay == Spec => []OthersHooksStay
<1>1. IInv => OthersHooksStay
    BY DEF IInv, OthersInv, OthersHooksStay, TextOf, Foreign, PairsOf
<1> QED
    BY <1>1, Invariance, PTL

\* A command that ran to its end undisturbed has done what it says, in whatever
\* state it found the scripts and settings.json.
THEOREM DoneMeansDone == Spec => []DoneIsDone
    BY Invariance, PTL DEF IInv, DoneInv

\* Only an uninstall that did not come to its end leaves a registration without a
\* script.
THEOREM RegistrationsHaveScripts == Spec => []RegisteredHasScript
<1>1. IInv => RegisteredHasScript
    BY DEF IInv, RegisteredInv, RegisteredHasScript
<1> QED
    BY <1>1, Invariance, PTL
=============================================================================
