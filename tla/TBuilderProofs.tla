---------------------------- MODULE TBuilderProofs ----------------------------
(***************************************************************************)
(* The options of a TBuilder reach the server, for every width of the      *)
(* integers, and whatever a script passes to the setters.                  *)
(***************************************************************************)
EXTENDS TBuilder, TLAPS

Builders == [flag : [Flags -> BOOLEAN], mode : 0..4,
             wait : -1..ShortMax, at : Numbers \union {0}]

\* A mode other than snapshot has no number.
Numbered == b.mode # 1 => b.at = 0

\* The buffer is that of a builder, which read still shows.
Bought ==
  state = "started" =>
    /\ read \in Builders
    /\ read.mode # 1 => read.at = 0
    /\ tpb = Buffer(read)

Inv == TypeOK /\ Numbered /\ NeverFatal /\ Bought

\* What fits is not narrowed.
LEMMA Remainder ==
  ASSUME NEW a \in Nat, NEW n \in Nat, a < n
  PROVE  a % n = a
OBVIOUS

LEMMA NarrowSame ==
  ASSUME NEW m \in Nat, NEW x \in Int, -(m + 1) <= x, x <= m
  PROVE  Narrow(x, m) = x
<1>1. x + m + 1 \in Nat /\ 2 * (m + 1) \in Nat /\ x + m + 1 < 2 * (m + 1)
  OBVIOUS
<1>2. (x + m + 1) % (2 * (m + 1)) = x + m + 1
  BY <1>1, Remainder
<1> QED
  BY <1>1, <1>2 DEF Narrow

LEMMA InvInit == Init => Inv
<1> SUFFICES ASSUME Init PROVE Inv
  OBVIOUS
<1>1. New \in Builders /\ New.mode = 1 /\ New.at = 0
  BY WidthsAssumption DEF New, Builders
<1>2. Zeroed \in Builders /\ Zeroed.at = 0
  <2>1. [f \in Flags |-> FALSE] \in [Flags -> BOOLEAN] /\ 0 \in -1..ShortMax
    BY WidthsAssumption
  <2> QED
    BY <2>1 DEF Zeroed, Builders
<1> QED
  BY <1>1, <1>2 DEF Init, Inv, TypeOK, Numbered, NeverFatal, Bought, Builders

\* No setter and no start breaks it.
LEMMA InvStep ==
  ASSUME Inv, [Next]_vars
  PROVE  Inv'
<1> USE DEF Builders
<1>0. b \in Builders /\ state \in {"idle", "started"} /\ Numbered /\ Bought
  BY DEF Inv, TypeOK, NeverFatal
<1>1. CASE \E f \in Flags, enable \in BOOLEAN : SetFlag(f, enable)
  <2>1. PICK f \in Flags, enable \in BOOLEAN : SetFlag(f, enable)
    BY <1>1
  <2>2. b' \in Builders /\ b'.mode = b.mode /\ b'.at = b.at
    BY <1>0, <2>1 DEF SetFlag
  <2>3. UNCHANGED <<tpb, read, state>>
    BY <2>1 DEF SetFlag
  <2> QED
    BY <1>0, <2>2, <2>3 DEF Inv, TypeOK, Numbered, NeverFatal, Bought, Buffer,
                            FlagTags, IsolationTags, WaitTags
<1>2. CASE \E t \in Timeouts : Wait(t)
  <2>1. PICK t \in Timeouts : Wait(t)
    BY <1>2
  <2>2. t \in -1..ShortMax /\ Narrow(t, ShortMax) = t
    BY <2>1, WidthsAssumption, NarrowSame DEF Wait
  <2>3. b' \in Builders /\ b'.mode = b.mode /\ b'.at = b.at
    BY <1>0, <2>1, <2>2 DEF Wait
  <2>4. UNCHANGED <<tpb, read, state>>
    BY <2>1 DEF Wait
  <2> QED
    BY <1>0, <2>3, <2>4 DEF Inv, TypeOK, Numbered, NeverFatal, Bought, Buffer,
                            FlagTags, IsolationTags, WaitTags
<1>3. CASE \E mode \in 0..4, at \in Numbers \union {0} : Isolation(mode, at)
  <2>1. PICK mode \in 0..4, at \in Numbers \union {0} : Isolation(mode, at)
    BY <1>3
  <2>2. b' \in Builders /\ (b'.mode # 1 => b'.at = 0)
    BY <1>0, <2>1 DEF Isolation
  <2>3. UNCHANGED <<tpb, read, state>>
    BY <2>1 DEF Isolation
  <2> QED
    BY <1>0, <2>2, <2>3 DEF Inv, TypeOK, Numbered, NeverFatal, Bought, Buffer,
                            FlagTags, IsolationTags, WaitTags
<1>4. CASE Start
  <2>1. b.mode \in 0..4 /\ b.wait >= -1
    BY <1>0, WidthsAssumption
  <2>2. tpb' = Buffer(b) /\ read' = b /\ state' = "started" /\ b' = b
    BY <1>4, <2>1 DEF Start
  <2>3. tpb' = Buffer(read')
    BY <2>2
  <2> QED
    BY <1>0, <2>2, <2>3 DEF Inv, TypeOK, Numbered, NeverFatal, Bought, Buffer,
                            FlagTags, IsolationTags, WaitTags
<1>5. CASE UNCHANGED vars
  BY <1>0, <1>5 DEF vars, Inv, TypeOK, Numbered, NeverFatal, Bought, Buffer,
                    FlagTags, IsolationTags, WaitTags
<1> QED
  BY <1>1, <1>2, <1>3, <1>4, <1>5 DEF Next

LEMMA Invariance == Spec => []Inv
<1>1. Inv /\ [Next]_vars => Inv'
  BY InvStep
<1> QED
  BY InvInit, <1>1, PTL DEF Spec

------------------------------------------------------------------------------
(* What the server reads.                                                   *)

Names(S) == {e[1] : e \in S}

LEMMA NamesOne ==
  ASSUME NEW name, NEW x
  PROVE  Names({<<name, x>>}) = {name}
BY DEF Names

LEMMA NamesBoth ==
  ASSUME NEW S, NEW T
  PROVE  Names(S \union T) = Names(S) \union Names(T)
BY DEF Names

LEMMA NamesAll ==
  ASSUME NEW G
  PROVE  Names({Tag(g) : g \in G}) = G
<1>1. ASSUME NEW g \in G PROVE g \in Names({Tag(h) : h \in G})
  <2>1. Tag(g) \in {Tag(h) : h \in G} /\ Tag(g)[1] = g
    BY DEF Tag
  <2> QED
    BY <2>1 DEF Names
<1>2. ASSUME NEW n \in Names({Tag(h) : h \in G}) PROVE n \in G
  <2>1. PICK e \in {Tag(h) : h \in G} : n = e[1]
    BY DEF Names
  <2>2. PICK h \in G : e = Tag(h)
    BY <2>1
  <2> QED
    BY <2>1, <2>2 DEF Tag
<1> QED
  BY <1>1, <1>2

\* The names of the tags in the three parts of a buffer.
LEMMA FlagNames ==
  ASSUME NEW t \in Builders
  PROVE  Names(FlagTags(t)) =
           {IF t.flag["read_only"] THEN "read" ELSE "write"}
             \union {g \in Flags \ {"read_only"} : t.flag[g]}
<1> DEFINE first == IF t.flag["read_only"] THEN "read" ELSE "write"
           G == {g \in Flags \ {"read_only"} : t.flag[g]}
<1>1. FlagTags(t) = {<<first, 0>>} \union {Tag(g) : g \in G}
  BY DEF FlagTags, Tag
<1>2. Names({<<first, 0>>}) = {first} /\ Names({Tag(g) : g \in G}) = G
  BY NamesOne, NamesAll
<1> HIDE DEF first, G
<1>3. Names(FlagTags(t)) = {first} \union G
  BY <1>1, <1>2, NamesBoth
<1> QED
  BY <1>3 DEF first, G

LEMMA WaitNames ==
  ASSUME NEW t \in Builders
  PROVE  /\ t.wait = 0 => Names(WaitTags(t)) = {"nowait"}
         /\ t.wait = -1 => Names(WaitTags(t)) = {"wait"}
         /\ t.wait \notin {0, -1} =>
              t.wait > 0 /\ Names(WaitTags(t)) = {"wait", "lock_timeout"}
<1>1. t.wait \in Int /\ t.wait >= -1
  BY WidthsAssumption DEF Builders
<1>2. CASE t.wait = 0
  <2>1. WaitTags(t) = {<<"nowait", 0>>}
    BY <1>2 DEF WaitTags, Tag
  <2>2. Names(WaitTags(t)) = {"nowait"}
    BY <2>1, NamesOne
  <2> QED
    BY <1>2, <2>2
<1>3. CASE t.wait = -1
  <2>1. WaitTags(t) = {<<"wait", 0>>}
    BY <1>1, <1>3 DEF WaitTags, Tag
  <2>2. Names(WaitTags(t)) = {"wait"}
    BY <2>1, NamesOne
  <2> QED
    BY <1>3, <2>2
<1>4. CASE t.wait > 0
  <2>1. WaitTags(t) = {<<"wait", 0>>, <<"lock_timeout", t.wait>>}
    BY <1>1, <1>4 DEF WaitTags, Tag
  <2>2. Names(WaitTags(t)) = {"wait", "lock_timeout"}
    BY <2>1 DEF Names
  <2> QED
    BY <1>4, <2>2
<1> QED
  BY <1>1, <1>2, <1>3, <1>4

LEMMA IsolationNames ==
  ASSUME NEW t \in Builders
  PROVE  /\ t.mode = 0 => Names(IsolationTags(t)) = {"consistency"}
         /\ t.mode = 1 => Names(IsolationTags(t)) =
              {"concurrency"} \union (IF t.at = 0 THEN {} ELSE {"at_snapshot_number"})
         /\ t.mode = 2 => Names(IsolationTags(t)) = {"read_committed", "rec_version"}
         /\ t.mode = 3 => Names(IsolationTags(t)) = {"read_committed", "no_rec_version"}
         /\ t.mode = 4 => Names(IsolationTags(t)) = {"read_committed", "read_consistency"}
<1>1. CASE t.mode = 0
  <2>1. IsolationTags(t) = {<<"consistency", 0>>}
    BY <1>1 DEF IsolationTags, Tag
  <2>2. Names(IsolationTags(t)) = {"consistency"}
    BY <2>1, NamesOne
  <2> QED
    BY <1>1, <2>2
<1>2. CASE t.mode = 1
  <2>1. CASE t.at = 0
    <3>1. IsolationTags(t) = {<<"concurrency", 0>>}
      BY <1>2, <2>1 DEF IsolationTags, Tag
    <3>2. Names(IsolationTags(t)) = {"concurrency"}
      BY <3>1, NamesOne
    <3> QED
      BY <1>2, <2>1, <3>2
  <2>2. CASE t.at # 0
    <3>1. IsolationTags(t) = {<<"concurrency", 0>>,
                              <<"at_snapshot_number", Narrow(t.at, IntMax)>>}
      BY <1>2, <2>2 DEF IsolationTags, Tag
    <3>2. Names(IsolationTags(t)) = {"concurrency", "at_snapshot_number"}
      BY <3>1 DEF Names
    <3> QED
      BY <1>2, <2>2, <3>2
  <2> QED
    BY <2>1, <2>2
<1>3. CASE t.mode = 2
  <2>1. IsolationTags(t) = {<<"read_committed", 0>>, <<"rec_version", 0>>}
    BY <1>3 DEF IsolationTags, Tag
  <2>2. Names(IsolationTags(t)) = {"read_committed", "rec_version"}
    BY <2>1 DEF Names
  <2> QED
    BY <1>3, <2>2
<1>4. CASE t.mode = 3
  <2>1. IsolationTags(t) = {<<"read_committed", 0>>, <<"no_rec_version", 0>>}
    BY <1>4 DEF IsolationTags, Tag
  <2>2. Names(IsolationTags(t)) = {"read_committed", "no_rec_version"}
    BY <2>1 DEF Names
  <2> QED
    BY <1>4, <2>2
<1>5. CASE t.mode = 4
  <2>1. IsolationTags(t) = {<<"read_committed", 0>>, <<"read_consistency", 0>>}
    BY <1>5 DEF IsolationTags, Tag
  <2>2. Names(IsolationTags(t)) = {"read_committed", "read_consistency"}
    BY <2>1 DEF Names
  <2> QED
    BY <1>5, <2>2
<1> QED
  BY <1>1, <1>2, <1>3, <1>4, <1>5

\* A tag that occurs with one value has that value.
LEMMA ValueIs ==
  ASSUME NEW name, NEW v, <<name, v>> \in tpb,
         \A e \in tpb : e[1] = name => e = <<name, v>>
  PROVE  Value(name) = v
<1> DEFINE vs == {e[2] : e \in {x \in tpb : x[1] = name}}
<1>1. {x \in tpb : x[1] = name} = {<<name, v>>}
  OBVIOUS
<1>2. vs = {v}
  BY <1>1
<1>3. vs # {} /\ (CHOOSE w \in vs : TRUE) = v
  BY <1>2
<1> QED
  BY <1>3 DEF Value

LEMMA ValueNone ==
  ASSUME NEW name, name \notin Tags
  PROVE  Value(name) = 0
<1>1. {x \in tpb : x[1] = name} = {}
  BY DEF Tags
<1> QED
  BY <1>1 DEF Value

\* The names of the tags in a buffer.
LEMMA BufferNames ==
  ASSUME NEW t \in Builders, tpb = Buffer(t)
  PROVE  Tags = Names(FlagTags(t)) \union Names(IsolationTags(t)) \union Names(WaitTags(t))
<1>1. Names(tpb) = Names(FlagTags(t) \union IsolationTags(t)) \union Names(WaitTags(t))
  BY NamesBoth DEF Buffer
<1> QED
  BY <1>1, NamesBoth DEF Tags, Names

\* What the server reads in the buffer of a builder.
LEMMA FlagsRead ==
  ASSUME NEW t \in Builders, tpb = Buffer(t)
  PROVE  /\ "read" \in Tags <=> t.flag["read_only"]
         /\ \A f \in Flags \ {"read_only"} : f \in Tags <=> t.flag[f]
<1>1. t.mode \in 0..4 /\ t.wait >= -1
  BY WidthsAssumption DEF Builders
<1>2. /\ Names(IsolationTags(t)) \cap (Flags \union {"read"}) = {}
      /\ Names(WaitTags(t)) \cap (Flags \union {"read"}) = {}
  BY <1>1, IsolationNames, WaitNames DEF Flags
<1>3. /\ "read" \in Names(FlagTags(t)) <=> t.flag["read_only"]
      /\ \A f \in Flags \ {"read_only"} : f \in Names(FlagTags(t)) <=> t.flag[f]
  BY FlagNames DEF Flags
<1> QED
  BY <1>2, <1>3, BufferNames

LEMMA ModeRead ==
  ASSUME NEW t \in Builders, tpb = Buffer(t)
  PROVE  ServerMode = t.mode
<1> DEFINE Modes == {"consistency", "read_committed", "rec_version", "no_rec_version"}
<1>1. t.mode \in 0..4
  BY DEF Builders
<1>2. Names(FlagTags(t)) \cap Modes = {} /\ Names(WaitTags(t)) \cap Modes = {}
  BY FlagNames, WaitNames DEF Flags
<1>3. \A m \in Modes : m \in Tags <=> m \in Names(IsolationTags(t))
  BY <1>2, BufferNames
<1> QED
  BY <1>1, <1>3, IsolationNames DEF ServerMode

LEMMA WaitRead ==
  ASSUME NEW t \in Builders, tpb = Buffer(t)
  PROVE  ServerWait = t.wait
<1> DEFINE Waits == {"nowait", "wait", "lock_timeout"}
<1>1. t.mode \in 0..4 /\ t.wait \in Int /\ t.wait >= -1
  BY WidthsAssumption DEF Builders
<1>2. Names(FlagTags(t)) \cap Waits = {} /\ Names(IsolationTags(t)) \cap Waits = {}
  BY <1>1, FlagNames, IsolationNames DEF Flags
<1>3. \A w \in Waits : w \in Tags <=> w \in Names(WaitTags(t))
  BY <1>2, BufferNames
<1>4. CASE t.wait = 0
  BY <1>3, <1>4, WaitNames DEF ServerWait
<1>5. CASE t.wait = -1
  BY <1>3, <1>5, WaitNames DEF ServerWait
<1>6. CASE t.wait > 0
  <2>1. <<"lock_timeout", t.wait>> \in tpb
    BY <1>1, <1>6 DEF Buffer, WaitTags
  <2>2. ASSUME NEW e \in tpb, e[1] = "lock_timeout" PROVE e = <<"lock_timeout", t.wait>>
    <3>1. e \notin FlagTags(t) /\ e \notin IsolationTags(t)
      BY <1>2, <2>2 DEF Names
    <3>2. e \in WaitTags(t)
      BY <3>1 DEF Buffer
    <3> QED
      BY <1>1, <1>6, <2>2, <3>2 DEF WaitTags, Tag
  <2>3. Value("lock_timeout") = t.wait
    BY <2>1, <2>2, ValueIs
  <2>4. "nowait" \notin Tags /\ "wait" \in Tags /\ "lock_timeout" \in Tags
    BY <1>1, <1>3, <1>6, WaitNames
  <2> QED
    BY <2>3, <2>4 DEF ServerWait
<1> QED
  BY <1>1, <1>4, <1>5, <1>6

\* The integers of a builder.
LEMMA Ranges ==
  ASSUME NEW t \in Builders
  PROVE  t.mode \in 0..4 /\ t.wait >= -1 /\ t.at \in Nat
<1>1. t.mode \in 0..4 /\ t.wait \in -1..ShortMax /\ t.at \in Numbers \union {0}
  BY DEF Builders
<1>2. Numbers \union {0} \subseteq Nat
  BY WidthsAssumption
<1>3. t.at \in Nat
  BY <1>1, <1>2, Zenon
<1> QED
  BY <1>1, <1>3, WidthsAssumption

LEMMA NumberRead ==
  ASSUME NEW t \in Builders, tpb = Buffer(t), t.mode # 1 => t.at = 0, t.at <= IntMax
  PROVE  Value("at_snapshot_number") = t.at
<1> DEFINE name == "at_snapshot_number"
<1>1. t.mode \in 0..4 /\ t.wait >= -1 /\ t.at \in Nat
  BY Ranges
<1>2. name \notin Names(FlagTags(t)) /\ name \notin Names(WaitTags(t))
  BY <1>1, FlagNames, WaitNames DEF Flags
<1>3. CASE t.at = 0
  <2>1. name \notin Names(IsolationTags(t))
    BY <1>1, <1>3, IsolationNames
  <2>2. name \notin Tags
    BY <1>2, <2>1, BufferNames
  <2> QED
    BY <1>3, <2>2, ValueNone
<1>4. CASE t.at # 0
  <2>1. Narrow(t.at, IntMax) = t.at
    BY <1>1, NarrowSame, WidthsAssumption
  <2>2. IsolationTags(t) = {<<"concurrency", 0>>, <<name, t.at>>}
    BY <1>4, <2>1 DEF IsolationTags, Tag
  <2>3. ASSUME NEW e \in tpb, e[1] = name PROVE e = <<name, t.at>>
    <3>1. e \notin FlagTags(t) /\ e \notin WaitTags(t)
      BY <1>2, <2>3 DEF Names
    <3>2. e \in IsolationTags(t)
      BY <3>1 DEF Buffer
    <3> QED
      BY <2>2, <2>3, <3>2
  <2>4. <<name, t.at>> \in tpb
    BY <2>2 DEF Buffer
  <2> QED
    BY <2>3, <2>4, ValueIs
<1> QED
  BY <1>3, <1>4

------------------------------------------------------------------------------
(* The theorems.                                                            *)

\* Every variable keeps its type.
THEOREM Typed == Spec => []TypeOK
<1>1. Inv => TypeOK
  BY DEF Inv
<1> QED
  BY Invariance, <1>1, PTL

\* No sequence of setters leads build_tpb to a fatal branch.
THEOREM Accepted == Spec => []NeverFatal
<1>1. Inv => NeverFatal
  BY DEF Inv
<1> QED
  BY Invariance, <1>1, PTL

\* The server starts the transaction with the options the builder showed.
THEOREM Options == Spec => []OptionsReach
<1>1. Inv => OptionsReach
  <2> SUFFICES ASSUME Inv, state = "started" PROVE OptionsReach
    BY DEF OptionsReach
  <2>1. read \in Builders /\ tpb = Buffer(read)
    BY DEF Inv, Bought
  <2> QED
    BY <2>1, FlagsRead, ModeRead, WaitRead DEF OptionsReach
<1> QED
  BY Invariance, <1>1, PTL

\* A snapshot number that fits an int is the one the server reads.
THEOREM Snapshot == Spec => []SmallSnapshotReaches
<1>1. Inv => SmallSnapshotReaches
  <2> SUFFICES ASSUME Inv, state = "started", read.at <= IntMax
               PROVE  SmallSnapshotReaches
    BY DEF SmallSnapshotReaches, SnapshotReaches
  <2>1. read \in Builders /\ tpb = Buffer(read) /\ (read.mode # 1 => read.at = 0)
    BY DEF Inv, Bought
  <2> QED
    BY <2>1, NumberRead DEF SmallSnapshotReaches, SnapshotReaches
<1> QED
  BY Invariance, <1>1, PTL
==============================================================================
