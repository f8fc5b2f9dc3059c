------------------------- MODULE DeriveInputProofs --------------------------
(***************************************************************************)
(* The runtime of a derive, whatever overrides are written on the struct   *)
(* and whatever its package depends on: the configuration is made of       *)
(* overrides that were checked together.  Then every field of every struct:*)
(* types, the trees that lowering makes of them, and the shapes of the     *)
(* columns they are projected to.  And what the derive promises: the items *)
(* it accepts, the columns it makes of their leaves, and their shapes.     *)
(***************************************************************************)
EXTENDS FiniteSets, DerivePromise, WrapperShapesProofs

LOCAL INSTANCE SequencesExt

Items == {container.items[i] : i \in DOMAIN container.items}

(* What is still to be read, and what is in the slots, is written on the   *)
(* struct; a configuration is that of the slots, which were not refused.   *)
SlotsWritten ==
  /\ input \in Inputs /\ container = input.container
  /\ unread \in Seq(Items)
  /\ \A k \in DOMAIN slots :
       k \in C!OverrideKeys /\ [key |-> k, path |-> slots[k]] \in {[key |-> i.key, path |-> i.path] : i \in Items}
ConfigChecked ==
  config # C!NoConfig => config = C!Config /\ C!OverridesRefused = "none"
ContainerInv == SlotsWritten /\ ConfigChecked

LEMMA SlotWritten ==
  ASSUME SlotsWritten, NEW k \in DOMAIN slots
  PROVE  k \in C!OverrideKeys /\ \E i \in DOMAIN container.items :
           container.items[i].key = k /\ container.items[i].path = slots[k]
<1>1. PICK item \in Items : [key |-> k, path |-> slots[k]] = [key |-> item.key, path |-> item.path]
  BY DEF SlotsWritten
<1>2. item.key = k /\ item.path = slots[k]
  <2> [key |-> k, path |-> slots[k]].key = [key |-> item.key, path |-> item.path].key
    BY <1>1
  <2> [key |-> k, path |-> slots[k]].path = [key |-> item.key, path |-> item.path].path
    BY <1>1
  <2> QED OBVIOUS
<1> QED BY <1>2 DEF Items, SlotsWritten

-----------------------------------------------------------------------------
LEMMA InitContainer == Init => ContainerInv
<1> SUFFICES ASSUME Init PROVE ContainerInv
  OBVIOUS
<1>1. container = input.container /\ unread = container.items /\ slots = <<>> /\ config = C!NoConfig
  BY DEF Init, C!ContainerLoaded
<1>2. unread \in Seq(Items)
  <2>1. input.container.items \in Seq({input.container.items[k] : k \in DOMAIN input.container.items})
    BY InputAssumption, Zenon DEF Init
  <2> QED BY <1>1, <2>1 DEF Items
<1>3. DOMAIN slots = {}
  BY <1>1
<1>4. input \in Inputs
  BY DEF Init
<1> QED BY <1>1, <1>2, <1>3, <1>4 DEF ContainerInv, SlotsWritten, ConfigChecked

LEMMA OverrideRead ==
  ASSUME SlotsWritten, ConfigChecked, C!ReadOverride, input' = input
  PROVE  ContainerInv'
<1> DEFINE item == Head(unread)
<1>1. /\ unread # <<>> /\ unread' = Tail(unread)
      /\ C!ItemRefused(item) = "none"
      /\ slots' = [k \in DOMAIN slots \union {item.key} |->
                     IF k = item.key THEN item.path ELSE slots[k]]
      /\ container' = container /\ config' = config /\ config = C!NoConfig
  BY DEF C!ReadOverride, C!Reading
<1>2. unread \in Seq(Items)
  BY DEF SlotsWritten
<1>3. Items' = Items /\ unread' \in Seq(Items) /\ item \in Items
  BY <1>1, <1>2 DEF Items
<1>4. item.key \in C!OverrideKeys
  BY <1>1 DEF C!ItemRefused
<1>5. ASSUME NEW k \in DOMAIN slots'
      PROVE  k \in C!OverrideKeys /\ [key |-> k, path |-> slots'[k]] \in {[key |-> i.key, path |-> i.path] : i \in Items}
  <2>1. CASE k = item.key
    BY <1>1, <1>3, <1>4, <2>1
  <2>2. CASE k # item.key
    BY <1>1, <2>2 DEF SlotsWritten
  <2> QED BY <2>1, <2>2
<1> QED BY <1>1, <1>3, <1>5 DEF ContainerInv, SlotsWritten, ConfigChecked, C!NoConfig

LEMMA ConfigStable ==
  ASSUME UNCHANGED <<container, slots>>
  PROVE  (C!Config)' = C!Config /\ (C!OverridesRefused)' = C!OverridesRefused
BY DEF C!Config, C!TraitPath, C!Overridden, C!Rebase, C!RuntimeTrait, C!DefaultMod,
       C!DataframeMod, C!Root, C!Depends, C!External, C!ExplicitDefault, C!TraitModule,
       C!BuiltinMods, C!OverridesRefused, C!MixedRuntime

LEMMA ConfigBuilt ==
  ASSUME SlotsWritten, C!BuildConfig, input' = input
  PROVE  ContainerInv'
<1>1. /\ container' = container /\ unread' = unread /\ slots' = slots
      /\ config' = C!Config /\ C!OverridesRefused = "none"
  BY DEF C!BuildConfig
<1>2. SlotsWritten'
  BY <1>1 DEF SlotsWritten, Items
<1>3. (C!Config)' = C!Config /\ (C!OverridesRefused)' = C!OverridesRefused
  BY <1>1, ConfigStable
<1> QED BY <1>1, <1>2, <1>3 DEF ContainerInv, ConfigChecked

LEMMA ContainerUntouched ==
  ASSUME ContainerInv, UNCHANGED <<input, container, unread, slots, config>>
  PROVE  ContainerInv'
<1>1. SlotsWritten'
  BY DEF ContainerInv, SlotsWritten, Items
<1>2. (C!Config)' = C!Config /\ (C!OverridesRefused)' = C!OverridesRefused
  BY ConfigStable
<1> QED BY <1>1, <1>2 DEF ContainerInv, ConfigChecked

LEMMA NextContainer == ContainerInv /\ [Next]_vars => ContainerInv'
<1> SUFFICES ASSUME ContainerInv, [Next]_vars PROVE ContainerInv'
  OBVIOUS
<1>1. CASE ConfigStep
  <2> input' = input
    BY <1>1 DEF ConfigStep
  <2>1. CASE C!ReadOverride
    BY <2>1, OverrideRead DEF ContainerInv
  <2>2. CASE C!BuildConfig
    BY <2>2, ConfigBuilt DEF ContainerInv
  <2>3. CASE C!RefuseOverride \/ C!RefuseOverrides
    BY <2>3, ContainerUntouched DEF C!RefuseOverride, C!RefuseOverrides, C!Refuse
  <2> QED BY <1>1, <2>1, <2>2, <2>3 DEF ConfigStep, C!ContainerNext
<1>2. CASE Next /\ ~ConfigStep
  <2>1. UNCHANGED <<input, containerVars>>
    BY <1>2 DEF Next, ConfigRefused, ParseStruct, RefuseKind, StartField, FieldStep, KeepField,
                DropField, FieldRefused, AllLowered, ProjectStep, AllProjected
  <2> QED BY <2>1, ContainerUntouched DEF containerVars
<1>3. CASE UNCHANGED vars
  BY <1>3, ContainerUntouched DEF vars, containerVars
<1> QED BY <1>1, <1>2, <1>3

(* The configuration is always that of the overrides written on the        *)
(* struct, and these were accepted as a whole.                             *)
THEOREM ConfigFromOverrides == Spec => []ContainerInv
<1> QED BY InitContainer, NextContainer, PTL DEF Spec

-----------------------------------------------------------------------------
(* What the overrides of a configuration have to do with each other.       *)

LEMMA BuiltinNamed == <<>> \notin C!BuiltinMods
<1>1. ASSUME NEW p \in C!Builtins PROVE C!DataframeMod(p) # <<>>
  BY DEF C!DataframeMod
<1> QED BY <1>1 DEF C!BuiltinMods

LEMMA RoleKept ==
  ASSUME SlotsWritten, C!RolesKept, NEW k \in DOMAIN slots, slots[k].mod \in C!BuiltinMods
  PROVE  C!TraitModule(slots[k], C!RoleOf[k]) = slots[k].mod
<1>1. PICK i \in DOMAIN container.items :
        container.items[i].key = k /\ container.items[i].path = slots[k]
  BY SlotWritten
<1>2. k \in C!OverrideKeys
  BY SlotWritten
<1> QED BY <1>1, <1>2 DEF C!RolesKept, C!TraitModule

LEMMA TraitOfModule ==
  ASSUME NEW path, NEW name, C!TraitModule(path, name) \in C!BuiltinMods
  PROVE  path.mod = C!TraitModule(path, name)
BY BuiltinNamed DEF C!TraitModule

(* The two traits of a configuration, by the overrides there are.          *)
LEMMA DiscoveredTraits ==
  ASSUME C!OverridesRefused = "none", ~C!Overridden("trait")
  PROVE  /\ C!Config.to_dataframe.mod = C!DefaultMod /\ C!Config.columnar.mod = C!DefaultMod
         /\ C!Config.external = C!DefaultMod
<1>1. ~C!Overridden("columnar")
  BY DEF C!OverridesRefused
<1>2. C!TraitPath("trait", "ToDataFrame").mod = C!DefaultMod
  BY DEF C!TraitPath, C!RuntimeTrait
<1>3. C!TraitPath("columnar", "Columnar").mod = C!DefaultMod
  BY <1>1 DEF C!TraitPath, C!RuntimeTrait
<1>4. C!External = C!DefaultMod
  BY <1>1 DEF C!External, C!ExplicitDefault
<1> QED BY <1>2, <1>3, <1>4 DEF C!Config

LEMMA RebasedTraits ==
  ASSUME SlotsWritten, C!Overridden("trait"), ~C!Overridden("columnar")
  PROVE  C!Config.to_dataframe.mod = slots["trait"].mod /\ C!Config.columnar.mod = slots["trait"].mod
<1>0. "mod" \in DOMAIN slots["trait"]
  <2>1. PICK k \in DOMAIN container.items : container.items[k].path = slots["trait"]
    BY SlotWritten DEF C!Overridden
  <2>2. container = input.container /\ input \in Inputs
    BY DEF SlotsWritten
  <2>3. DOMAIN input.container.items[k].path = {"mod", "name", "plain"}
    BY <2>1, <2>2, InputAssumption
  <2> QED BY <2>1, <2>2, <2>3
<1>1. C!TraitPath("trait", "ToDataFrame").mod = slots["trait"].mod
  BY DEF C!TraitPath
<1>2. C!TraitPath("columnar", "Columnar").mod = slots["trait"].mod
  BY <1>0 DEF C!TraitPath, C!Rebase
<1> QED BY <1>1, <1>2 DEF C!Config

LEMMA OverriddenTraits ==
  ASSUME C!Overridden("trait"), C!Overridden("columnar")
  PROVE  /\ C!Config.to_dataframe.mod = slots["trait"].mod
         /\ C!Config.columnar.mod = slots["columnar"].mod
<1>1. C!TraitPath("trait", "ToDataFrame") = slots["trait"]
  BY DEF C!TraitPath
<1>2. C!TraitPath("columnar", "Columnar") = slots["columnar"]
  BY DEF C!TraitPath
<1> QED BY <1>1, <1>2 DEF C!Config

LEMMA NotMixed ==
  ASSUME SlotsWritten, C!RolesKept, C!OverridesRefused = "none",
         C!Overridden("trait"), C!Overridden("columnar"), NEW mod \in C!BuiltinMods
  PROVE  slots["trait"].mod = mod <=> slots["columnar"].mod = mod
<1> DEFINE to_df    == C!TraitModule(slots["trait"], "ToDataFrame")
           columnar == C!TraitModule(slots["columnar"], "Columnar")
<1>1. {to_df, columnar} \cap C!BuiltinMods # {} => to_df = columnar
  BY DEF C!OverridesRefused, C!MixedRuntime
<1>2. slots["trait"].mod = mod => to_df = mod
  BY RoleKept DEF C!Overridden, C!RoleOf
<1>3. slots["columnar"].mod = mod => columnar = mod
  BY RoleKept DEF C!Overridden, C!RoleOf
<1>4. to_df = mod => slots["trait"].mod = mod
  BY TraitOfModule
<1>5. columnar = mod => slots["columnar"].mod = mod
  BY TraitOfModule
<1> QED BY <1>1, <1>2, <1>3, <1>4, <1>5

-----------------------------------------------------------------------------
(* Whatever overrides are written, and whatever dependencies there are, no *)
(* built-in runtime's trait is paired with a trait of another.             *)
THEOREM RuntimesNeverMixed == Spec => []RuntimesNotMixed
<1>1. ContainerInv => RuntimesNotMixed
  <2> SUFFICES ASSUME ContainerInv, config # C!NoConfig, C!RolesKept, NEW mod \in C!BuiltinMods
               PROVE  config.to_dataframe.mod = mod <=> config.columnar.mod = mod
    BY DEF RuntimesNotMixed, C!RuntimesNotMixed
  <2>1. config = C!Config /\ C!OverridesRefused = "none" /\ SlotsWritten
    BY DEF ContainerInv, ConfigChecked
  <2>2. CASE ~C!Overridden("trait")
    BY <2>1, <2>2, DiscoveredTraits
  <2>3. CASE C!Overridden("trait") /\ ~C!Overridden("columnar")
    BY <2>1, <2>3, RebasedTraits
  <2>4. CASE C!Overridden("trait") /\ C!Overridden("columnar")
    BY <2>1, <2>4, OverriddenTraits, NotMixed
  <2> QED BY <2>2, <2>3, <2>4
<1> QED BY <1>1, ConfigFromOverrides, PTL

(* Polars is taken from the module that both traits are taken from, or     *)
(* from the deriving crate's own dependencies if the traits are its own.   *)
THEOREM PolarsOfOneRuntime == Spec => []OnePolars
<1>1. ContainerInv => OnePolars
  <2> SUFFICES ASSUME ContainerInv, config # C!NoConfig, C!RolesKept
               PROVE  /\ config.external # C!Direct =>
                           {config.to_dataframe.mod, config.columnar.mod} = {config.external}
                      /\ config.to_dataframe.mod \in C!BuiltinMods =>
                           config.external = config.to_dataframe.mod
    BY DEF OnePolars, C!OnePolars
  <2>1. config = C!Config /\ C!OverridesRefused = "none" /\ SlotsWritten
    BY DEF ContainerInv, ConfigChecked
  <2>2. CASE ~C!Overridden("trait")
    BY <2>1, <2>2, DiscoveredTraits
  <2>3. CASE C!Overridden("trait")
    <3> DEFINE mod == C!TraitModule(slots["trait"], "ToDataFrame")
    <3>1. config.external = IF C!ExplicitDefault # <<>> THEN C!ExplicitDefault ELSE C!Direct
      BY <2>1, <2>3 DEF C!Config, C!External
    <3>2. config.to_dataframe.mod = slots["trait"].mod
      BY <2>1, <2>3, RebasedTraits, OverriddenTraits
    <3>3. CASE ~C!Overridden("columnar")
      <4>1. config.columnar.mod = slots["trait"].mod
        BY <2>1, <2>3, <3>3, RebasedTraits
      <4>2. C!ExplicitDefault = IF mod \in C!BuiltinMods THEN mod ELSE <<>>
        BY <2>3, <3>3 DEF C!ExplicitDefault
      <4>3. mod \in C!BuiltinMods => slots["trait"].mod = mod
        BY TraitOfModule
      <4>4. slots["trait"].mod \in C!BuiltinMods => mod = slots["trait"].mod
        BY <2>1, <2>3, RoleKept DEF C!Overridden, C!RoleOf
      <4> QED BY <3>1, <3>2, <4>1, <4>2, <4>3, <4>4, BuiltinNamed
    <3>4. CASE C!Overridden("columnar")
      <4>1. config.columnar.mod = slots["columnar"].mod
        BY <2>1, <2>3, <3>4, OverriddenTraits
      <4>2. C!ExplicitDefault =
              IF mod \in C!BuiltinMods /\ C!TraitModule(slots["columnar"], "Columnar") = mod
              THEN mod ELSE <<>>
        BY <2>3, <3>4 DEF C!ExplicitDefault
      <4>3. mod \in C!BuiltinMods => slots["trait"].mod = mod
        BY TraitOfModule
      <4>4. slots["trait"].mod \in C!BuiltinMods => mod = slots["trait"].mod
        BY <2>1, <2>3, RoleKept DEF C!Overridden, C!RoleOf
      <4>5. \A m \in C!BuiltinMods : slots["trait"].mod = m <=> slots["columnar"].mod = m
        BY <2>1, <2>3, <3>4, NotMixed
      <4>6. slots["columnar"].mod \in C!BuiltinMods =>
              C!TraitModule(slots["columnar"], "Columnar") = slots["columnar"].mod
        BY <2>1, <3>4, RoleKept DEF C!Overridden, C!RoleOf
      <4> QED BY <3>1, <3>2, <4>1, <4>2, <4>3, <4>4, <4>5, <4>6, BuiltinNamed
    <3> QED BY <3>3, <3>4
  <2> QED BY <2>2, <2>3
<1> QED BY <1>1, ConfigFromOverrides, PTL

-----------------------------------------------------------------------------
RangeOf(s) == {s[i] : i \in DOMAIN s}
Written    == RangeOf(input.fields)

(* Of the nodes of a type, `seen` have been visited and `left` are to be:  *)
(* the root and every element of a node seen are among them.               *)
Closed(ty, seen, left) ==
  /\ seen \subseteq DOMAIN ty /\ left \in Seq(DOMAIN ty)
  /\ Root \in seen \union RangeOf(left)
  /\ \A p \in seen : \A i \in 1 .. Cardinality(Elements(ty, p)) :
       Append(p, i) \in seen \union RangeOf(left)

LEMMA ClosedStart ==
  ASSUME NEW ty, Root \in DOMAIN ty
  PROVE  Closed(ty, {}, <<Root>>)
BY DEF Closed, RangeOf

LEMMA ElementsWritten ==
  ASSUME NEW f, WellFormedField(f), NEW p \in DOMAIN f.ty
  PROVE  /\ Cardinality(Elements(f.ty, p)) \in Nat
         /\ ElementSeq(f.ty, p) \in Seq(DOMAIN f.ty)
         /\ RangeOf(ElementSeq(f.ty, p)) = {Append(p, i) : i \in 1 .. Cardinality(Elements(f.ty, p))}
<1> DEFINE n == Cardinality(Elements(f.ty, p))
<1>1. n \in Nat /\ \A i \in 1 .. n : Append(p, i) \in DOMAIN f.ty
  <2>1. n \in Nat
    BY FS_CardinalityType DEF WellFormedField
  <2>2. Elements(f.ty, p) = {Append(p, i) : i \in 1 .. n}
    BY DEF WellFormedField
  <2>3. Elements(f.ty, p) \subseteq DOMAIN f.ty
    BY DEF Elements
  <2> HIDE DEF n
  <2> QED BY <2>1, <2>2, <2>3
<1>2. ElementSeq(f.ty, p) = [i \in 1 .. n |-> Append(p, i)]
  BY Zenon DEF ElementSeq
<1> HIDE DEF n
<1>3. ElementSeq(f.ty, p) \in Seq(DOMAIN f.ty)
  <2> DEFINE ps == ElementSeq(f.ty, p)
             T  == DOMAIN f.ty
  <2>1. \A i \in 1 .. n : Append(p, i) \in T
    BY <1>1
  <2> HIDE DEF T
  <2>2. [i \in 1 .. n |-> Append(p, i)] \in [1 .. n -> T]
    BY <2>1
  <2>3. ps \in [1 .. n -> T]
    BY <1>2, <2>2
  <2> HIDE DEF ps
  <2>4. ps \in Seq(T)
    BY <1>1, <2>3
  <2> QED BY <2>4 DEF ps, T
<1>4. RangeOf(ElementSeq(f.ty, p)) = {Append(p, i) : i \in 1 .. n}
  BY <1>1, <1>2 DEF RangeOf
<1> QED BY <1>1, <1>3, <1>4 DEF n

LEMMA SeqParts ==
  ASSUME NEW S, NEW s \in Seq(S), s # <<>>, NEW t \in Seq(S)
  PROVE  /\ Head(s) \in S /\ t \o Tail(s) \in Seq(S)
         /\ RangeOf(s) = {Head(s)} \union RangeOf(Tail(s))
         /\ RangeOf(t \o Tail(s)) = RangeOf(t) \union RangeOf(Tail(s))
<1>1. Head(s) \in S /\ t \o Tail(s) \in Seq(S) /\ Tail(s) \in Seq(S)
  OBVIOUS
<1>2. RangeOf(s) = {Head(s)} \union RangeOf(Tail(s))
  <2>1. Len(s) \in Nat \ {0} /\ Head(s) = s[1] /\ Len(Tail(s)) = Len(s) - 1
        /\ DOMAIN s = 1 .. Len(s) /\ DOMAIN Tail(s) = 1 .. Len(s) - 1
        /\ \A i \in 1 .. Len(s) - 1 : Tail(s)[i] = s[i + 1]
    OBVIOUS
  <2>2. ASSUME NEW x \in RangeOf(s) PROVE x = Head(s) \/ x \in RangeOf(Tail(s))
    <3>1. PICK i \in 1 .. Len(s) : x = s[i]
      BY <2>1 DEF RangeOf
    <3>2. CASE i = 1
      BY <2>1, <3>1, <3>2
    <3>3. CASE i # 1
      <4>1. i - 1 \in 1 .. Len(s) - 1 /\ Tail(s)[i - 1] = x
        BY <2>1, <3>1, <3>3
      <4> QED BY <2>1, <4>1 DEF RangeOf
    <3> QED BY <3>2, <3>3
  <2>3. ASSUME NEW x \in RangeOf(Tail(s)) PROVE x \in RangeOf(s)
    <3>1. PICK i \in 1 .. Len(s) - 1 : x = Tail(s)[i]
      BY <2>1 DEF RangeOf
    <3>2. i + 1 \in 1 .. Len(s) /\ s[i + 1] = x
      BY <2>1, <3>1
    <3> QED BY <2>1, <3>2 DEF RangeOf
  <2>4. Head(s) \in RangeOf(s)
    BY <2>1 DEF RangeOf
  <2> QED BY <2>2, <2>3, <2>4
<1>3. ASSUME NEW u \in Seq(S) PROVE RangeOf(t \o u) = RangeOf(t) \union RangeOf(u)
  <2>1. /\ Len(t) \in Nat /\ Len(u) \in Nat /\ DOMAIN t = 1 .. Len(t) /\ DOMAIN u = 1 .. Len(u)
        /\ DOMAIN (t \o u) = 1 .. Len(t) + Len(u)
        /\ \A i \in 1 .. Len(t) + Len(u) : (t \o u)[i] = IF i <= Len(t) THEN t[i] ELSE u[i - Len(t)]
    OBVIOUS
  <2>2. ASSUME NEW x \in RangeOf(t \o u) PROVE x \in RangeOf(t) \union RangeOf(u)
    <3>1. PICK i \in 1 .. Len(t) + Len(u) : x = (t \o u)[i]
      BY <2>1 DEF RangeOf
    <3>2. CASE i <= Len(t)
      BY <2>1, <3>1, <3>2 DEF RangeOf
    <3>3. CASE i > Len(t)
      <4>1. i - Len(t) \in 1 .. Len(u) /\ x = u[i - Len(t)]
        BY <2>1, <3>1, <3>3
      <4> QED BY <2>1, <4>1 DEF RangeOf
    <3> QED BY <2>1, <3>2, <3>3
  <2>3. ASSUME NEW x \in RangeOf(t) PROVE x \in RangeOf(t \o u)
    <3>1. PICK i \in 1 .. Len(t) : x = t[i]
      BY <2>1, <2>3 DEF RangeOf
    <3>2. i \in 1 .. Len(t) + Len(u) /\ (t \o u)[i] = x
      BY <2>1, <3>1
    <3> QED BY <2>1, <3>2 DEF RangeOf
  <2>4. ASSUME NEW x \in RangeOf(u) PROVE x \in RangeOf(t \o u)
    <3>1. PICK i \in 1 .. Len(u) : x = u[i]
      BY <2>1, <2>4 DEF RangeOf
    <3>2. Len(t) + i \in 1 .. Len(t) + Len(u) /\ (t \o u)[Len(t) + i] = x
      BY <2>1, <3>1
    <3> QED BY <2>1, <3>2 DEF RangeOf
  <2> QED BY <2>2, <2>3, <2>4
<1> QED BY <1>1, <1>2, <1>3

(* Visiting a node puts its elements ahead of what was left.               *)
LEMMA ClosedStep ==
  ASSUME NEW f, WellFormedField(f), NEW seen, NEW left, Closed(f.ty, seen, left), left # <<>>
  PROVE  /\ Head(left) \in DOMAIN f.ty
         /\ Closed(f.ty, seen \union {Head(left)}, ElementSeq(f.ty, Head(left)) \o Tail(left))
<1> DEFINE p     == Head(left)
           seen2 == seen \union {p}
           left2 == ElementSeq(f.ty, p) \o Tail(left)
<1>1. left \in Seq(DOMAIN f.ty) /\ seen \subseteq DOMAIN f.ty
  BY DEF Closed
<1>2. p \in DOMAIN f.ty
  BY <1>1
<1>3. /\ ElementSeq(f.ty, p) \in Seq(DOMAIN f.ty)
      /\ RangeOf(ElementSeq(f.ty, p)) = {Append(p, i) : i \in 1 .. Cardinality(Elements(f.ty, p))}
  BY <1>2, ElementsWritten
<1>4. /\ left2 \in Seq(DOMAIN f.ty)
      /\ RangeOf(left) = {p} \union RangeOf(Tail(left))
      /\ RangeOf(left2) = RangeOf(ElementSeq(f.ty, p)) \union RangeOf(Tail(left))
  <2>1. PICK e : e = ElementSeq(f.ty, p)
    OBVIOUS
  <2>2. e \in Seq(DOMAIN f.ty)
    BY <1>3, <2>1
  <2>3. /\ e \o Tail(left) \in Seq(DOMAIN f.ty)
        /\ RangeOf(left) = {Head(left)} \union RangeOf(Tail(left))
        /\ RangeOf(e \o Tail(left)) = RangeOf(e) \union RangeOf(Tail(left))
    BY <1>1, <2>2, SeqParts
  <2> QED BY <2>1, <2>3
<1> HIDE DEF p, left2
<1>5. seen \union RangeOf(left) \subseteq seen2 \union RangeOf(left2)
  BY <1>4
<1>6. ASSUME NEW q \in seen2, NEW i \in 1 .. Cardinality(Elements(f.ty, q))
      PROVE  Append(q, i) \in seen2 \union RangeOf(left2)
  <2>1. CASE q \in seen
    BY <1>5, <1>6, <2>1 DEF Closed
  <2>2. CASE q = p
    BY <1>3, <1>4, <1>6, <2>2
  <2> QED BY <2>1, <2>2
<1>7. Root \in seen2 \union RangeOf(left2)
  BY <1>5 DEF Closed
<1>8. Closed(f.ty, seen2, left2)
  BY <1>1, <1>2, <1>4, <1>6, <1>7 DEF Closed
<1> QED BY <1>2, <1>8 DEF p, left2

-----------------------------------------------------------------------------
(* Every part is of its type; nodes that are analysed and lowered are those*)
(* of a type the struct has, none of them is left out, and what is lowered *)
(* has been analysed.                                                      *)

Names ==
  /\ stage \in {"config", "fields", "project"} \union Ended
  /\ phase \in {"none", "attributes", "analyze", "lower"} \union Over
  /\ override.key \in FieldOverrideKeys \union {"none"}
TypedNodes(nodes) ==
  \A p \in DOMAIN nodes : nodes[p].wrappers \in Seq(RawWrappers) /\ nodes[p].outer \in Nat
GoodNodes(nodes) ==
  \A p \in DOMAIN nodes : GoodShape(nodes[p].shape) /\ nodes[p].outer \in Nat
Typed ==
  /\ rest \in Seq(SpineSteps \union RawWrappers)
  /\ peeled \in [wrappers : Seq(RawWrappers), outer : Nat]
  /\ TypedNodes(analyzed)
  /\ GoodNorm(norm)
  /\ GoodNodes(lowered)
Source ==
  /\ input \in Inputs
  /\ todo \in Seq(Written)
  /\ phase # "none" => field \in Written /\ todo # <<>>
  /\ stage = "config" => phase = "none"
Lowerable ==
  /\ Closed(field.ty, DOMAIN analyzed, <<>>)
  /\ Closed(field.ty, DOMAIN lowered, work)
  /\ RangeOf(work) \subseteq DOMAIN analyzed /\ DOMAIN lowered \subseteq DOMAIN analyzed
Visiting ==
  /\ phase = "attributes" => analyzed = <<>> /\ lowered = <<>>
  /\ phase = "analyze" => Closed(field.ty, DOMAIN analyzed, work) /\ lowered = <<>>
  /\ phase \in {"lower", "lowered"} => Lowerable
  /\ phase = "lower" => rest \in Seq(RawWrappers)
  /\ phase = "lowered" => work = <<>>
FieldInv == Names /\ Typed /\ Source /\ Visiting

LEMMA FieldWritten ==
  ASSUME Source, phase # "none"
  PROVE  WellFormedField(field)
<1>1. PICK k \in DOMAIN input.fields : field = input.fields[k]
  BY DEF Source, Written, RangeOf
<1>2. WellFormedField(input.fields[k])
  BY <1>1, InputAssumption DEF Source
<1> QED BY <1>1, <1>2

LEMMA Spines ==
  ASSUME Source, phase # "none", NEW p \in DOMAIN field.ty
  PROVE  field.ty[p].spine \in Seq(SpineSteps \union RawWrappers)
<1>1. field.ty[p].spine \in Seq(SpineSteps)
  BY FieldWritten DEF WellFormedField
<1> HIDE DEF SpineSteps, RawWrappers
<1> QED BY <1>1

(* A step of `lower_field` leaves the rest of the derive alone.            *)
Aside == UNCHANGED <<input, stage, todo>>

LEMMA FailKeeps ==
  ASSUME FieldInv, NEW why, Fail(why), Aside, phase # "none"
  PROVE  FieldInv'
<1> USE DEF FieldInv
<1>1. /\ phase' = "error"
      /\ UNCHANGED <<input, stage, todo, field, override, rest, peeled, analyzed, norm, lowered>>
  BY DEF Fail, Aside, analysis, lowering
<1>2. Names'
  BY <1>1 DEF Names, Over
<1>3. Typed'
  BY <1>1 DEF Typed
<1>4. Source'
  BY <1>1 DEF Source, Written
<1>5. Visiting'
  BY <1>1 DEF Visiting
<1> QED BY <1>2, <1>3, <1>4, <1>5

LEMMA KeyKnown ==
  ASSUME NEW item, ItemError(item) = "none"
  PROVE  item.key \in FieldOverrideKeys
<1>1. ItemRefused(item) = "none"
  BY DEF ItemError
<1>2. item.key \notin FieldOverrideKeys => ItemRefused(item) = "unknown_key"
  BY DEF ItemRefused, FieldOverrideKeys
<1> QED BY <1>1, <1>2

LEMMA ItemRead ==
  ASSUME FieldInv, ReadItem, Aside
  PROVE  FieldInv'
<1> USE DEF FieldInv
<1>0. override' = FieldAttr(Head(items)) /\ ItemError(Head(items)) = "none"
  BY DEF ReadItem
<1>1. /\ phase = "attributes"
      /\ UNCHANGED <<input, stage, todo, field, phase, work, rest, peeled, analyzed, norm, lowered>>
  BY DEF ReadItem, Aside, analysis, lowering
<1>2. Head(items).key \in FieldOverrideKeys
  BY <1>0, KeyKnown
<1>3. override'.key = Head(items).key
  BY <1>0 DEF FieldAttr
<1>4. Names'
  BY <1>1, <1>2, <1>3 DEF Names
<1>5. Typed'
  BY <1>1 DEF Typed
<1>6. Source'
  BY <1>1 DEF Source, Written
<1>7. Visiting'
  BY <1>1 DEF Visiting
<1> QED BY <1>4, <1>5, <1>6, <1>7

LEMMA FieldSkipped ==
  ASSUME FieldInv, SkipField, Aside
  PROVE  FieldInv'
<1> USE DEF FieldInv
<1>1. /\ phase = "attributes" /\ phase' = "skipped"
      /\ UNCHANGED <<input, stage, todo, field, override, rest, peeled, analyzed, norm, lowered>>
  BY DEF SkipField, Aside, analysis, lowering
<1>2. Names' /\ Typed'
  BY <1>1 DEF Names, Over, Typed
<1>3. Source' /\ Visiting'
  BY <1>1 DEF Source, Written, Visiting
<1> QED BY <1>2, <1>3

LEMMA FieldIncluded ==
  ASSUME FieldInv, IncludeField, Aside
  PROVE  FieldInv'
<1> USE DEF FieldInv
<1>1. /\ phase = "attributes" /\ phase' = "analyze" /\ work' = <<Root>> /\ rest' = field.ty[Root].spine
      /\ UNCHANGED <<input, stage, todo, field, override, peeled, analyzed, norm, lowered>>
  BY DEF IncludeField, Aside, lowering
<1>2. Root \in DOMAIN field.ty
  BY <1>1, FieldWritten DEF WellFormedField
<1>3. Names'
  BY <1>1 DEF Names
<1>4. rest' \in Seq(SpineSteps \union RawWrappers)
  BY <1>1, <1>2, Spines
<1>5. Typed'
  BY <1>1, <1>4 DEF Typed
<1>6. Source'
  BY <1>1 DEF Source, Written
<1>7. analyzed = <<>> /\ lowered = <<>>
  BY <1>1 DEF Visiting
<1>8. Closed(field.ty, DOMAIN analyzed, <<Root>>)
  <2>1. DOMAIN analyzed = {}
    BY <1>7
  <2> QED BY <1>2, <2>1, ClosedStart
<1>9. Visiting'
  BY <1>1, <1>7, <1>8 DEF Visiting
<1> QED BY <1>3, <1>5, <1>6, <1>9

LEMMA WrapperPeeled ==
  ASSUME FieldInv, PeelWrapper, Aside
  PROVE  FieldInv'
<1> USE DEF FieldInv
<1>1. /\ phase = "analyze" /\ rest # <<>> /\ rest' = Tail(rest)
      /\ UNCHANGED <<input, stage, todo, field, phase, override, work, analyzed, norm, lowered>>
  BY DEF PeelWrapper, Peeling, Aside, lowering
<1>2. peeled' \in [wrappers : Seq(RawWrappers), outer : Nat]
  <2>1. /\ peeled.wrappers \in Seq(RawWrappers) /\ peeled.outer \in Nat
        /\ peeled = [wrappers |-> peeled.wrappers, outer |-> peeled.outer]
    BY DEF Typed
  <2>2. ASSUME NEW w \in RawWrappers
        PROVE  [peeled EXCEPT !.wrappers = Append(@, w)] \in [wrappers : Seq(RawWrappers), outer : Nat]
    <3> HIDE DEF RawWrappers
    <3> QED BY <2>1, <2>2
  <2>3. [peeled EXCEPT !.outer = @ + 1] \in [wrappers : Seq(RawWrappers), outer : Nat]
    BY <2>1
  <2>4. CASE Head(rest) \in {"Option", "Vec"}
    <3>1. peeled' = [peeled EXCEPT !.wrappers = Append(@, Head(rest))]
      BY <2>4 DEF PeelWrapper
    <3>2. Head(rest) \in RawWrappers
      BY <2>4 DEF RawWrappers, AccessSteps
    <3> QED BY <2>2, <3>1, <3>2
  <2>5. CASE Head(rest) \notin {"Option", "Vec"}
    <3>1. peeled' = [peeled EXCEPT !.outer = @ + 1] \/ peeled' = [peeled EXCEPT !.wrappers = Append(@, "SmartPtr")]
      BY <2>5 DEF PeelWrapper
    <3>2. "SmartPtr" \in RawWrappers
      BY DEF RawWrappers, AccessSteps
    <3> QED BY <2>2, <2>3, <3>1, <3>2
  <2> QED BY <2>4, <2>5
<1>3. rest' \in Seq(SpineSteps \union RawWrappers)
  <2> HIDE DEF SpineSteps, RawWrappers
  <2> QED BY <1>1 DEF Typed
<1>4. Names'
  BY <1>1 DEF Names
<1>5. Typed'
  BY <1>1, <1>2, <1>3 DEF Typed
<1>6. Source'
  BY <1>1 DEF Source, Written
<1>7. Visiting'
  BY <1>1 DEF Visiting
<1> QED BY <1>4, <1>5, <1>6, <1>7

LEMMA BaseAnalyzed ==
  ASSUME FieldInv, AnalyzeBase, Aside
  PROVE  FieldInv'
<1> USE DEF FieldInv
<1>1. /\ phase = "analyze" /\ work # <<>>
      /\ work' = ElementSeq(field.ty, Current) \o Tail(work)
      /\ rest' = IF work' = <<>> THEN <<>> ELSE field.ty[Head(work')].spine
      /\ peeled' = NothingPeeled
      /\ UNCHANGED <<input, stage, todo, field, phase, override, norm, lowered>>
  BY DEF AnalyzeBase, AtBase, Aside, lowering
<1>2. analyzed' = [p \in DOMAIN analyzed \union {Current} |->
                     IF p = Current
                     THEN [base |-> BaseOf, wrappers |-> peeled.wrappers, outer |-> peeled.outer]
                     ELSE analyzed[p]]
  BY DEF AnalyzeBase
<1>3. Closed(field.ty, DOMAIN analyzed, work) /\ lowered = <<>> /\ WellFormedField(field)
  BY <1>1, FieldWritten DEF Visiting
<1>4. DOMAIN analyzed' = DOMAIN analyzed \union {Head(work)}
  BY <1>2 DEF Current
<1>5. Closed(field.ty, DOMAIN analyzed', work')
  BY <1>1, <1>3, <1>4, ClosedStep DEF Current
<1>6. TypedNodes(analyzed')
  BY <1>2 DEF Typed, TypedNodes
<1>7. rest' \in Seq(SpineSteps \union RawWrappers)
  <2>1. CASE work' = <<>>
    BY <1>1, <2>1
  <2>2. CASE work' # <<>>
    <3>1. Head(work') \in DOMAIN field.ty
      BY <1>5, <2>2 DEF Closed
    <3> QED BY <1>1, <2>2, <3>1, Spines
  <2> QED BY <2>1, <2>2
<1>8. peeled' \in [wrappers : Seq(RawWrappers), outer : Nat]
  BY <1>1 DEF NothingPeeled
<1>9. Names'
  BY <1>1 DEF Names
<1>10. Typed'
  BY <1>1, <1>6, <1>7, <1>8 DEF Typed
<1>11. Source'
  BY <1>1 DEF Source, Written
<1>12. Visiting'
  BY <1>1, <1>3, <1>5 DEF Visiting
<1> QED BY <1>9, <1>10, <1>11, <1>12

LEMMA FrontTyped ==
  ASSUME NEW S, NEW s \in Seq(S)
  PROVE  Front(s) \in Seq(S)
<1>1. CASE s = <<>>
  <2>1. Front(s) = <<>>
    BY <1>1 DEF Front
  <2> QED BY <2>1
<1>2. CASE s # <<>>
  <2>1. Len(s) - 1 \in 0 .. Len(s)
    BY <1>2
  <2> QED BY <2>1 DEF Front
<1> QED BY <1>1, <1>2

LEMMA TypeAccepted ==
  ASSUME FieldInv, AcceptType, Aside
  PROVE  FieldInv'
<1> USE DEF FieldInv
<1>1. /\ phase = "analyze" /\ work = <<>> /\ phase' = "lower" /\ work' = <<Root>> /\ rest' = RootWrappers
      /\ UNCHANGED <<input, stage, todo, field, override, peeled, analyzed, norm, lowered>>
  BY DEF AcceptType, AnalysisDone, Aside, lowering
<1>2. Closed(field.ty, DOMAIN analyzed, <<>>) /\ lowered = <<>>
  BY <1>1 DEF Visiting
<1>3. Root \in DOMAIN analyzed /\ Root \in DOMAIN field.ty
  BY <1>2 DEF Closed, RangeOf
<1>4. rest' \in Seq(RawWrappers)
  <2>1. analyzed[Root].wrappers \in Seq(RawWrappers)
    BY <1>3 DEF Typed, TypedNodes
  <2> HIDE DEF RawWrappers
  <2>2. Front(analyzed[Root].wrappers) \in Seq(RawWrappers)
    BY <2>1, FrontTyped
  <2> QED BY <1>1, <2>1, <2>2 DEF RootWrappers
<1>5. rest' \in Seq(SpineSteps \union RawWrappers)
  <2> HIDE DEF RawWrappers, SpineSteps
  <2> QED BY <1>4
<1>6. Names'
  BY <1>1 DEF Names
<1>7. Typed'
  BY <1>1, <1>5 DEF Typed
<1>8. Source'
  BY <1>1 DEF Source, Written
<1>9. Lowerable'
  <2>1. Closed(field.ty, DOMAIN lowered, <<Root>>)
    <3>1. DOMAIN lowered = {}
      BY <1>2
    <3> QED BY <1>3, <3>1, ClosedStart
  <2>2. RangeOf(<<Root>>) \subseteq DOMAIN analyzed /\ DOMAIN lowered \subseteq DOMAIN analyzed
    BY <1>2, <1>3 DEF RangeOf
  <2> QED BY <1>1, <1>2, <2>1, <2>2 DEF Lowerable
<1>10. Visiting'
  BY <1>1, <1>4, <1>9 DEF Visiting
<1> QED BY <1>6, <1>7, <1>8, <1>10

LEMMA WrapperNormalized ==
  ASSUME FieldInv, NormalizeWrapper, Aside
  PROVE  FieldInv'
<1> USE DEF FieldInv
<1>1. /\ phase = "lower" /\ rest # <<>> /\ rest' = Tail(rest) /\ norm' = NormalStep(norm, Head(rest))
      /\ UNCHANGED <<input, stage, todo, field, phase, override, work, peeled, analyzed, lowered>>
  BY DEF NormalizeWrapper, Lowering, Aside
<1>2. rest \in Seq(RawWrappers)
  BY <1>1 DEF Visiting
<1>3. Head(rest) \in RawWrappers /\ rest' \in Seq(RawWrappers) /\ rest' \in Seq(SpineSteps \union RawWrappers)
  <2> HIDE DEF RawWrappers, SpineSteps
  <2> QED BY <1>1, <1>2
<1>4. GoodNorm(norm')
  BY <1>1, <1>3, NormalStepGood DEF Typed
<1>5. Names'
  BY <1>1 DEF Names
<1>6. Typed'
  BY <1>1, <1>3, <1>4 DEF Typed
<1>7. Source'
  BY <1>1 DEF Source, Written
<1>8. Visiting'
  BY <1>1, <1>3 DEF Visiting, Lowerable
<1> QED BY <1>5, <1>6, <1>7, <1>8

LEMMA LeafLowered ==
  ASSUME FieldInv, LowerLeaf, Aside
  PROVE  FieldInv'
<1> USE DEF FieldInv
<1>1. /\ phase = "lower" /\ work # <<>>
      /\ work' = ElementSeq(field.ty, Current) \o Tail(work)
      /\ rest' = IF work' = <<>> THEN <<>> ELSE analyzed[Head(work')].wrappers
      /\ norm' = NormalStart
      /\ UNCHANGED <<input, stage, todo, field, phase, override, peeled, analyzed>>
  BY DEF LowerLeaf, Lowering, Aside
<1>2. lowered' = [p \in DOMAIN lowered \union {Current} |->
                    IF p = Current
                    THEN [leaf  |-> LeafOf(analyzed[Current].base),
                          shape |-> Shape, outer |-> analyzed[Current].outer]
                    ELSE lowered[p]]
  BY DEF LowerLeaf
<1>3. Lowerable /\ WellFormedField(field)
  BY <1>1, FieldWritten DEF Visiting
<1>4. DOMAIN lowered' = DOMAIN lowered \union {Head(work)}
  BY <1>2 DEF Current
<1>5. Closed(field.ty, DOMAIN lowered', work')
  BY <1>1, <1>3, <1>4, ClosedStep DEF Current, Lowerable
<1>6. Current \in DOMAIN field.ty /\ Current \in DOMAIN analyzed
  <2>1. work \in Seq(DOMAIN field.ty)
    BY <1>3 DEF Lowerable, Closed
  <2>2. 1 \in DOMAIN work /\ Current = work[1] /\ work[1] \in DOMAIN field.ty
    BY <1>1, <2>1 DEF Current
  <2> QED BY <1>3, <2>2 DEF Lowerable, RangeOf
<1>7. RangeOf(work') \subseteq DOMAIN analyzed
  <2>1. /\ work \in Seq(DOMAIN field.ty)
        /\ ElementSeq(field.ty, Current) \in Seq(DOMAIN field.ty)
        /\ RangeOf(ElementSeq(field.ty, Current))
             = {Append(Current, i) : i \in 1 .. Cardinality(Elements(field.ty, Current))}
    BY <1>3, <1>6, ElementsWritten DEF Lowerable, Closed
  <2>2. /\ RangeOf(work') = RangeOf(ElementSeq(field.ty, Current)) \union RangeOf(Tail(work))
        /\ RangeOf(Tail(work)) \subseteq RangeOf(work)
    BY <1>1, <2>1, SeqParts
  <2>3. \A i \in 1 .. Cardinality(Elements(field.ty, Current)) : Append(Current, i) \in DOMAIN analyzed
    BY <1>3, <1>6 DEF Lowerable, Closed, RangeOf
  <2> QED BY <1>3, <2>1, <2>2, <2>3 DEF Lowerable
<1>8. Lowerable'
  BY <1>1, <1>3, <1>4, <1>5, <1>6, <1>7 DEF Lowerable, Current
<1>9. rest' \in Seq(RawWrappers)
  <2>1. CASE work' = <<>>
    BY <1>1, <2>1
  <2>2. CASE work' # <<>>
    <3>1. work' \in Seq(DOMAIN field.ty)
      BY <1>5 DEF Closed
    <3>2. 1 \in DOMAIN work' /\ Head(work') = work'[1]
      BY <2>2, <3>1
    <3>3. Head(work') \in DOMAIN analyzed
      BY <1>7, <3>2 DEF RangeOf
    <3> QED BY <1>1, <2>2, <3>3 DEF Typed, TypedNodes
  <2> QED BY <2>1, <2>2
<1>10. rest' \in Seq(SpineSteps \union RawWrappers)
  <2> HIDE DEF RawWrappers, SpineSteps
  <2> QED BY <1>9
<1>11. GoodNodes(lowered')
  <2>1. GoodShape(Shape)
    BY NormalEndGood DEF Shape, Typed
  <2>2. analyzed[Current].outer \in Nat
    BY <1>6 DEF Typed, TypedNodes
  <2> QED BY <1>2, <2>1, <2>2 DEF Typed, GoodNodes
<1>12. Names'
  BY <1>1 DEF Names
<1>13. Typed'
  BY <1>1, <1>10, <1>11, NormalStartGood DEF Typed
<1>14. Source'
  BY <1>1 DEF Source, Written
<1>15. Visiting'
  BY <1>1, <1>8, <1>9 DEF Visiting
<1> QED BY <1>12, <1>13, <1>14, <1>15

LEMMA FieldFinished ==
  ASSUME FieldInv, FinishField, Aside
  PROVE  FieldInv'
<1> USE DEF FieldInv
<1>1. /\ phase = "lower" /\ work = <<>> /\ phase' = "lowered"
      /\ UNCHANGED <<input, stage, todo, field, override, work, rest, peeled, analyzed, norm, lowered>>
  BY DEF FinishField, Aside, analysis, lowering
<1>2. Names' /\ Typed'
  BY <1>1 DEF Names, Over, Typed
<1>3. Source'
  BY <1>1 DEF Source, Written
<1>4. Visiting'
  BY <1>1 DEF Visiting, Lowerable
<1> QED BY <1>2, <1>3, <1>4

LEMMA FieldStepKeeps ==
  ASSUME FieldInv, FieldNext, Aside
  PROVE  FieldInv'
<1>1. CASE ReadItem \/ SkipField \/ IncludeField
  BY <1>1, ItemRead, FieldSkipped, FieldIncluded
<1>2. CASE PeelWrapper \/ AnalyzeBase \/ AcceptType
  BY <1>2, WrapperPeeled, BaseAnalyzed, TypeAccepted
<1>3. CASE NormalizeWrapper \/ LowerLeaf \/ FinishField
  BY <1>3, WrapperNormalized, LeafLowered, FieldFinished
<1>4. CASE RefuseItem
  BY <1>4, FailKeeps DEF RefuseItem
<1>5. CASE RefuseMutRef
  BY <1>5, FailKeeps DEF RefuseMutRef, Peeling
<1>6. CASE RefuseBase
  BY <1>6, FailKeeps DEF RefuseBase, AtBase
<1>7. CASE RefuseType
  BY <1>7, FailKeeps DEF RefuseType, AnalysisDone
<1>8. CASE RefuseLeaf
  BY <1>8, FailKeeps DEF RefuseLeaf, Lowering
<1> QED BY <1>1, <1>2, <1>3, <1>4, <1>5, <1>6, <1>7, <1>8 DEF FieldNext, Attributes, Analysis, Leaves

-----------------------------------------------------------------------------
(* The rest of the derive: fields are taken up and put down.               *)

LEMMA InitField == Init => FieldInv
<1> SUFFICES ASSUME Init PROVE FieldInv
  OBVIOUS
<1>1. /\ stage = "config" /\ todo = <<>> /\ input \in Inputs
      /\ phase = "none" /\ override = NoAttr /\ rest = <<>> /\ peeled = NothingPeeled
      /\ analyzed = <<>> /\ norm = NormalStart /\ lowered = <<>>
  BY DEF Init, NothingLoaded
<1>2. Names
  BY <1>1 DEF Names, NoAttr
<1>3. TypedNodes(analyzed) /\ GoodNodes(lowered)
  <2>1. DOMAIN analyzed = {} /\ DOMAIN lowered = {}
    BY <1>1
  <2> QED BY <2>1 DEF TypedNodes, GoodNodes
<1>4. peeled \in [wrappers : Seq(RawWrappers), outer : Nat]
  BY <1>1 DEF NothingPeeled
<1>5. Typed
  BY <1>1, <1>3, <1>4, NormalStartGood DEF Typed
<1>6. Source /\ Visiting
  BY <1>1 DEF Source, Visiting
<1> QED BY <1>2, <1>5, <1>6 DEF FieldInv

LEMMA FieldAside ==
  ASSUME FieldInv, UNCHANGED <<input, todo, fieldVars>>,
         stage' = stage \/ stage' \in {"project"} \union Ended
  PROVE  FieldInv'
<1>1. UNCHANGED <<input, todo, field, phase, override, work, rest, peeled, analyzed, norm, lowered>>
  BY DEF fieldVars, analysis, lowering
<1>2. Names'
  BY <1>1 DEF FieldInv, Names
<1>3. Typed'
  BY <1>1 DEF FieldInv, Typed
<1>4. Source'
  BY <1>1 DEF FieldInv, Source, Written, Ended
<1>5. Visiting'
  BY <1>1 DEF FieldInv, Visiting, Lowerable
<1> QED BY <1>2, <1>3, <1>4, <1>5 DEF FieldInv

LEMMA StructParsed ==
  ASSUME FieldInv, ParseStruct
  PROVE  FieldInv'
<1>1. /\ stage = "config" /\ stage' = "fields" /\ todo' = input.fields
      /\ UNCHANGED <<input, field, phase, override, work, rest, peeled, analyzed, norm, lowered>>
  BY DEF ParseStruct, fieldVars, analysis, lowering
<1>2. input.fields \in Seq(Written)
  BY InputAssumption DEF FieldInv, Source, Written, RangeOf
<1>3. Names'
  BY <1>1 DEF FieldInv, Names
<1>4. Typed'
  BY <1>1 DEF FieldInv, Typed
<1>5. Source'
  BY <1>1, <1>2 DEF FieldInv, Source, Written
<1>6. Visiting'
  BY <1>1 DEF FieldInv, Visiting, Lowerable
<1> QED BY <1>3, <1>4, <1>5, <1>6 DEF FieldInv

LEMMA FieldStarted ==
  ASSUME FieldInv, StartField
  PROVE  FieldInv'
<1>1. /\ todo # <<>> /\ field' = Head(todo) /\ phase' = "attributes" /\ override' = NoAttr
      /\ rest' = <<>> /\ peeled' = NothingPeeled /\ analyzed' = <<>>
      /\ norm' = NormalStart /\ lowered' = <<>> /\ UNCHANGED <<input, stage, todo>>
      /\ stage = "fields"
  BY DEF StartField, LoadField
<1>2. Head(todo) \in Written
  BY <1>1 DEF FieldInv, Source
<1>3. Names'
  BY <1>1 DEF FieldInv, Names, NoAttr
<1>4. TypedNodes(<<>>) /\ GoodNodes(<<>>)
  <2>1. DOMAIN <<>> = {}
    OBVIOUS
  <2> QED BY <2>1 DEF TypedNodes, GoodNodes
<1>5. peeled' \in [wrappers : Seq(RawWrappers), outer : Nat]
  BY <1>1 DEF NothingPeeled
<1>6. Typed'
  BY <1>1, <1>4, <1>5, NormalStartGood DEF Typed
<1>7. Source'
  BY <1>1, <1>2 DEF FieldInv, Source, Written
<1>8. Visiting'
  BY <1>1 DEF Visiting
<1> QED BY <1>3, <1>6, <1>7, <1>8 DEF FieldInv

LEMMA FieldDone ==
  ASSUME FieldInv, KeepField \/ DropField
  PROVE  FieldInv'
<1>1. /\ phase' = "none"
      /\ UNCHANGED <<input, stage, field, override, rest, peeled, analyzed, norm, lowered>>
  BY DEF KeepField, DropField, analysis, lowering
<1>2. todo' = Tail(todo)
  BY DEF KeepField, DropField
<1>3. Names'
  BY <1>1 DEF FieldInv, Names
<1>4. Typed'
  BY <1>1 DEF FieldInv, Typed
<1>5. Source'
  <2>1. Tail(todo) \in Seq(Written)
    BY DEF FieldInv, Source, KeepField, DropField
  <2> QED BY <1>1, <1>2, <2>1 DEF FieldInv, Source, Written
<1>6. Visiting'
  BY <1>1 DEF Visiting
<1> QED BY <1>3, <1>4, <1>5, <1>6 DEF FieldInv

LEMMA NextField == FieldInv /\ [Next]_vars => FieldInv'
<1> SUFFICES ASSUME FieldInv, [Next]_vars PROVE FieldInv'
  OBVIOUS
<1>1. CASE ConfigStep \/ ConfigRefused \/ RefuseKind \/ FieldRefused \/ AllLowered \/ ProjectStep \/ AllProjected
  <2>1. UNCHANGED <<input, todo, fieldVars>>
    BY <1>1 DEF ConfigStep, ConfigRefused, RefuseKind, FieldRefused, AllLowered, ProjectStep, AllProjected
  <2>2. stage' = stage \/ stage' \in {"project"} \union Ended
    BY <1>1 DEF ConfigStep, ConfigRefused, RefuseKind, FieldRefused, AllLowered, ProjectStep, AllProjected, Ended
  <2> QED BY <2>1, <2>2, FieldAside
<1>2. CASE ParseStruct \/ StartField \/ KeepField \/ DropField
  BY <1>2, StructParsed, FieldStarted, FieldDone
<1>3. CASE FieldStep
  BY <1>3, FieldStepKeeps DEF FieldStep, Aside
<1>4. CASE UNCHANGED vars
  <2>1. UNCHANGED <<input, todo, fieldVars>> /\ stage' = stage
    BY <1>4 DEF vars
  <2> QED BY <2>1, FieldAside
<1> QED BY <1>1, <1>2, <1>3, <1>4 DEF Next

LEMMA SpecField == Spec => []FieldInv
BY InitField, NextField, PTL DEF Spec

-----------------------------------------------------------------------------
(* A lowered tree has its root, and the elements of every node in it.      *)

Children(tree, p) == {q \in DOMAIN tree : Len(q) = Len(p) + 1 /\ SubSeq(q, 1, Len(p)) = p}
GoodTree(tree) ==
  /\ Root \in DOMAIN tree
  /\ GoodNodes(tree)
  /\ \A p \in DOMAIN tree : Cardinality(Children(tree, p)) \in Nat
  /\ \A p \in DOMAIN tree : \A i \in 1 .. Cardinality(Children(tree, p)) : Append(p, i) \in DOMAIN tree

LEMMA LoweredTree ==
  ASSUME FieldInv, phase = "lowered"
  PROVE  GoodTree(lowered)
<1>1. WellFormedField(field) /\ Closed(field.ty, DOMAIN lowered, <<>>)
  BY FieldWritten DEF FieldInv, Visiting, Lowerable
<1>2. RangeOf(<<>>) = {}
  BY DEF RangeOf
<1>3. /\ Root \in DOMAIN lowered /\ DOMAIN lowered \subseteq DOMAIN field.ty
      /\ \A p \in DOMAIN lowered : \A i \in 1 .. Cardinality(Elements(field.ty, p)) : Append(p, i) \in DOMAIN lowered
  BY <1>1, <1>2 DEF Closed
<1>4. ASSUME NEW p \in DOMAIN lowered
      PROVE  /\ Cardinality(Children(lowered, p)) \in Nat
             /\ \A i \in 1 .. Cardinality(Children(lowered, p)) : Append(p, i) \in DOMAIN lowered
  <2>1. p \in Seq(Nat) /\ IsFiniteSet(Elements(field.ty, p))
    BY <1>1, <1>3 DEF WellFormedField
  <2>2. ASSUME NEW q \in Children(lowered, p) PROVE q \in Elements(field.ty, p)
    <3>1. /\ q \in Seq(Nat) /\ q \in DOMAIN field.ty
          /\ Len(q) = Len(p) + 1 /\ SubSeq(q, 1, Len(p)) = p
      BY <1>1, <1>3, <2>2 DEF WellFormedField, Children
    <3>2. Len(q) - 1 = Len(p) /\ q # Root
      BY <2>1, <3>1 DEF Root
    <3> QED BY <3>1, <3>2 DEF Elements, Front
  <2>3. /\ Cardinality(Children(lowered, p)) <= Cardinality(Elements(field.ty, p))
        /\ Cardinality(Children(lowered, p)) \in Nat /\ Cardinality(Elements(field.ty, p)) \in Nat
    BY <2>1, <2>2, FS_Subset, FS_CardinalityType
  <2> QED BY <1>3, <2>3
<1> QED BY <1>3, <1>4 DEF FieldInv, Typed, GoodTree

(* Growing and shrinking a sequence.                                       *)
LEMMA Grown ==
  ASSUME NEW s, s \in Seq(RangeOf(s)), NEW x
  PROVE  /\ Append(s, x) \in Seq(RangeOf(Append(s, x)))
         /\ Append(s, x) # <<>> /\ s # <<>> => Head(Append(s, x)) = Head(s)
         /\ RangeOf(Append(s, x)) = RangeOf(s) \union {x}
<1> DEFINE t == Append(s, x)
           S == RangeOf(s) \union {x}
<1>1. s \in Seq(S)
  <2>1. RangeOf(s) \subseteq S
    OBVIOUS
  <2> HIDE DEF S
  <2> QED BY <2>1
<1>2. /\ t \in Seq(S) /\ Len(t) = Len(s) + 1 /\ Len(s) \in Nat
      /\ \A i \in 1 .. Len(s) : t[i] = s[i]
      /\ t[Len(s) + 1] = x /\ DOMAIN t = 1 .. Len(s) + 1 /\ DOMAIN s = 1 .. Len(s)
  <2> HIDE DEF S
  <2>1. x \in S
    BY DEF S
  <2> QED BY <1>1, <2>1
<1> HIDE DEF t
<1>3. ASSUME NEW y \in RangeOf(t) PROVE y \in S
  <2>1. PICK i \in 1 .. Len(s) + 1 : y = t[i]
    BY <1>2, <1>3 DEF RangeOf
  <2>2. CASE i \in 1 .. Len(s)
    BY <1>2, <2>1, <2>2 DEF RangeOf
  <2>3. CASE i = Len(s) + 1
    BY <1>2, <2>1, <2>3
  <2> QED BY <1>2, <2>2, <2>3
<1>4. ASSUME NEW y \in S PROVE y \in RangeOf(t)
  <2>1. CASE y = x
    <3>1. Len(s) + 1 \in DOMAIN t
      BY <1>2
    <3> QED BY <1>2, <2>1, <3>1 DEF RangeOf
  <2>2. CASE y \in RangeOf(s)
    <3>1. PICK i \in 1 .. Len(s) : y = s[i]
      BY <1>2, <2>2 DEF RangeOf
    <3>2. i \in DOMAIN t /\ t[i] = y
      BY <1>2, <3>1
    <3> QED BY <3>2 DEF RangeOf
  <2> QED BY <1>4, <2>1, <2>2
<1>5. RangeOf(t) = S
  BY <1>3, <1>4
<1>6. s # <<>> => Head(t) = Head(s)
  <2> HIDE DEF S
  <2>1. s # <<>> => Len(s) > 0
    BY <1>1
  <2> QED BY <1>1, <1>2, <2>1
<1> QED BY <1>2, <1>5, <1>6 DEF t

LEMMA OfItsRange ==
  ASSUME NEW S, NEW s \in Seq(S)
  PROVE  s \in Seq(RangeOf(s))
<1> DEFINE R == RangeOf(s)
<1>1. Len(s) \in Nat /\ s = [i \in 1 .. Len(s) |-> s[i]]
  OBVIOUS
<1>2. \A i \in 1 .. Len(s) : s[i] \in R
  BY DEF RangeOf
<1> HIDE DEF R
<1>3. s \in [1 .. Len(s) -> R]
  BY <1>1, <1>2
<1>4. s \in Seq(R)
  BY <1>1, <1>3
<1> QED BY <1>4 DEF R

LEMMA Shrunk ==
  ASSUME NEW s, s \in Seq(RangeOf(s)), s # <<>>
  PROVE  /\ Tail(s) \in Seq(RangeOf(Tail(s)))
         /\ Head(s) \in RangeOf(s) /\ RangeOf(Tail(s)) \subseteq RangeOf(s)
<1>1. RangeOf(s) = {Head(s)} \union RangeOf(Tail(s))
  <2> DEFINE S == RangeOf(s)
  <2>1. s \in Seq(S) /\ <<>> \in Seq(S)
    OBVIOUS
  <2> HIDE DEF S
  <2>2. RangeOf(s) = {Head(s)} \union RangeOf(Tail(s))
    BY <2>1, SeqParts
  <2> QED BY <2>2
<1>2. Tail(s) \in Seq(RangeOf(Tail(s)))
  <2> DEFINE S == RangeOf(s)
  <2>1. s \in Seq(S)
    OBVIOUS
  <2> HIDE DEF S
  <2>2. Len(s) - 1 \in Nat /\ Len(Tail(s)) = Len(s) - 1 /\ Tail(s) \in Seq(S)
    BY <2>1
  <2> QED BY <2>2, OfItsRange
<1> QED BY <1>1, <1>2

-----------------------------------------------------------------------------
(* The projection works with shapes as lowering does.                      *)

LEMMA SameParentKind ==
  ASSUME NEW s
  PROVE  P!ParentKind(s) = ParentKind(s) /\ P!IsVec(s) = IsVec(s)
BY DEF P!ParentKind, ParentKind, P!IsVec, IsVec, P!HasInnerOption, HasInnerOption

LEMMA SameCardinality == \A S : P!Cardinality(S) = Cardinality(S)
BY Zenon DEF P!Cardinality, Cardinality

LEMMA SameCompose ==
  ASSUME NEW parent, NEW element
  PROVE  /\ P!Compose(parent, element) = Compose(parent, element)
         /\ P!ProjectionLayer(parent) = ProjectionLayer(parent)
         /\ P!ParentAccess(parent) = ParentAccess(parent)
         /\ P!Depth(element) = Depth(element)
         /\ P!Consistent(element) = Consistent(element)
<1>1. P!ParentKind(parent) = ParentKind(parent) /\ P!IsVec(parent) = IsVec(parent) /\ P!IsVec(element) = IsVec(element)
  BY SameParentKind
<1>2. /\ \A n, c : P!FromOptionAccess(n, c) = FromOptionAccess(n, c)
      /\ \A l, n, c : P!AddToFirst(l, n, c) = AddToFirst(l, n, c)
      /\ \A c : P!PrependOption(c) = PrependOption(c)
      /\ \A p, c : P!PrependParentOption(p, c) = PrependParentOption(p, c)
  <2>1. ASSUME NEW n, NEW c PROVE P!FromOptionAccess(n, c) = FromOptionAccess(n, c)
    BY Zenon DEF P!FromOptionAccess, FromOptionAccess, P!Bare, Bare, P!LeafShape, LeafShape
  <2>2. ASSUME NEW l, NEW n, NEW c PROVE P!AddToFirst(l, n, c) = AddToFirst(l, n, c)
    BY Zenon DEF P!AddToFirst, AddToFirst
  <2>3. ASSUME NEW c PROVE P!PrependOption(c) = PrependOption(c)
    BY Zenon DEF P!PrependOption, PrependOption
  <2>4. ASSUME NEW p, NEW c PROVE P!PrependParentOption(p, c) = PrependParentOption(p, c)
    <3>1. P!OptionLayers(p) = OptionLayers(p)
      <4> DEFINE S == {i \in DOMAIN p : p[i] = "Option"}
      <4>1. P!OptionLayers(p) = P!Cardinality(S) /\ OptionLayers(p) = Cardinality(S)
        BY Zenon DEF P!OptionLayers, OptionLayers
      <4> QED BY <4>1, SameCardinality
    <3> QED BY <2>3, <3>1, Zenon DEF P!PrependParentOption, PrependParentOption
  <2> QED BY <2>1, <2>2, <2>3, <2>4, Zenon
<1>3. P!ComposeOption(element) = ComposeOption(element)
  BY <1>1, <1>2, Zenon DEF P!ComposeOption, ComposeOption
<1>4. P!ComposeVec(parent, element) = ComposeVec(parent, element)
  BY <1>1, <1>2, Zenon DEF P!ComposeVec, ComposeVec
<1>5. P!Compose(parent, element) = Compose(parent, element)
  BY <1>1, <1>3, <1>4, Zenon DEF P!Compose, Compose
<1>6. P!Depth(element) = Depth(element) /\ P!Depth(parent) = Depth(parent)
  BY DEF P!Depth, Depth
<1>7. P!ProjectionLayer(parent) = ProjectionLayer(parent)
  BY <1>1, <1>6, Zenon DEF P!ProjectionLayer, ProjectionLayer
<1>8. P!ParentAccess(parent) = ParentAccess(parent)
  BY <1>1, Zenon DEF P!ParentAccess, ParentAccess
<1>9. P!Consistent(element) = Consistent(element)
  BY DEF P!Consistent, Consistent, P!ConsistentLayer, ConsistentLayer, P!HasOuterValidity, HasOuterValidity,
         P!HasOption, HasOption, P!HasInnerOption, HasInnerOption
<1> QED BY <1>5, <1>6, <1>7, <1>8, <1>9

-----------------------------------------------------------------------------
(* What is projected comes from good trees: the fields that wait, the tuple*)
(* elements that wait, which are in the tree of the first field, and the   *)
(* columns.                                                                *)

Reachable(c) ==
  /\ c.projection_layer \in 1 .. Depth(c.shape)
  /\ c.projection_layer = Depth(c.shape) =>
       /\ Len(c.parent_access) <= Len(c.shape.inner_access)
       /\ SubSeq(c.shape.inner_access, 1, Len(c.parent_access)) = c.parent_access
GoodColumn(c) == GoodShape(c.shape) /\ (c.kind = "TupleParentVec" => Reachable(c))

TupleElements == [path : DOMAIN Head(fields).tree, parent : {s \in Shapes : Consistent(s)}]

Waiting  == fields \in Seq(RangeOf(fields)) /\ \A f \in RangeOf(fields) : GoodTree(f.tree)
Opened   == /\ stage \in {"config", "fields"} => elements = <<>>
            /\ elements # <<>> => fields # <<>>
            /\ elements \in Seq(TupleElements)
Projected == columns \in Seq(RangeOf(columns)) /\ \A c \in RangeOf(columns) : GoodColumn(c)
ProjectInv == Waiting /\ Opened /\ Projected

LEMMA CurrentTree ==
  ASSUME Waiting, fields # <<>>
  PROVE  GoodTree(P!Tree)
BY Shrunk DEF Waiting, P!Tree

LEMMA OpenedElements ==
  ASSUME GoodTree(P!Tree), NEW p \in DOMAIN P!Tree, NEW parent, GoodShape(parent)
  PROVE  P!ElementsOf(p, parent) \in Seq(TupleElements)
<1> DEFINE n == Cardinality(Children(P!Tree, p))
<1>1. n \in Nat /\ \A i \in 1 .. n : Append(p, i) \in DOMAIN P!Tree
  BY DEF GoodTree
<1>2. P!Arity(p) = n
  BY SameCardinality, Zenon DEF P!Arity, Children
<1> HIDE DEF n
<1>6. P!ElementsOf(p, parent) = [i \in 1 .. n |-> [path |-> Append(p, i), parent |-> parent]]
  BY <1>2, Zenon DEF P!ElementsOf
<1>3. \A i \in 1 .. n : [path |-> Append(p, i), parent |-> parent] \in TupleElements
  BY <1>1 DEF TupleElements, P!Tree, GoodShape
<1> HIDE DEF TupleElements
<1>4. [i \in 1 .. n |-> [path |-> Append(p, i), parent |-> parent]] \in [1 .. n -> TupleElements]
  BY <1>3
<1>5. P!ElementsOf(p, parent) \in [1 .. n -> TupleElements]
  BY <1>4, <1>6, Zenon
<1> QED BY <1>1, <1>5

LEMMA ColumnGrown ==
  ASSUME Projected, NEW c, GoodColumn(c), columns' = Append(columns, c)
  PROVE  Projected'
<1>1. columns' \in Seq(RangeOf(columns')) /\ RangeOf(columns') = RangeOf(columns) \union {c}
  BY Grown DEF Projected
<1> QED BY <1>1 DEF Projected

LEMMA FieldColumnGood ==
  ASSUME Waiting, fields # <<>>
  PROVE  GoodColumn(P!FieldColumn)
<1>1. Root \in DOMAIN P!Tree /\ GoodShape(P!Tree[Root].shape)
  BY CurrentTree DEF GoodTree, GoodNodes
<1>2. P!FieldColumn.shape = P!Tree[Root].shape /\ P!FieldColumn.kind = "Field"
  BY DEF P!FieldColumn, P!Column, Root
<1> QED BY <1>1, <1>2 DEF GoodColumn

LEMMA ElementColumnGood ==
  ASSUME Waiting, fields # <<>>, NEW e \in TupleElements
  PROVE  GoodColumn(P!ElementColumn(e))
<1> DEFINE c       == P!ElementColumn(e)
           element == P!Tree[e.path].shape
<1>1. e.path \in DOMAIN P!Tree /\ GoodShape(e.parent)
  BY DEF TupleElements, P!Tree, GoodShape
<1>2. GoodShape(element)
  BY <1>1, CurrentTree DEF GoodTree, GoodNodes
<1>3. /\ c.shape = P!Compose(e.parent, element) /\ c.kind = P!ParentKind(e.parent)
      /\ c.projection_layer = P!ProjectionLayer(e.parent)
      /\ c.parent_access = P!ParentAccess(e.parent)
  BY DEF P!ElementColumn, P!Column
<1> HIDE DEF c, element
<1>4. /\ c.shape = Compose(e.parent, element) /\ c.kind = ParentKind(e.parent)
      /\ c.projection_layer = ProjectionLayer(e.parent)
      /\ c.parent_access = ParentAccess(e.parent)
  BY <1>3, SameParentKind, SameCompose
<1>5. GoodShape(c.shape)
  BY <1>1, <1>2, <1>4, ComposeGood
<1>6. c.kind = "TupleParentVec" => Reachable(c)
  BY <1>1, <1>2, <1>4, ComposedReachable DEF Reachable
<1> QED BY <1>5, <1>6 DEF GoodColumn, c

LEMMA FieldProjected ==
  ASSUME ProjectInv, P!ProjectField, stage' = stage
  PROVE  ProjectInv'
<1>1. /\ fields # <<>> /\ elements = <<>> /\ columns' = Append(columns, P!FieldColumn)
      /\ fields' = Tail(fields) /\ elements' = <<>>
  BY DEF P!ProjectField
<1>2. Waiting'
  BY <1>1, Shrunk DEF ProjectInv, Waiting
<1>3. Projected'
  BY <1>1, FieldColumnGood, ColumnGrown DEF ProjectInv
<1>4. Opened'
  BY <1>1 DEF Opened
<1> QED BY <1>2, <1>3, <1>4 DEF ProjectInv

LEMMA TupleOpened ==
  ASSUME ProjectInv, P!OpenTuple, stage = "project", stage' = stage
  PROVE  ProjectInv'
<1>1. /\ fields # <<>> /\ elements' = P!ElementsOf(Root, P!Tree[Root].shape)
      /\ fields' = fields /\ columns' = columns
  BY DEF P!OpenTuple, Root
<1>2. GoodTree(P!Tree)
  BY <1>1, CurrentTree DEF ProjectInv
<1>3. Root \in DOMAIN P!Tree /\ GoodShape(P!Tree[Root].shape)
  BY <1>2 DEF GoodTree, GoodNodes
<1>4. elements' \in Seq(TupleElements)
  BY <1>1, <1>2, <1>3, OpenedElements
<1>5. TupleElements' = TupleElements
  BY <1>1 DEF TupleElements
<1> QED BY <1>1, <1>4, <1>5 DEF ProjectInv, Waiting, Opened, Projected

LEMMA ElementProjected ==
  ASSUME ProjectInv, P!ProjectElement, stage = "project", stage' = stage
  PROVE  ProjectInv'
<1>1. /\ elements # <<>> /\ columns' = Append(columns, P!ElementColumn(Head(elements)))
      /\ elements' = Tail(elements)
      /\ fields' = IF elements' = <<>> THEN Tail(fields) ELSE fields
  BY DEF P!ProjectElement
<1>2. /\ fields # <<>> /\ Head(elements) \in TupleElements /\ Tail(elements) \in Seq(TupleElements)
  <2>1. elements \in Seq(TupleElements) /\ fields # <<>>
    BY <1>1 DEF ProjectInv, Opened
  <2> HIDE DEF TupleElements
  <2> QED BY <1>1, <2>1
<1>3. Projected'
  BY <1>1, <1>2, ElementColumnGood, ColumnGrown DEF ProjectInv
<1>4. Waiting'
  BY <1>1, <1>2, Shrunk DEF ProjectInv, Waiting
<1>5. Opened'
  <2>1. CASE elements' = <<>>
    BY <2>1 DEF Opened
  <2>2. CASE elements' # <<>>
    <3>1. fields' = fields /\ TupleElements' = TupleElements
      BY <1>1, <2>2 DEF TupleElements
    <3> QED BY <1>1, <1>2, <3>1 DEF Opened
  <2> QED BY <2>1, <2>2
<1> QED BY <1>3, <1>4, <1>5 DEF ProjectInv

LEMMA NestedOpened ==
  ASSUME ProjectInv, P!OpenNestedTuple, stage = "project", stage' = stage
  PROVE  ProjectInv'
<1>1. /\ elements # <<>> /\ elements' = P!ElementsOf(Head(elements).path, Bare) \o Tail(elements)
      /\ fields' = fields /\ columns' = columns
  BY DEF P!OpenNestedTuple, P!Bare, Bare, P!LeafShape, LeafShape
<1>2. elements \in Seq(TupleElements) /\ fields # <<>>
  BY <1>1 DEF ProjectInv, Opened
<1>3. GoodTree(P!Tree)
  BY <1>2, CurrentTree DEF ProjectInv
<1>4. Head(elements) \in TupleElements /\ Tail(elements) \in Seq(TupleElements)
  <2> HIDE DEF TupleElements
  <2> QED BY <1>1, <1>2
<1>5. Head(elements).path \in DOMAIN P!Tree
  BY <1>4 DEF TupleElements, P!Tree
<1>6. P!ElementsOf(Head(elements).path, Bare) \in Seq(TupleElements)
  BY <1>3, <1>5, BareGood, OpenedElements
<1>7. elements' \in Seq(TupleElements) /\ TupleElements' = TupleElements
  <2>1. TupleElements' = TupleElements
    BY <1>1 DEF TupleElements
  <2> HIDE DEF TupleElements
  <2> QED BY <1>1, <1>4, <1>6, <2>1
<1> QED BY <1>1, <1>2, <1>7 DEF ProjectInv, Waiting, Opened, Projected

LEMMA InitProject == Init => ProjectInv
<1> SUFFICES ASSUME Init PROVE ProjectInv
  OBVIOUS
<1>1. fields = <<>> /\ elements = <<>> /\ columns = <<>>
  BY DEF Init
<1>2. RangeOf(<<>>) = {}
  BY DEF RangeOf
<1> QED BY <1>1, <1>2 DEF ProjectInv, Waiting, Opened, Projected

LEMMA FieldKept ==
  ASSUME FieldInv, ProjectInv, KeepField
  PROVE  ProjectInv'
<1>1. /\ stage = "fields" /\ phase = "lowered" /\ fields' = Append(fields, FieldIR)
      /\ UNCHANGED <<stage, elements, columns>>
  BY DEF KeepField
<1>2. FieldIR.tree = lowered
  BY DEF FieldIR
<1>3. GoodTree(FieldIR.tree)
  BY <1>1, <1>2, LoweredTree
<1>4. elements = <<>>
  BY <1>1 DEF ProjectInv, Opened
<1>5. Waiting'
  BY <1>1, <1>3, Grown DEF ProjectInv, Waiting
<1>6. Opened'
  BY <1>1, <1>4 DEF Opened
<1>7. Projected'
  BY <1>1 DEF ProjectInv, Projected
<1> QED BY <1>5, <1>6, <1>7 DEF ProjectInv

LEMMA ProjectAside ==
  ASSUME ProjectInv, UNCHANGED projectVars,
         stage' \in {"config", "fields"} => stage \in {"config", "fields"}
  PROVE  ProjectInv'
<1>1. UNCHANGED <<fields, elements, columns>>
  BY DEF projectVars
<1>2. TupleElements' = TupleElements
  BY <1>1 DEF TupleElements
<1> QED BY <1>1, <1>2 DEF ProjectInv, Waiting, Opened, Projected

LEMMA NextProject == FieldInv /\ ProjectInv /\ [Next]_vars => ProjectInv'
<1> SUFFICES ASSUME FieldInv, ProjectInv, [Next]_vars PROVE ProjectInv'
  OBVIOUS
<1>1. CASE ConfigStep \/ ConfigRefused \/ ParseStruct \/ RefuseKind
  <2>1. UNCHANGED projectVars /\ stage = "config"
    BY <1>1 DEF ConfigStep, ConfigRefused, ParseStruct, RefuseKind
  <2> QED BY <2>1, ProjectAside
<1>2. CASE StartField \/ FieldStep \/ DropField \/ FieldRefused \/ AllLowered
  <2>1. UNCHANGED projectVars /\ stage = "fields"
    BY <1>2 DEF StartField, FieldStep, DropField, FieldRefused, AllLowered
  <2> QED BY <2>1, ProjectAside
<1>3. CASE KeepField
  BY <1>3, FieldKept
<1>4. CASE ProjectStep
  <2>1. P!Next /\ stage = "project" /\ stage' = stage
    BY <1>4 DEF ProjectStep
  <2> QED BY <2>1, FieldProjected, TupleOpened, ElementProjected, NestedOpened DEF P!Next
<1>5. CASE AllProjected
  <2>1. UNCHANGED projectVars /\ stage' = "derived"
    BY <1>5 DEF AllProjected
  <2> QED BY <2>1, ProjectAside
<1>6. CASE UNCHANGED vars
  <2>1. UNCHANGED projectVars /\ stage' = stage
    BY <1>6 DEF vars
  <2> QED BY <2>1, ProjectAside
<1> QED BY <1>1, <1>2, <1>3, <1>4, <1>5, <1>6 DEF Next

LEMMA SpecProject == Spec => [](FieldInv /\ ProjectInv)
<1>1. Init => FieldInv /\ ProjectInv
  BY InitField, InitProject
<1>2. FieldInv /\ ProjectInv /\ [Next]_vars => (FieldInv /\ ProjectInv)'
  BY NextField, NextProject
<1> QED BY <1>1, <1>2, PTL DEF Spec

-----------------------------------------------------------------------------
(* The parts of a derive are in states of their own, whatever item it is   *)
(* written on: lowering leaves normalised shapes and counts behind it, and *)
(* a column is never given anything else.                                  *)
THEOREM DeriveTyped == Spec => []TypeOK
<1>1. ASSUME FieldInv, ProjectInv PROVE TypeOK
  <2>1. \A p \in DOMAIN lowered : lowered[p].shape \in Shapes /\ lowered[p].outer \in Nat
    BY <1>1 DEF FieldInv, Typed, GoodNodes, GoodShape
  <2>2. \A k \in DOMAIN columns : columns[k].shape \in Shapes
    BY <1>1 DEF ProjectInv, Projected, RangeOf, GoodColumn, GoodShape
  <2>3. /\ peeled.wrappers \in Seq(RawWrappers) /\ peeled.outer \in Nat
        /\ norm.layers \in Seq(Layers) /\ norm.pending \in Chains
        /\ rest \in Seq(SpineSteps \union RawWrappers)
    BY <1>1 DEF FieldInv, Typed, GoodNorm
  <2> QED BY <1>1, <2>1, <2>2, <2>3 DEF FieldInv, Names, TypeOK
<1>2. FieldInv /\ ProjectInv => TypeOK
  BY <1>1
<1> QED BY <1>2, SpecProject, PTL

(* However deep the Options, lists and tuples of a field are stacked, each *)
(* boundary of each of its columns counts an Option exactly when its access*)
(* chain has one: the count decides which buffers the encoder declares, the*)
(* chain what its scan pushes to.                                          *)
THEOREM BuffersMatchScans == Spec => []ColumnsConsistent
<1>1. ASSUME ProjectInv PROVE ColumnsConsistent
  <2>1. \A k \in DOMAIN columns : Consistent(columns[k].shape)
    BY <1>1 DEF ProjectInv, Projected, RangeOf, GoodColumn, GoodShape
  <2> QED BY <2>1, SameCompose DEF ColumnsConsistent, P!ColumnsConsistent
<1>2. FieldInv /\ ProjectInv => ColumnsConsistent
  BY <1>1
<1> QED BY <1>2, SpecProject, PTL

(* A column projected inside a list finds the wrappers of its tuple where  *)
(* the reader strips them off, for every tuple in every list.              *)
THEOREM TuplesReached == Spec => []ProjectionsReachable
<1>1. ASSUME ProjectInv PROVE ProjectionsReachable
  <2>1. ASSUME NEW k \in DOMAIN columns, columns[k].kind = "TupleParentVec" PROVE Reachable(columns[k])
    BY <1>1, <2>1 DEF ProjectInv, Projected, RangeOf, GoodColumn
  <2>2. \A c : P!Depth(c.shape) = Depth(c.shape)
    BY SameCompose
  <2> QED BY <2>1, <2>2 DEF ProjectionsReachable, P!ProjectionsReachable, P!IsPrefixOf, Reachable
<1>2. FieldInv /\ ProjectInv => ProjectionsReachable
  BY <1>1
<1> QED BY <1>2, SpecProject, PTL

-----------------------------------------------------------------------------
(* Tuples in tuples.  A type with wrappers around either is refused before *)
(* it is lowered, and what has no wrappers is lowered to the bare shape.   *)

PlainTuple(p) == analyzed[p].base = "Tuple" /\ analyzed[p].wrappers = <<>>
TuplesLowered ==
  \A p \in DOMAIN lowered : lowered[p].leaf.spec = "Tuple" =>
    analyzed[p].base = "Tuple" /\ (analyzed[p].wrappers = <<>> => lowered[p].shape = Bare)
Nesting ==
  /\ phase \in {"attributes", "analyze"} => norm = NormalStart
  /\ phase \in {"analyze", "lower"} => override.key # "skip"
  /\ phase \in {"lower", "lowered"} => ~WrappedNestedTuple /\ TuplesLowered
  /\ phase = "lower" /\ work # <<>> => (PlainTuple(Current) => rest = <<>> /\ norm = NormalStart)

LEMMA PlainShape == NormalEnd(NormalStart) = Bare
<1>1. OptionLayers(<<>>) = 0
  <2>1. {i \in DOMAIN <<>> : <<>>[i] = "Option"} = {}
    OBVIOUS
  <2> QED BY <2>1, FS_EmptySet DEF OptionLayers
<1> QED BY <1>1 DEF NormalEnd, NormalStart, FromOptionAccess

LEMMA DefaultTuple ==
  ASSUME NEW base, DefaultLeaf(base).spec = "Tuple"
  PROVE  base = "Tuple"
<1>1. \/ DefaultLeaf(base) = [spec |-> "Numeric", value |-> <<>>]
      \/ DefaultLeaf(base) = [spec |-> "AsStr", value |-> <<>>]
      \/ DefaultLeaf(base) = [spec |-> base, value |-> <<"ms">>]
      \/ DefaultLeaf(base) = [spec |-> "Duration", value |-> <<"ns">>]
      \/ DefaultLeaf(base) = [spec |-> "Decimal", value |-> <<38, 10>>]
      \/ DefaultLeaf(base) = [spec |-> base, value |-> <<>>]
  BY Zenon DEF DefaultLeaf
<1> QED BY <1>1

LEMMA LeafOfTuple ==
  ASSUME NEW base, LeafOf(base).spec = "Tuple",
         override.key \in (FieldOverrideKeys \union {"none"}) \ {"skip"}
  PROVE  base = "Tuple"
<1>1. \/ LeafOf(base) = DefaultLeaf(base)
      \/ LeafOf(base) = [spec |-> "AsStr", value |-> <<>>]
      \/ LeafOf(base) = [spec |-> "AsString", value |-> <<>>]
      \/ LeafOf(base) = [spec |-> "Binary", value |-> <<>>]
      \/ LeafOf(base) = [spec |-> "Decimal", value |-> override.value]
      \/ LeafOf(base) = [spec |-> TimedSpec(base), value |-> override.value]
  <2>1. \/ Current # Root \/ override.key \in {"none", "flatten"} \/ override.key = "as_str"
        \/ override.key = "as_string" \/ override.key = "as_binary"
        \/ override.key = "decimal" \/ override.key = "time_unit"
    BY DEF FieldOverrideKeys
  <2>2. CASE Current # Root \/ override.key \in {"none", "flatten"}
    BY <2>2 DEF LeafOf
  <2>3. CASE override.key = "as_str"
    BY <2>3 DEF LeafOf
  <2>4. CASE override.key = "as_string"
    BY <2>4 DEF LeafOf
  <2>5. CASE override.key = "as_binary"
    BY <2>5 DEF LeafOf
  <2>6. CASE override.key = "decimal"
    BY <2>6 DEF LeafOf
  <2>7. CASE override.key = "time_unit"
    BY <2>7 DEF LeafOf
  <2> QED BY <2>1, <2>2, <2>3, <2>4, <2>5, <2>6, <2>7
<1>2. TimedSpec(base) = "Duration" \/ TimedSpec(base) = base
  BY DEF TimedSpec
<1> QED BY <1>1, <1>2, DefaultTuple

LEMMA TypeAcceptedPlain ==
  ASSUME FieldInv, Nesting, AcceptType
  PROVE  Nesting'
<1>1. /\ phase = "analyze" /\ phase' = "lower" /\ work' = <<Root>> /\ rest' = RootWrappers
      /\ CheckError = "none"
      /\ UNCHANGED <<field, override, analyzed, norm, lowered>>
  BY DEF AcceptType, AnalysisDone, lowering
<1>2. ~WrappedNestedTuple
  <2>1. CheckError # "self_reference" /\ CheckError # "wrapped_nested_tuple"
    BY <1>1
  <2> QED BY <2>1, Zenon DEF CheckError
<1>3. WrappedNestedTuple' <=> WrappedNestedTuple
  BY <1>1 DEF WrappedNestedTuple, IsTuple, Wrapped
<1>4. TuplesLowered'
  <2>1. DOMAIN lowered' = {}
    BY <1>1 DEF FieldInv, Visiting
  <2> QED BY <2>1 DEF TuplesLowered
<1>5. PlainTuple(Root) => RootWrappers = <<>>
  BY DEF PlainTuple, RootWrappers
<1>6. PlainTuple(Current)' => PlainTuple(Root)
  BY <1>1 DEF PlainTuple, Current
<1> QED BY <1>1, <1>2, <1>3, <1>4, <1>5, <1>6 DEF Nesting

LEMMA LeafLoweredPlain ==
  ASSUME FieldInv, Nesting, LowerLeaf
  PROVE  Nesting'
<1>1. /\ phase = "lower" /\ work # <<>> /\ rest = <<>>
      /\ work' = ElementSeq(field.ty, Current) \o Tail(work)
      /\ rest' = IF work' = <<>> THEN <<>> ELSE analyzed[Head(work')].wrappers
      /\ norm' = NormalStart
      /\ UNCHANGED <<field, phase, override, analyzed>>
  BY DEF LowerLeaf, Lowering
<1>2. lowered' = [p \in DOMAIN lowered \union {Current} |->
                    IF p = Current
                    THEN [leaf  |-> LeafOf(analyzed[Current].base),
                          shape |-> Shape, outer |-> analyzed[Current].outer]
                    ELSE lowered[p]]
  BY DEF LowerLeaf
<1>3. LeafOf(analyzed[Current].base).spec = "Tuple" => analyzed[Current].base = "Tuple"
  <2>1. override.key \in (FieldOverrideKeys \union {"none"}) \ {"skip"}
    BY <1>1 DEF FieldInv, Names, Nesting
  <2> QED BY <2>1, LeafOfTuple
<1>4. PlainTuple(Current) => Shape = Bare
  BY <1>1, PlainShape DEF Nesting, Shape
<1>5. TuplesLowered'
  <2>1. ASSUME NEW p \in DOMAIN lowered', lowered'[p].leaf.spec = "Tuple"
        PROVE  analyzed[p].base = "Tuple" /\ (analyzed[p].wrappers = <<>> => lowered'[p].shape = Bare)
    <3>1. CASE p = Current
      <4>1. lowered'[p] = [leaf  |-> LeafOf(analyzed[Current].base),
                           shape |-> Shape, outer |-> analyzed[Current].outer]
        BY <1>2, <3>1
      <4>2. lowered'[p].leaf = LeafOf(analyzed[Current].base) /\ lowered'[p].shape = Shape
        BY <4>1
      <4> QED BY <1>3, <1>4, <2>1, <3>1, <4>2 DEF PlainTuple
    <3>2. CASE p # Current
      <4>1. p \in DOMAIN lowered /\ lowered'[p] = lowered[p]
        BY <1>2, <3>2
      <4> QED BY <1>1, <2>1, <4>1 DEF Nesting, TuplesLowered
    <3> QED BY <3>1, <3>2
  <2> QED BY <1>1, <2>1 DEF TuplesLowered
<1>6. WrappedNestedTuple' <=> WrappedNestedTuple
  BY <1>1 DEF WrappedNestedTuple, IsTuple, Wrapped
<1>7. PlainTuple(Current)' /\ work' # <<>> => rest' = <<>>
  BY <1>1 DEF PlainTuple, Current
<1> QED BY <1>1, <1>5, <1>6, <1>7 DEF Nesting

LEMMA FieldStepNests ==
  ASSUME FieldInv, Nesting, FieldNext
  PROVE  Nesting'
<1>1. CASE ReadItem \/ SkipField
  <2>1. phase = "attributes" /\ phase' \in {"attributes", "skipped"} /\ norm' = norm
    BY <1>1 DEF ReadItem, SkipField, lowering
  <2> QED BY <2>1 DEF Nesting
<1>2. CASE IncludeField
  <2>1. phase = "attributes" /\ phase' = "analyze" /\ norm' = norm /\ override' = override /\ override.key # "skip"
    BY <1>2 DEF IncludeField, lowering
  <2> QED BY <2>1 DEF Nesting
<1>3. CASE PeelWrapper \/ AnalyzeBase
  <2>1. phase = "analyze" /\ phase' = phase /\ norm' = norm /\ override' = override
    BY <1>3 DEF PeelWrapper, Peeling, AnalyzeBase, AtBase, lowering
  <2> QED BY <2>1 DEF Nesting
<1>4. CASE AcceptType \/ LowerLeaf
  BY <1>4, TypeAcceptedPlain, LeafLoweredPlain
<1>5. CASE NormalizeWrapper
  <2>1. /\ phase = "lower" /\ work # <<>> /\ rest # <<>>
        /\ UNCHANGED <<field, phase, override, work, analyzed, lowered>>
    BY <1>5 DEF NormalizeWrapper, Lowering
  <2>2. ~PlainTuple(Current)
    BY <2>1 DEF Nesting
  <2>3. UNCHANGED <<WrappedNestedTuple, TuplesLowered, PlainTuple(Current)>>
    BY <2>1 DEF WrappedNestedTuple, IsTuple, Wrapped, TuplesLowered, PlainTuple, Current
  <2> QED BY <2>1, <2>2, <2>3 DEF Nesting
<1>6. CASE FinishField
  <2>1. phase = "lower" /\ phase' = "lowered" /\ UNCHANGED <<field, analyzed, lowered>>
    BY <1>6 DEF FinishField, analysis, lowering
  <2>2. UNCHANGED <<WrappedNestedTuple, TuplesLowered>>
    BY <2>1 DEF WrappedNestedTuple, IsTuple, Wrapped, TuplesLowered
  <2> QED BY <2>1, <2>2 DEF Nesting
<1>7. CASE RefuseItem \/ RefuseMutRef \/ RefuseBase \/ RefuseType \/ RefuseLeaf
  <2>1. phase' = "error"
    BY <1>7 DEF RefuseItem, RefuseMutRef, RefuseBase, RefuseType, RefuseLeaf, Fail
  <2> QED BY <2>1 DEF Nesting
<1> QED BY <1>1, <1>2, <1>3, <1>4, <1>5, <1>6, <1>7 DEF FieldNext, Attributes, Analysis, Leaves

(* In a tree a tuple's elements are tuples only if nothing is wrapped      *)
(* around either; an element that waits has such a tuple above it.         *)
BareTree(tree) ==
  /\ DOMAIN tree \subseteq Seq(Nat)
  /\ \A p, q \in DOMAIN tree :
       q \in Children(tree, p) /\ tree[p].leaf.spec = "Tuple" /\ tree[q].leaf.spec = "Tuple" =>
         tree[p].shape = Bare /\ tree[q].shape = Bare
Parented(e, tree) ==
  \E p \in DOMAIN tree :
    /\ e.path \in Children(tree, p) /\ tree[p].leaf.spec = "Tuple"
    /\ e.parent \in {Bare, tree[p].shape}
TreesBare ==
  /\ \A f \in RangeOf(fields) : BareTree(f.tree)
  /\ \A e \in RangeOf(elements) : Parented(e, P!Tree)
NestInv == Nesting /\ TreesBare

LEMMA LoweredBare ==
  ASSUME FieldInv, Nesting, phase = "lowered"
  PROVE  BareTree(lowered)
<1>1. WellFormedField(field) /\ DOMAIN lowered \subseteq DOMAIN field.ty /\ DOMAIN lowered \subseteq DOMAIN analyzed
  BY FieldWritten DEF FieldInv, Visiting, Lowerable, Closed
<1>2. DOMAIN lowered \subseteq Seq(Nat)
  BY <1>1 DEF WellFormedField
<1>3. ASSUME NEW p \in DOMAIN lowered, NEW q \in Children(lowered, p),
             lowered[p].leaf.spec = "Tuple", lowered[q].leaf.spec = "Tuple"
      PROVE  lowered[p].shape = Bare /\ lowered[q].shape = Bare
  <2>1. q \in DOMAIN lowered /\ Len(q) = Len(p) + 1 /\ SubSeq(q, 1, Len(p)) = p
    BY <1>3 DEF Children
  <2>2. Len(q) - 1 = Len(p) /\ q # Root
    BY <1>2, <2>1 DEF Root
  <2>3. q \in Elements(field.ty, p)
    BY <1>1, <2>1, <2>2 DEF Elements, Front
  <2>4. analyzed[p].base = "Tuple" /\ analyzed[q].base = "Tuple"
    BY <1>3, <2>1 DEF Nesting, TuplesLowered
  <2>5. analyzed[p].wrappers = <<>> /\ analyzed[q].wrappers = <<>>
    BY <1>1, <2>3, <2>4 DEF Nesting, WrappedNestedTuple, IsTuple, Wrapped
  <2> QED BY <1>3, <2>1, <2>5 DEF Nesting, TuplesLowered
<1> QED BY <1>2, <1>3 DEF BareTree

LEMMA OpenedParented ==
  ASSUME GoodTree(P!Tree), BareTree(P!Tree), NEW p \in DOMAIN P!Tree, P!IsTuple(p),
         NEW parent \in {Bare, P!Tree[p].shape}
  PROVE  \A e \in RangeOf(P!ElementsOf(p, parent)) : Parented(e, P!Tree)
<1> DEFINE n == Cardinality(Children(P!Tree, p))
<1>1. n \in Nat /\ \A i \in 1 .. n : Append(p, i) \in DOMAIN P!Tree
  BY DEF GoodTree
<1>2. P!Arity(p) = n
  BY SameCardinality, Zenon DEF P!Arity, Children
<1> HIDE DEF n
<1>3. P!ElementsOf(p, parent) = [i \in 1 .. n |-> [path |-> Append(p, i), parent |-> parent]]
  BY <1>2, Zenon DEF P!ElementsOf
<1>4. ASSUME NEW e \in RangeOf(P!ElementsOf(p, parent)) PROVE Parented(e, P!Tree)
  <2>1. PICK i \in 1 .. n : e = [path |-> Append(p, i), parent |-> parent]
    BY <1>3, <1>4 DEF RangeOf
  <2>2. p \in Seq(Nat) /\ Append(p, i) \in DOMAIN P!Tree
    BY <1>1 DEF BareTree
  <2>3. Len(Append(p, i)) = Len(p) + 1 /\ SubSeq(Append(p, i), 1, Len(p)) = p
    BY <1>1, <2>2
  <2>4. e.path \in Children(P!Tree, p) /\ e.parent = parent
    BY <2>1, <2>2, <2>3 DEF Children
  <2> QED BY <2>4 DEF Parented, P!IsTuple
<1> QED BY <1>4

LEMMA InitNest == Init => NestInv
<1> SUFFICES ASSUME Init PROVE NestInv
  OBVIOUS
<1>1. fields = <<>> /\ elements = <<>> /\ phase = "none"
  BY DEF Init, NothingLoaded
<1>2. RangeOf(<<>>) = {}
  BY DEF RangeOf
<1> QED BY <1>1, <1>2 DEF NestInv, Nesting, TreesBare

LEMMA CurrentBare ==
  ASSUME Waiting, TreesBare, fields # <<>>
  PROVE  GoodTree(P!Tree) /\ BareTree(P!Tree)
BY Shrunk DEF Waiting, TreesBare, P!Tree

LEMMA ProjectNests ==
  ASSUME ProjectInv, TreesBare, P!Next
  PROVE  TreesBare'
<1>1. RangeOf(<<>>) = {}
  BY DEF RangeOf
<1>2. CASE P!ProjectField
  <2>1. fields # <<>> /\ fields' = Tail(fields) /\ elements' = <<>>
    BY <1>2 DEF P!ProjectField
  <2> QED BY <1>1, <2>1, Shrunk DEF ProjectInv, Waiting, TreesBare
<1>3. CASE P!OpenTuple
  <2>1. /\ fields # <<>> /\ P!IsTuple(Root)
        /\ elements' = P!ElementsOf(Root, P!Tree[Root].shape) /\ fields' = fields
    BY <1>3 DEF P!OpenTuple, Root
  <2>2. GoodTree(P!Tree) /\ BareTree(P!Tree) /\ Root \in DOMAIN P!Tree
    BY <2>1, CurrentBare DEF ProjectInv, GoodTree
  <2>3. \A e \in RangeOf(elements') : Parented(e, P!Tree)
    BY <2>1, <2>2, OpenedParented
  <2>4. P!Tree' = P!Tree
    BY <2>1 DEF P!Tree
  <2> QED BY <2>1, <2>3, <2>4 DEF TreesBare
<1>4. CASE P!ProjectElement
  <2>1. /\ elements # <<>> /\ elements' = Tail(elements)
        /\ fields' = IF elements' = <<>> THEN Tail(fields) ELSE fields
    BY <1>4 DEF P!ProjectElement
  <2>2. fields # <<>> /\ elements \in Seq(TupleElements)
    BY <2>1 DEF ProjectInv, Opened
  <2>3. RangeOf(elements') \subseteq RangeOf(elements)
    <3>1. elements \in Seq(RangeOf(elements))
      BY <2>2, OfItsRange
    <3> QED BY <2>1, <3>1, Shrunk
  <2>4. \A f \in RangeOf(fields') : BareTree(f.tree)
    BY <2>1, <2>2, Shrunk DEF ProjectInv, Waiting, TreesBare
  <2>5. CASE elements' = <<>>
    BY <1>1, <2>4, <2>5 DEF TreesBare
  <2>6. CASE elements' # <<>>
    <3>1. P!Tree' = P!Tree
      BY <2>1, <2>6 DEF P!Tree
    <3> QED BY <2>3, <2>4, <3>1 DEF TreesBare
  <2> QED BY <2>5, <2>6
<1>5. CASE P!OpenNestedTuple
  <2> DEFINE p == Head(elements).path
  <2>1. /\ elements # <<>> /\ P!IsTuple(p)
        /\ elements' = P!ElementsOf(p, Bare) \o Tail(elements) /\ fields' = fields
    BY <1>5 DEF P!OpenNestedTuple, P!Bare, Bare, P!LeafShape, LeafShape
  <2>2. fields # <<>> /\ elements \in Seq(TupleElements)
    BY <2>1 DEF ProjectInv, Opened
  <2>3. GoodTree(P!Tree) /\ BareTree(P!Tree)
    BY <2>2, CurrentBare DEF ProjectInv
  <2>4. Head(elements) \in TupleElements
    <3> HIDE DEF TupleElements
    <3> QED BY <2>1, <2>2
  <2>5. p \in DOMAIN P!Tree
    BY <2>4 DEF TupleElements, P!Tree
  <2> HIDE DEF p
  <2>6. P!ElementsOf(p, Bare) \in Seq(TupleElements)
    BY <2>3, <2>5, BareGood, OpenedElements
  <2>7. /\ RangeOf(elements') = RangeOf(P!ElementsOf(p, Bare)) \union RangeOf(Tail(elements))
        /\ RangeOf(Tail(elements)) \subseteq RangeOf(elements)
    BY <2>1, <2>2, <2>6, SeqParts
  <2>8. \A e \in RangeOf(P!ElementsOf(p, Bare)) : Parented(e, P!Tree)
    BY <2>1, <2>3, <2>5, OpenedParented
  <2>9. P!Tree' = P!Tree
    BY <2>1 DEF P!Tree
  <2> QED BY <2>1, <2>7, <2>8, <2>9 DEF TreesBare
<1> QED BY <1>2, <1>3, <1>4, <1>5 DEF P!Next

LEMMA NestAside ==
  ASSUME Nesting, UNCHANGED fieldVars
  PROVE  Nesting'
<1>1. UNCHANGED <<field, phase, override, work, rest, analyzed, norm, lowered>>
  BY DEF fieldVars, analysis, lowering
<1>2. UNCHANGED <<WrappedNestedTuple, TuplesLowered, PlainTuple(Current)>>
  BY <1>1 DEF WrappedNestedTuple, IsTuple, Wrapped, TuplesLowered, PlainTuple, Current
<1> QED BY <1>1, <1>2 DEF Nesting

LEMMA NextNest == FieldInv /\ ProjectInv /\ NestInv /\ [Next]_vars => NestInv'
<1> SUFFICES ASSUME FieldInv, ProjectInv, Nesting, TreesBare, [Next]_vars PROVE NestInv'
  BY DEF NestInv
<1>0. UNCHANGED projectVars => TreesBare'
  BY DEF projectVars, TreesBare, P!Tree
<1>1. CASE ConfigStep \/ ConfigRefused \/ ParseStruct \/ RefuseKind \/ FieldRefused \/ AllLowered \/ AllProjected
           \/ UNCHANGED vars
  <2>1. UNCHANGED <<fieldVars, projectVars>>
    BY <1>1 DEF ConfigStep, ConfigRefused, ParseStruct, RefuseKind, FieldRefused, AllLowered, AllProjected, vars
  <2> QED BY <1>0, <2>1, NestAside DEF NestInv
<1>2. CASE StartField
  <2>1. phase' = "attributes" /\ norm' = NormalStart /\ UNCHANGED projectVars
    BY <1>2 DEF StartField, LoadField
  <2> QED BY <1>0, <2>1 DEF NestInv, Nesting
<1>3. CASE FieldStep
  <2>1. FieldNext /\ UNCHANGED projectVars
    BY <1>3 DEF FieldStep
  <2> QED BY <1>0, <2>1, FieldStepNests DEF NestInv
<1>4. CASE KeepField
  <2>1. /\ phase = "lowered" /\ phase' = "none" /\ stage = "fields"
        /\ fields' = Append(fields, FieldIR) /\ elements' = elements
    BY <1>4 DEF KeepField
  <2>2. elements' = <<>> /\ RangeOf(<<>>) = {}
    BY <2>1 DEF ProjectInv, Opened, RangeOf
  <2>3. BareTree(FieldIR.tree)
    BY <2>1, LoweredBare DEF FieldIR
  <2>4. RangeOf(fields') = RangeOf(fields) \union {FieldIR}
    BY <2>1, Grown DEF ProjectInv, Waiting
  <2> QED BY <2>1, <2>2, <2>3, <2>4 DEF NestInv, Nesting, TreesBare
<1>5. CASE DropField
  <2>1. phase' = "none" /\ UNCHANGED projectVars
    BY <1>5 DEF DropField
  <2> QED BY <1>0, <2>1 DEF NestInv, Nesting
<1>6. CASE ProjectStep
  <2>1. P!Next /\ UNCHANGED fieldVars
    BY <1>6 DEF ProjectStep
  <2> QED BY <2>1, ProjectNests, NestAside DEF NestInv
<1> QED BY <1>1, <1>2, <1>3, <1>4, <1>5, <1>6 DEF Next

(* What the projection asserts of a tuple in a tuple never fails: whatever *)
(* types the fields have, nothing is wrapped around either of the two when *)
(* the inner one is opened, since neither's wrappers would reach a column. *)
THEOREM NestedTuplesStayBare == Spec => []NestedTuplesBare
<1>1. ASSUME ProjectInv, NestInv PROVE NestedTuplesBare
  <2>1. ASSUME NEW k \in DOMAIN elements, P!IsTuple(elements[k].path)
        PROVE  elements[k].parent = Bare /\ P!Tree[elements[k].path].shape = Bare
    <3>1. Parented(elements[k], P!Tree)
      BY <1>1 DEF NestInv, TreesBare, RangeOf
    <3>2. fields # <<>>
      <4>1. elements # <<>>
        OBVIOUS
      <4> QED BY <1>1, <4>1 DEF ProjectInv, Opened
    <3>3. BareTree(P!Tree)
      BY <1>1, <3>2, CurrentBare DEF ProjectInv, NestInv
    <3>4. PICK p \in DOMAIN P!Tree : /\ elements[k].path \in Children(P!Tree, p)
                                     /\ P!Tree[p].leaf.spec = "Tuple"
                                     /\ elements[k].parent \in {Bare, P!Tree[p].shape}
      BY <3>1 DEF Parented
    <3>5. elements[k].path \in DOMAIN P!Tree
      BY <3>4 DEF Children
    <3> QED BY <2>1, <3>3, <3>4, <3>5 DEF BareTree, P!IsTuple
  <2>2. P!Bare = Bare
    BY DEF P!Bare, Bare, P!LeafShape, LeafShape
  <2> QED BY <2>1, <2>2 DEF NestedTuplesBare, P!NestedTuplesBare
<1>2. Init => FieldInv /\ ProjectInv /\ NestInv
  BY InitField, InitProject, InitNest
<1>3. FieldInv /\ ProjectInv /\ NestInv /\ [Next]_vars => (FieldInv /\ ProjectInv /\ NestInv)'
  BY NextField, NextProject, NextNest
<1>4. FieldInv /\ ProjectInv /\ NestInv => NestedTuplesBare
  BY <1>1
<1> QED BY <1>2, <1>3, <1>4, PTL DEF Spec

-----------------------------------------------------------------------------
(* Conflicts.  The attribute a field has is one that was understood, and a *)
(* field that is refused while it has items left is so for the first.      *)

Taken ==
  /\ override = NoAttr \/ override.key \in FieldOverrideKeys
  /\ phase \in {"analyze", "lower", "lowered", "skipped"} => items = <<>>
  /\ phase = "error" /\ items # <<>> =>
       error = ItemError(Head(items)) /\ error # "none"

LEMMA InitTaken == Init => Taken
BY DEF Init, NothingLoaded, Taken

LEMMA NextTaken == Taken /\ [Next]_vars => Taken'
<1> SUFFICES ASSUME Taken, [Next]_vars PROVE Taken'
  OBVIOUS
<1>1. CASE UNCHANGED fieldVars
  BY <1>1 DEF fieldVars, Taken, ItemError
<1>2. CASE StartField
  BY <1>2 DEF StartField, LoadField, Taken
<1>3. CASE KeepField \/ DropField
  BY <1>3 DEF KeepField, DropField, Taken
<1>4. CASE ReadItem
  <2>1. phase' = "attributes" /\ override' = FieldAttr(Head(items)) /\ ItemError(Head(items)) = "none"
    BY <1>4 DEF ReadItem
  <2>2. Head(items).key \in FieldOverrideKeys
    BY <2>1, KeyKnown
  <2>3. override'.key = Head(items).key
    BY <2>1 DEF FieldAttr
  <2> QED BY <2>1, <2>2, <2>3 DEF Taken
<1>5. CASE RefuseItem
  <2>1. /\ phase' = "error" /\ error' = ItemError(Head(items)) /\ error' # "none"
        /\ items' = items /\ override' = override
    BY <1>5 DEF RefuseItem, Fail
  <2>2. ItemError(Head(items))' = ItemError(Head(items))
    BY <2>1 DEF ItemError
  <2> QED BY <2>1, <2>2 DEF Taken
<1>6. CASE SkipField \/ IncludeField
  BY <1>6 DEF SkipField, IncludeField, Taken
<1>7. CASE PeelWrapper \/ AnalyzeBase \/ AcceptType \/ NormalizeWrapper \/ LowerLeaf \/ FinishField
  <2>1. /\ phase \in {"analyze", "lower"} /\ phase' \in {"analyze", "lower", "lowered"}
        /\ items' = items /\ override' = override
    BY <1>7 DEF PeelWrapper, Peeling, AnalyzeBase, AtBase, AcceptType, AnalysisDone, NormalizeWrapper,
                Lowering, LowerLeaf, FinishField
  <2> QED BY <2>1 DEF Taken
<1>8. CASE RefuseMutRef \/ RefuseBase \/ RefuseType \/ RefuseLeaf
  <2>1. phase \in {"analyze", "lower"} /\ items' = items /\ override' = override
    BY <1>8 DEF RefuseMutRef, Peeling, RefuseBase, AtBase, RefuseType, AnalysisDone, RefuseLeaf, Lowering, Fail
  <2>2. phase' = "error"
    BY <1>8 DEF RefuseMutRef, RefuseBase, RefuseType, RefuseLeaf, Fail
  <2> QED BY <2>1, <2>2 DEF Taken
<1>9. CASE ConfigStep \/ ConfigRefused \/ ParseStruct \/ RefuseKind \/ FieldRefused \/ AllLowered
           \/ ProjectStep \/ AllProjected \/ UNCHANGED vars
  BY <1>1, <1>9 DEF ConfigStep, ConfigRefused, ParseStruct, RefuseKind, FieldRefused, AllLowered,
                    ProjectStep, AllProjected, vars
<1> QED BY <1>2, <1>3, <1>4, <1>5, <1>6, <1>7, <1>8, <1>9
    DEF Next, FieldStep, FieldNext, Attributes, Analysis, Leaves

(* An item that is refused on its own is refused as itself.                *)
LEMMA RefusedAlone ==
  ASSUME NEW item
  PROVE  ItemRefused(item) \notin {"duplicate", "different_values"}
<1> DEFINE Both == {"duplicate", "different_values"}
<1>1. ASSUME NEW key, NEW args PROVE FirstRefused(key, args) \notin Both
  <2>1. ASSUME NEW i PROVE ArgRefused(key, args, i) \notin Both
    <3>1. ArgRefused(key, args, i) \in {"unknown_argument", "argument_out_of_range", "duplicate_argument",
                                        "different_arguments", "none"}
      BY Zenon DEF ArgRefused
    <3> QED BY <3>1
  <2> QED BY <2>1 DEF FirstRefused
<1>2. ASSUME NEW args PROVE DecimalRefused(args) \notin Both
  <2>1. DecimalRefused(args) \in {FirstRefused("decimal", args), "argument_missing", "scale_exceeds_precision", "none"}
    BY Zenon DEF DecimalRefused
  <2> QED BY <1>1, <2>1
<1>3. ItemRefused(item) \in {"unknown_key", DecimalRefused(item.args), "none", "unknown_time_unit",
                             FirstRefused("flatten", item.args)}
  BY Zenon DEF ItemRefused
<1> QED BY <1>1, <1>2, <1>3

LEMMA ConflictSpeaks ==
  ASSUME NEW existing, NEW incoming, existing.key \in FieldOverrideKeys,
         incoming.key \in FieldOverrideKeys, existing.key # incoming.key
  PROVE  LET message == ConflictMessage(existing, incoming)
         IN /\ message \notin {"duplicate", "different_values"}
            /\ {existing.key, incoming.key} \subseteq Explains(message)
<1> DEFINE message == ConflictMessage(existing, incoming)
           pair    == {existing.key, incoming.key}
           text    == {"as_str", "as_string"}
           Others  == {"as_str", "as_string", "decimal", "time_unit"}
           InText     == pair = text
           InDecimal  == pair \in {{"decimal", t} : t \in text}
           InTime     == pair \in {{"time_unit", t} : t \in text}
           InNumbers  == pair = {"decimal", "time_unit"}
           WithSkip    == "skip" \in pair
           WithFlatten == "flatten" \in pair /\ "skip" \notin pair
           WithBinary  == "as_binary" \in pair /\ pair \cap {"skip", "flatten"} = {}
<1>0. message = CASE InText -> "as_str_and_as_string" [] InDecimal -> "decimal_and_text"
                  [] InTime -> "time_unit_and_text" [] InNumbers -> "decimal_and_time_unit"
                  [] WithSkip -> "skip_and_any" [] WithFlatten -> "flatten_and_any"
                  [] WithBinary -> "as_binary_and_override" [] OTHER -> "incompatible"
  BY Zenon DEF ConflictMessage
<1> HIDE DEF message, InText, InDecimal, InTime, InNumbers, WithSkip, WithFlatten, WithBinary
<1>1. \/ message = "as_str_and_as_string" /\ InText
      \/ message = "decimal_and_text" /\ InDecimal
      \/ message = "time_unit_and_text" /\ InTime
      \/ message = "decimal_and_time_unit" /\ InNumbers
      \/ message = "skip_and_any"
      \/ message = "flatten_and_any"
      \/ message = "as_binary_and_override" /\ WithBinary
      \/ ~InText /\ ~InDecimal /\ ~InTime /\ ~InNumbers /\ ~WithSkip /\ ~WithFlatten /\ ~WithBinary
  BY <1>0
<1> USE DEF InText, InDecimal, InTime, InNumbers, WithSkip, WithFlatten, WithBinary
<1>2. existing.key \in Others /\ incoming.key \in Others =>
        \/ pair = text \/ pair \in {{"decimal", t} : t \in text}
        \/ pair \in {{"time_unit", t} : t \in text} \/ pair = {"decimal", "time_unit"}
  OBVIOUS
<1>3. \/ existing.key \in Others /\ incoming.key \in Others
      \/ "skip" \in pair \/ "flatten" \in pair
      \/ "as_binary" \in pair /\ pair \cap {"skip", "flatten"} = {}
  BY DEF FieldOverrideKeys
<1>4. \/ message = "as_str_and_as_string" /\ pair \subseteq {"as_str", "as_string"}
      \/ message = "decimal_and_text" /\ pair \subseteq {"decimal", "as_str", "as_string"}
      \/ message = "time_unit_and_text" /\ pair \subseteq {"time_unit", "as_str", "as_string"}
      \/ message = "decimal_and_time_unit" /\ pair \subseteq {"decimal", "time_unit"}
      \/ message \in {"skip_and_any", "flatten_and_any"} /\ pair \subseteq FieldOverrideKeys
      \/ message = "as_binary_and_override"
           /\ pair \subseteq {"as_binary", "as_str", "as_string", "decimal", "time_unit"}
  BY <1>1, <1>2, <1>3 DEF FieldOverrideKeys
<1>5. pair \subseteq Explains(message)
  <2>1. /\ Explains("as_str_and_as_string") = {"as_str", "as_string"}
        /\ Explains("decimal_and_text") = {"decimal", "as_str", "as_string"}
        /\ Explains("time_unit_and_text") = {"time_unit", "as_str", "as_string"}
        /\ Explains("decimal_and_time_unit") = {"decimal", "time_unit"}
        /\ Explains("skip_and_any") = FieldOverrideKeys /\ Explains("flatten_and_any") = FieldOverrideKeys
        /\ Explains("as_binary_and_override") = {"as_binary", "as_str", "as_string", "decimal", "time_unit"}
    BY DEF Explains
  <2> QED BY <1>4, <2>1
<1>6. message \notin {"duplicate", "different_values"}
  BY <1>4
<1> QED BY <1>5, <1>6 DEF message

(* Whatever attributes a field has, and in whichever order they are        *)
(* written, a conflict is refused with a message about the two that        *)
(* conflict, and only an attribute written twice is called a duplicate.    *)
THEOREM ConflictsExplained == Spec => []ConflictExplained
<1>1. ASSUME Taken PROVE ConflictExplained
  <2> SUFFICES ASSUME phase = "error", items # <<>>
               PROVE  LET keys == {override.key, Head(items).key}
                      IN /\ error \in {"duplicate", "different_values"} => Cardinality(keys) = 1
                         /\ ItemRefused(Head(items)) = "none" /\ Cardinality(keys) = 2 =>
                              keys \subseteq Explains(error)
    BY DEF ConflictExplained
  <2> DEFINE item == Head(items)
             keys == {override.key, item.key}
  <2>1. error = ItemError(item) /\ error # "none"
    BY <1>1 DEF Taken
  <2>2. CASE ItemRefused(item) # "none"
    BY <2>1, <2>2, RefusedAlone DEF ItemError
  <2>3. CASE ItemRefused(item) = "none"
    <3>1. error = SetOverrideRefused(override, FieldAttr(item)) /\ FieldAttr(item).key = item.key
      BY <2>1, <2>3 DEF ItemError, FieldAttr
    <3>2. override # NoAttr
      BY <2>1, <3>1 DEF SetOverrideRefused
    <3>3. override.key \in FieldOverrideKeys /\ item.key \in FieldOverrideKeys
      <4>1. item.key \notin FieldOverrideKeys => ItemRefused(item) = "unknown_key"
        BY DEF ItemRefused, FieldOverrideKeys
      <4> QED BY <1>1, <2>3, <3>2, <4>1 DEF Taken
    <3>4. CASE override.key = item.key
      <4>1. keys = {item.key}
        BY <3>4
      <4>2. Cardinality(keys) = 1
        BY <4>1, FS_Singleton
      <4> QED BY <4>2
    <3>5. CASE override.key # item.key
      <4>1. error = ConflictMessage(override, FieldAttr(item))
        BY <3>1, <3>2, <3>5 DEF SetOverrideRefused
      <4> QED BY <3>1, <3>3, <3>5, <4>1, ConflictSpeaks
    <3> QED BY <3>4, <3>5
  <2> QED BY <2>2, <2>3
<1>2. Taken => ConflictExplained
  BY <1>1
<1> QED BY <1>2, InitTaken, NextTaken, PTL DEF Spec

-----------------------------------------------------------------------------
(* When nothing is left to be visited, every node of the type has been.    *)
LEMMA AllVisited ==
  ASSUME NEW f, WellFormedField(f), NEW seen, Closed(f.ty, seen, <<>>)
  PROVE  seen = DOMAIN f.ty
<1>1. Root \in seen /\ seen \subseteq DOMAIN f.ty
  BY DEF Closed, RangeOf
<1>2. \A p \in seen : \A i \in 1 .. Cardinality(Elements(f.ty, p)) : Append(p, i) \in seen
  BY DEF Closed, RangeOf
<1> SUFFICES ASSUME DOMAIN f.ty \ seen # {} PROVE FALSE
  BY <1>1
<1> DEFINE T == {Len(p) : p \in DOMAIN f.ty \ seen}
<1>3. DOMAIN f.ty \subseteq Seq(Nat)
  BY DEF WellFormedField
<1>4. T \subseteq Nat /\ T # {}
  <2>1. \A p \in DOMAIN f.ty : Len(p) \in Nat
    BY <1>3
  <2> QED BY <2>1, Zenon
<1>5. PICK n \in T : \A m \in T : n <= m
  <2> HIDE DEF T
  <2> QED BY <1>4, LeastNatural
<1>6. PICK p \in DOMAIN f.ty \ seen : n = Len(p)
  OBVIOUS
<1>7. p \in Seq(Nat) /\ p # <<>> /\ Len(p) \in Nat /\ Len(p) > 0
  BY <1>1, <1>3, <1>6 DEF Root
<1>8. PICK q : q = SubSeq(p, 1, Len(p) - 1)
  OBVIOUS
<1>9. q \in DOMAIN f.ty /\ Len(q) = Len(p) - 1
  <2>1. \A m \in 0 .. Len(p) : SubSeq(p, 1, m) \in DOMAIN f.ty
    BY <1>6 DEF WellFormedField
  <2>2. Len(SubSeq(p, 1, Len(p) - 1)) = Len(p) - 1
    BY <1>7, LastOfStart, Zenon
  <2>3. Len(p) - 1 \in 0 .. Len(p)
    BY <1>7
  <2>4. SubSeq(p, 1, Len(p) - 1) \in DOMAIN f.ty
    BY <2>1, <2>3, Zenon
  <2> QED BY <1>8, <2>2, <2>4, Zenon
<1>10. q \in seen
  <2>1. q \notin seen => Len(q) \in T
    BY <1>9, Zenon
  <2>2. q \notin seen => Len(p) <= Len(p) - 1
    <3> HIDE DEF T
    <3> QED BY <1>5, <1>6, <1>9, <2>1
  <2> QED BY <1>7, <2>2
<1>11. p \in Elements(f.ty, q)
  BY <1>1, <1>6, <1>8 DEF Elements, Front
<1>12. Elements(f.ty, q) = {Append(q, i) : i \in 1 .. Cardinality(Elements(f.ty, q))}
  BY <1>9 DEF WellFormedField
<1> QED BY <1>2, <1>6, <1>10, <1>11, <1>12

-----------------------------------------------------------------------------
(* Vecs and Options of a stack: how many Vecs there are, and whether an    *)
(* Option is below exactly k of them.                                      *)

VecCount(s)  == Cardinality(Places(s, "Vec"))
Above(s, i)  == {j \in Places(s, "Vec") : j < i}
NullAt(s, k) == \E i \in Places(s, "Option") : Cardinality(Above(s, i)) = k

LEMMA PlacesFinite ==
  ASSUME NEW S, NEW s \in Seq(S)
  PROVE  /\ IsFiniteSet(Places(s, "Vec")) /\ VecCount(s) \in Nat
         /\ \A i : IsFiniteSet(Above(s, i)) /\ Cardinality(Above(s, i)) \in Nat
                     /\ Cardinality(Above(s, i)) <= VecCount(s)
<1>1. Places(s, "Vec") \subseteq 1 .. Len(s) /\ IsFiniteSet(1 .. Len(s))
  BY FS_Interval DEF Places
<1>2. IsFiniteSet(Places(s, "Vec"))
  BY <1>1, FS_Subset
<1>3. VecCount(s) \in Nat
  BY <1>2, FS_CardinalityType DEF VecCount
<1>4. ASSUME NEW i
      PROVE  IsFiniteSet(Above(s, i)) /\ Cardinality(Above(s, i)) \in Nat
               /\ Cardinality(Above(s, i)) <= VecCount(s)
  <2>1. Above(s, i) \in SUBSET Places(s, "Vec")
    BY DEF Above
  <2>2. IsFiniteSet(Above(s, i)) /\ Cardinality(Above(s, i)) <= VecCount(s)
    BY <1>2, <2>1, FS_Subset DEF VecCount
  <2> QED BY <2>2, FS_CardinalityType
<1> QED BY <1>2, <1>3, <1>4

LEMMA NullAtDeep ==
  ASSUME NEW S, NEW s \in Seq(S), NEW k, NullAt(s, k)
  PROVE  k \in Nat /\ k <= VecCount(s)
BY PlacesFinite DEF NullAt

LEMMA StackGrown ==
  ASSUME NEW S, NEW s \in Seq(S), NEW x \in S
  PROVE  /\ VecCount(Append(s, x)) = IF x = "Vec" THEN VecCount(s) + 1 ELSE VecCount(s)
         /\ \A k : NullAt(Append(s, x), k) <=>
                     NullAt(s, k) \/ (x = "Option" /\ k = VecCount(s))
<1> DEFINE t == Append(s, x)
<1>1. /\ t \in Seq(S) /\ Len(t) = Len(s) + 1 /\ Len(s) \in Nat
      /\ DOMAIN s = 1 .. Len(s) /\ DOMAIN t = 1 .. Len(s) + 1
      /\ \A i \in 1 .. Len(s) : t[i] = s[i]
      /\ t[Len(s) + 1] = x
  OBVIOUS
<1> HIDE DEF t
<1>2. \A kind : Places(t, kind) = IF x = kind THEN Places(s, kind) \union {Len(s) + 1} ELSE Places(s, kind)
  BY <1>1 DEF Places
<1>3. Len(s) + 1 \notin Places(s, "Vec") /\ IsFiniteSet(Places(s, "Vec"))
  BY <1>1, PlacesFinite DEF Places
<1>4. VecCount(t) = IF x = "Vec" THEN VecCount(s) + 1 ELSE VecCount(s)
  BY <1>2, <1>3, FS_AddElement DEF VecCount
<1>5. \A i \in 1 .. Len(s) : Above(t, i) = Above(s, i)
  BY <1>1, <1>2 DEF Above
<1>6. Above(t, Len(s) + 1) = Places(s, "Vec")
  BY <1>1, <1>2 DEF Above, Places
<1>7. ASSUME NEW k
      PROVE  NullAt(t, k) <=> NullAt(s, k) \/ (x = "Option" /\ k = VecCount(s))
  <2>1. \A i \in Places(s, "Option") : i \in 1 .. Len(s)
    BY <1>1 DEF Places
  <2>2. ASSUME NullAt(s, k) PROVE NullAt(t, k)
    BY <1>2, <1>5, <2>1, <2>2 DEF NullAt
  <2>3. ASSUME x = "Option", k = VecCount(s) PROVE NullAt(t, k)
    <3>1. Len(s) + 1 \in Places(t, "Option")
      BY <1>2, <2>3
    <3> QED BY <1>6, <2>3, <3>1 DEF NullAt, VecCount
  <2>4. ASSUME NullAt(t, k) PROVE NullAt(s, k) \/ (x = "Option" /\ k = VecCount(s))
    <3>1. PICK i \in Places(t, "Option") : Cardinality(Above(t, i)) = k
      BY <2>4 DEF NullAt
    <3>2. CASE i \in Places(s, "Option")
      BY <1>5, <2>1, <3>1, <3>2 DEF NullAt
    <3>3. CASE i \notin Places(s, "Option")
      <4>1. x = "Option" /\ i = Len(s) + 1
        BY <1>2, <3>1, <3>3
      <4> QED BY <1>6, <3>1, <4>1 DEF VecCount
    <3> QED BY <3>2, <3>3
  <2> QED BY <2>2, <2>3, <2>4
<1> QED BY <1>4, <1>7 DEF t

LEMMA StackEmpty == VecCount(<<>>) = 0 /\ \A k : ~NullAt(<<>>, k)
BY FS_EmptySet DEF VecCount, NullAt, Places

-----------------------------------------------------------------------------
(* Peeling: the wrappers kept of a spine have its Vecs, and its Options at *)
(* the same levels; there are none unless there is an Option or a Vec, and *)
(* they end in a Vec if the spine does.                                    *)

SameLevels(ws, s) ==
  VecCount(ws) = VecCount(s) /\ \A k : NullAt(ws, k) <=> NullAt(s, k)
PeeledTo(ws, s) ==
  /\ ws \in Seq(RawWrappers) /\ s \in Seq(SpineSteps)
  /\ SameLevels(ws, s)
  /\ ws = <<>> <=> NotListed(s)
  /\ ws # <<>> => ws[1] \in {"Option", "Vec"}
  /\ ByteList(ws) <=> ByteList(s)

LEMMA PeelStart == PeeledTo(<<>>, <<>>)
<1>1. <<>> \in Seq(RawWrappers) /\ <<>> \in Seq(SpineSteps)
  OBVIOUS
<1>2. NotListed(<<>>) /\ ~ByteList(<<>>)
  BY DEF NotListed, ByteList
<1> QED BY <1>1, <1>2 DEF PeeledTo, SameLevels

LEMMA AppendedLast ==
  ASSUME NEW S, NEW s \in Seq(S), NEW x \in S
  PROVE  /\ Append(s, x) \in Seq(S) /\ Append(s, x) # <<>> /\ Last(Append(s, x)) = x
         /\ Front(Append(s, x)) = s
         /\ s # <<>> => Append(s, x)[1] = s[1]
         /\ s = <<>> => Append(s, x)[1] = x
         /\ NotListed(Append(s, x)) <=> NotListed(s) /\ x \notin {"Option", "Vec"}
         /\ ByteList(Append(s, x)) <=> x = "Vec"
<1> DEFINE t == Append(s, x)
<1>1. /\ t \in Seq(S) /\ Len(t) = Len(s) + 1 /\ Len(s) \in Nat
      /\ DOMAIN s = 1 .. Len(s) /\ DOMAIN t = 1 .. Len(s) + 1
      /\ \A i \in 1 .. Len(s) : t[i] = s[i]
      /\ t[Len(s) + 1] = x
      /\ s # <<>> => 1 \in 1 .. Len(s)
      /\ s = <<>> => Len(s) = 0
  OBVIOUS
<1>2. t # <<>>
  <2> HIDE DEF t
  <2>1. Len(t) # 0
    BY <1>1
  <2> QED BY <2>1
<1>3. Front(t) = s
  <2>1. SubSeq(t, 1, Len(s)) = s
    <3> DEFINE u == SubSeq(t, 1, Len(s))
    <3>1. u \in Seq(S) /\ Len(u) = Len(s) /\ \A i \in 1 .. Len(s) : u[i] = t[i]
      BY <1>1, StartOf
    <3> HIDE DEF u, t
    <3>2. u = s
      BY <1>1, <3>1
    <3> QED BY <3>2 DEF u
  <2>2. Len(t) - 1 = Len(s)
    BY <1>1
  <2> QED BY <2>1, <2>2 DEF Front
<1> HIDE DEF t
<1>4. Last(t) = x
  BY <1>1 DEF Last
<1>5. NotListed(t) <=> NotListed(s) /\ x \notin {"Option", "Vec"}
  BY <1>1 DEF NotListed
<1>6. ByteList(t) <=> x = "Vec"
  BY <1>2, <1>4 DEF ByteList
<1>7. (s # <<>> => t[1] = s[1]) /\ (s = <<>> => t[1] = x)
  BY <1>1
<1> QED BY <1>1, <1>2, <1>3, <1>4, <1>5, <1>6, <1>7 DEF t

LEMMA PeelStep ==
  ASSUME NEW ws, NEW s, PeeledTo(ws, s), NEW x \in SpineSteps,
         NEW kept, kept = (IF x \in {"Option", "Vec"} THEN Append(ws, x)
                           ELSE IF ws = <<>> THEN ws ELSE Append(ws, "SmartPtr"))
  PROVE  PeeledTo(kept, Append(s, x))
<1>1. ws \in Seq(RawWrappers) /\ s \in Seq(SpineSteps) /\ SameLevels(ws, s)
  BY DEF PeeledTo
<1>2. /\ Append(s, x) \in Seq(SpineSteps)
      /\ NotListed(Append(s, x)) <=> NotListed(s) /\ x \notin {"Option", "Vec"}
      /\ ByteList(Append(s, x)) <=> x = "Vec"
      /\ VecCount(Append(s, x)) = IF x = "Vec" THEN VecCount(s) + 1 ELSE VecCount(s)
      /\ \A k : NullAt(Append(s, x), k) <=> NullAt(s, k) \/ (x = "Option" /\ k = VecCount(s))
  <2> HIDE DEF SpineSteps
  <2> QED BY <1>1, AppendedLast, StackGrown, Zenon
<1>3. ASSUME NEW y \in RawWrappers
      PROVE  /\ Append(ws, y) \in Seq(RawWrappers) /\ Append(ws, y) # <<>>
             /\ Append(ws, y)[1] = IF ws = <<>> THEN y ELSE ws[1]
             /\ ByteList(Append(ws, y)) <=> y = "Vec"
             /\ VecCount(Append(ws, y)) = IF y = "Vec" THEN VecCount(ws) + 1 ELSE VecCount(ws)
             /\ \A k : NullAt(Append(ws, y), k) <=> NullAt(ws, k) \/ (y = "Option" /\ k = VecCount(ws))
  <2> HIDE DEF RawWrappers
  <2>1. /\ Append(ws, y) \in Seq(RawWrappers) /\ Append(ws, y) # <<>>
        /\ ws # <<>> => Append(ws, y)[1] = ws[1]
        /\ ws = <<>> => Append(ws, y)[1] = y
        /\ ByteList(Append(ws, y)) <=> y = "Vec"
    <3>1. ws \in Seq(RawWrappers) /\ y \in RawWrappers
      BY <1>1, <1>3, Zenon
    <3> QED BY <3>1, AppendedLast
  <2>2. Append(ws, y)[1] = IF ws = <<>> THEN y ELSE ws[1]
    BY <2>1
  <2> QED BY <1>1, <1>3, <2>1, <2>2, StackGrown, Zenon
<1>4. CASE x \in {"Option", "Vec"}
  <2>1. x \in RawWrappers /\ kept = Append(ws, x)
    BY <1>4 DEF RawWrappers, AccessSteps
  <2>2. SameLevels(kept, Append(s, x))
    BY <1>1, <1>2, <1>3, <2>1 DEF SameLevels
  <2>3. kept # <<>> /\ kept[1] \in {"Option", "Vec"}
    BY <1>3, <1>4, <2>1 DEF PeeledTo
  <2> QED BY <1>2, <1>3, <1>4, <2>1, <2>2, <2>3 DEF PeeledTo
<1>5. CASE x \notin {"Option", "Vec"} /\ ws = <<>>
  <2>1. kept = ws /\ ~ByteList(ws)
    BY <1>5 DEF ByteList
  <2>2. SameLevels(kept, Append(s, x))
    BY <1>1, <1>2, <1>5, <2>1 DEF SameLevels
  <2> QED BY <1>1, <1>2, <1>5, <2>1, <2>2 DEF PeeledTo
<1>6. CASE x \notin {"Option", "Vec"} /\ ws # <<>>
  <2>1. "SmartPtr" \in RawWrappers /\ kept = Append(ws, "SmartPtr")
    BY <1>6 DEF RawWrappers, AccessSteps
  <2>2. SameLevels(kept, Append(s, x))
    BY <1>1, <1>2, <1>3, <1>6, <2>1 DEF SameLevels
  <2>3. kept # <<>> /\ kept[1] \in {"Option", "Vec"}
    BY <1>3, <1>6, <2>1 DEF PeeledTo
  <2> QED BY <1>2, <1>3, <1>6, <2>1, <2>2, <2>3 DEF PeeledTo
<1> QED BY <1>4, <1>5, <1>6

(* A list of bytes without its innermost Vec.                              *)
LEMMA WithoutLastVec ==
  ASSUME NEW S, NEW s \in Seq(S), ByteList(s)
  PROVE  /\ Front(s) \in Seq(S) /\ VecCount(s) = VecCount(Front(s)) + 1
         /\ \A k : NullAt(s, k) <=> NullAt(Front(s), k)
<1>1. s # <<>> /\ s[Len(s)] = "Vec"
  BY DEF ByteList, Last
<1>2. PICK t : t = Front(s)
  OBVIOUS
<1>3. t \in Seq(S) /\ s = Append(t, "Vec") /\ "Vec" \in S
  BY <1>1, <1>2, LastOfStart DEF Front
<1>4. /\ VecCount(Append(t, "Vec")) = VecCount(t) + 1
      /\ \A k : NullAt(Append(t, "Vec"), k) <=> NullAt(t, k)
  BY <1>3, StackGrown
<1> QED BY <1>2, <1>3, <1>4, Zenon

LEMMA PeeledBytes ==
  ASSUME NEW ws, NEW s, PeeledTo(ws, s), ByteList(s)
  PROVE  SameLevels(Front(ws), Front(s))
<1>1. ws \in Seq(RawWrappers) /\ s \in Seq(SpineSteps) /\ ByteList(ws) /\ SameLevels(ws, s)
  BY DEF PeeledTo
<1> HIDE DEF RawWrappers, SpineSteps
<1>2. /\ Front(ws) \in Seq(RawWrappers) /\ VecCount(ws) = VecCount(Front(ws)) + 1
      /\ \A k : NullAt(ws, k) <=> NullAt(Front(ws), k)
  BY <1>1, WithoutLastVec
<1>3. /\ Front(s) \in Seq(SpineSteps) /\ VecCount(s) = VecCount(Front(s)) + 1
      /\ \A k : NullAt(s, k) <=> NullAt(Front(s), k)
  BY <1>1, WithoutLastVec
<1>4. VecCount(Front(ws)) \in Nat /\ VecCount(Front(s)) \in Nat
  BY <1>2, <1>3, PlacesFinite
<1>5. VecCount(Front(ws)) = VecCount(Front(s))
  <2>1. VecCount(ws) = VecCount(s) /\ VecCount(ws) = VecCount(Front(ws)) + 1 /\ VecCount(s) = VecCount(Front(s)) + 1
    BY <1>1, <1>2, <1>3, Zenon DEF SameLevels
  <2>2. \A m, n \in Nat : m + 1 = n + 1 => m = n
    OBVIOUS
  <2>3. VecCount(Front(ws)) + 1 = VecCount(Front(s)) + 1
    BY <2>1, Zenon
  <2> QED BY <1>4, <2>2, <2>3, Zenon
<1>6. \A k : NullAt(Front(ws), k) <=> NullAt(Front(s), k)
  BY <1>1, <1>2, <1>3, Zenon DEF SameLevels
<1> QED BY <1>5, <1>6, Zenon DEF SameLevels

-----------------------------------------------------------------------------
(* Attributes: at most one is read, and the field goes by it.              *)

AttrOf(f)        == IF f.attrs = <<>> THEN NoAttr ELSE FieldAttr(f.attrs[1])
AttrsAccepted(f) == Len(f.attrs) <= 1 /\ \A i \in DOMAIN f.attrs : ItemRefused(f.attrs[i]) = "none"
NodesFit(ty)     == (\A p \in DOMAIN ty : NodeAccepted(ty, p)) /\ NestedTupleAccepted(ty)
TypeFits(f)      == NodesFit(f.ty) /\ ConversionAccepted(AttrOf(f).key, f.ty)

(* No argument is refused unless one of them is, of which the first is     *)
(* named.                                                                  *)
LEMMA ArgsTaken ==
  ASSUME NEW key, NEW args, DOMAIN args \subseteq Nat
  PROVE  FirstRefused(key, args) = "none" <=>
           \A i \in DOMAIN args : ArgRefused(key, args, i) = "none"
<1> DEFINE refused == {i \in DOMAIN args : ArgRefused(key, args, i) # "none"}
<1>1. FirstRefused(key, args) =
        IF refused = {} THEN "none" ELSE ArgRefused(key, args, Min(refused))
  BY DEF FirstRefused
<1>2. refused # {} => Min(refused) \in refused
  <2>1. refused # {} => \E x \in refused : \A y \in refused : x <= y
    BY LeastNatural
  <2> QED BY <2>1 DEF Min
<1> QED BY <1>1, <1>2

(* An argument that is taken: its name is known, its value fits, and it is *)
(* the first of that name.                                                 *)
LEMMA DecimalArgTaken ==
  ASSUME NEW args, NEW i
  PROVE  ArgRefused("decimal", args, i) = "none" <=>
           /\ args[i][1] \in {"precision", "scale"}
           /\ DecimalRange(args[i][1], args[i][2])
           /\ \A j \in DOMAIN args : j < i => args[j][1] # args[i][1]
<1> DEFINE first == {j \in Named(args, args[i][1]) : j < i}
           known == args[i][1] \in {"precision", "scale"}
           fits  == DecimalRange(args[i][1], args[i][2])
           same  == \A j \in first : args[j][2] = args[i][2]
<1>1. ArgRefused("decimal", args, i) =
        CASE ~known -> "unknown_argument"
          [] known /\ ~fits -> "argument_out_of_range"
          [] known /\ fits /\ first # {} ->
               IF same THEN "duplicate_argument" ELSE "different_arguments"
          [] OTHER -> "none"
  BY DEF ArgRefused
<1>2. first = {} <=> \A j \in DOMAIN args : j < i => args[j][1] # args[i][1]
  BY DEF Named
<1> HIDE DEF first, known, fits, same
<1>3. ArgRefused("decimal", args, i) = "none" <=> known /\ fits /\ first = {}
  BY <1>1
<1> QED BY <1>2, <1>3 DEF known, fits

LEMMA FlattenArgTaken ==
  ASSUME NEW args, NEW i
  PROVE  ArgRefused("flatten", args, i) = "none" <=>
           /\ args[i][1] = "prefix" /\ args[i][2] # ""
           /\ \A j \in DOMAIN args : j < i => args[j][1] # args[i][1]
<1> DEFINE first == {j \in Named(args, args[i][1]) : j < i}
           known == args[i][1] \in {"prefix"}
           fits  == args[i][2] # ""
           same  == \A j \in first : args[j][2] = args[i][2]
<1>1. ArgRefused("flatten", args, i) =
        CASE ~known -> "unknown_argument"
          [] known /\ ~fits -> "argument_out_of_range"
          [] known /\ fits /\ first # {} ->
               IF same THEN "duplicate_argument" ELSE "different_arguments"
          [] OTHER -> "none"
  BY DEF ArgRefused
<1>2. first = {} <=> \A j \in DOMAIN args : j < i => args[j][1] # args[i][1]
  BY DEF Named
<1> HIDE DEF first, known, fits, same
<1>3. ArgRefused("flatten", args, i) = "none" <=> known /\ fits /\ first = {}
  BY <1>1
<1> QED BY <1>2, <1>3 DEF known, fits

LEMMA MoreThanOne ==
  ASSUME NEW n \in Nat, n > 1
  PROVE  1 \in 1 .. n /\ 2 \in 1 .. n /\ n # 1 /\ n # 0 /\ 1 < 2
OBVIOUS

LEMMA OnlyTwo ==
  ASSUME NEW n \in Nat, NEW i \in 1 .. n, NEW j \in 1 .. n, i # j,
         \A k \in 1 .. n : k = i \/ k = j
  PROVE  n = 2 /\ ((i = 1 /\ j = 2) \/ (i = 2 /\ j = 1))
<1>1. n >= 2
  OBVIOUS
<1>2. (1 = i \/ 1 = j) /\ (2 = i \/ 2 = j)
  BY <1>1
<1>3. ~(n >= 3)
  BY <1>2
<1> QED BY <1>1, <1>2, <1>3

(* A decimal is refused unless it has a precision and a scale, once each,  *)
(* that go together.                                                       *)
LEMMA DecimalTaken ==
  ASSUME NEW item, item.key = "decimal", WellFormedArgs(item.key, item.args)
  PROVE  ItemRefused(item) = "none" <=> ItemAccepted(item)
<1> PICK args : args = item.args
  OBVIOUS
<1>1. /\ Len(args) \in Nat /\ DOMAIN args = 1 .. Len(args)
      /\ \A i \in DOMAIN args : args[i] = <<args[i][1], args[i][2]>> /\ args[i][2] \in Nat
  BY DEF WellFormedArgs
<1>2. ItemRefused(item) = DecimalRefused(args)
  BY DEF ItemRefused, FieldOverrideKeys
<1>3. ItemAccepted(item) <=>
        /\ Len(args) = 2
        /\ \E p \in 1 .. 38 : \E s \in 0 .. p :
             {args[1], args[2]} = {<<"precision", p>>, <<"scale", s>>}
  BY DEF ItemAccepted
<1> DEFINE taken == \A i \in DOMAIN args : ArgRefused("decimal", args, i) = "none"
           both  == Named(args, "precision") # {} /\ Named(args, "scale") # {}
           over  == ArgValue(args, "scale") > ArgValue(args, "precision")
<1>4. DecimalRefused(args) = "none" <=> taken /\ both /\ ~over
  <2>1. FirstRefused("decimal", args) = "none" <=> taken
    BY <1>1, ArgsTaken
  <2> DEFINE first == FirstRefused("decimal", args)
  <2>2. DecimalRefused(args) =
          CASE first # "none" -> first
            [] first = "none" /\ ~both -> "argument_missing"
            [] OTHER -> IF over THEN "scale_exceeds_precision" ELSE "none"
    BY DEF DecimalRefused
  <2> HIDE DEF first, both, over, taken
  <2>3. DecimalRefused(args) = "none" <=> first = "none" /\ both /\ ~over
    BY <2>2
  <2> QED BY <2>1, <2>3 DEF first
<1>5. ASSUME taken, both, ~over PROVE ItemAccepted(item)
  <2>1. PICK i \in DOMAIN args : args[i][1] = "precision"
    BY <1>5 DEF Named
  <2>2. PICK j \in DOMAIN args : args[j][1] = "scale"
    BY <1>5 DEF Named
  <2>3. \A k \in DOMAIN args : /\ args[k][1] \in {"precision", "scale"}
                               /\ DecimalRange(args[k][1], args[k][2])
                               /\ \A m \in DOMAIN args : m < k => args[m][1] # args[k][1]
    BY <1>5, DecimalArgTaken
  <2>4. \A k \in DOMAIN args : k = i \/ k = j
    BY <1>1, <2>1, <2>2, <2>3
  <2>5. i # j
    BY <2>1, <2>2
  <2>6. Len(args) = 2 /\ {args[1], args[2]} = {args[i], args[j]}
    <3> PICK n : n = Len(args)
      OBVIOUS
    <3>1. n \in Nat /\ i \in 1 .. n /\ j \in 1 .. n /\ \A k \in 1 .. n : k = i \/ k = j
      BY <1>1, <2>4
    <3>2. n = 2 /\ ((i = 1 /\ j = 2) \/ (i = 2 /\ j = 1))
      BY <2>5, <3>1, OnlyTwo, Zenon
    <3> QED BY <3>2
  <2>7. Named(args, "precision") = {i} /\ Named(args, "scale") = {j}
    BY <2>1, <2>2, <2>4 DEF Named
  <2>8. ArgValue(args, "precision") = args[i][2] /\ ArgValue(args, "scale") = args[j][2]
    BY <2>7 DEF ArgValue
  <2>9. args[i][2] \in 1 .. 38 /\ args[j][2] \in 0 .. args[i][2]
    BY <1>1, <1>5, <2>1, <2>3, <2>8 DEF DecimalRange, MaxPrecision
  <2>10. args[i] = <<"precision", args[i][2]>> /\ args[j] = <<"scale", args[j][2]>>
    BY <1>1, <2>1, <2>2
  <2> QED BY <1>3, <2>6, <2>9, <2>10
<1>6. ASSUME ItemAccepted(item) PROVE taken /\ both /\ ~over
  <2>0. Len(args) = 2
    BY <1>3, <1>6
  <2>1. DOMAIN args = {1, 2}
    BY <1>1, <2>0
  <2>2. PICK p \in 1 .. 38 : \E s \in 0 .. p :
               {args[1], args[2]} = {<<"precision", p>>, <<"scale", s>>}
    BY <1>3, <1>6
  <2>3. PICK s \in 0 .. p : {args[1], args[2]} = {<<"precision", p>>, <<"scale", s>>}
    BY <2>2
  <2>4. <<"precision", p>> # <<"scale", s>>
    OBVIOUS
  <2>5. \E i, j \in {1, 2} : i # j /\ args[i] = <<"precision", p>> /\ args[j] = <<"scale", s>>
    <3> PICK named, scaled : named = <<"precision", p>> /\ scaled = <<"scale", s>>
      OBVIOUS
    <3>1. named # scaled /\ {args[1], args[2]} = {named, scaled}
      BY <2>3, <2>4
    <3>2. (args[1] = named /\ args[2] = scaled) \/ (args[1] = scaled /\ args[2] = named)
      BY <3>1
    <3>3. CASE args[1] = named /\ args[2] = scaled
      BY <3>3
    <3>4. CASE args[1] = scaled /\ args[2] = named
      BY <3>4
    <3> QED BY <3>2, <3>3, <3>4
  <2>6. PICK i, j \in {1, 2} : i # j /\ args[i] = <<"precision", p>> /\ args[j] = <<"scale", s>>
    BY <2>5
  <2>7. /\ args[i][1] = "precision" /\ args[i][2] = p /\ args[j][1] = "scale" /\ args[j][2] = s
        /\ DOMAIN args = {i, j}
    BY <2>1, <2>6
  <2>8. Named(args, "precision") = {i} /\ Named(args, "scale") = {j}
    BY <2>7 DEF Named
  <2>9. ArgValue(args, "precision") = p /\ ArgValue(args, "scale") = s
    BY <2>7, <2>8 DEF ArgValue
  <2>10. DecimalRange("precision", p) /\ DecimalRange("scale", s)
    BY DEF DecimalRange, MaxPrecision
  <2>11. taken
    <3> SUFFICES ASSUME NEW k \in {i, j}
                 PROVE  /\ args[k][1] \in {"precision", "scale"}
                        /\ DecimalRange(args[k][1], args[k][2])
                        /\ \A m \in DOMAIN args : m < k => args[m][1] # args[k][1]
      BY <2>7, DecimalArgTaken
    <3> QED BY <2>6, <2>7, <2>10
  <2> QED BY <2>8, <2>9, <2>11
<1> QED BY <1>2, <1>4, <1>5, <1>6

(* A flatten has at most one argument, a prefix.                           *)
LEMMA FlattenTaken ==
  ASSUME NEW item, item.key = "flatten", WellFormedArgs(item.key, item.args)
  PROVE  ItemRefused(item) = "none" <=> ItemAccepted(item)
<1> PICK args : args = item.args
  OBVIOUS
<1> PICK n : n = Len(args)
  OBVIOUS
<1>1. n \in Nat /\ DOMAIN args = 1 .. n /\ (args = <<>> <=> n = 0)
  BY DEF WellFormedArgs
<1>2. ItemRefused(item) = FirstRefused("flatten", args)
  BY DEF ItemRefused, FieldOverrideKeys
<1>3. ItemAccepted(item) <=> (args # <<>> => n = 1 /\ args[1][1] = "prefix" /\ args[1][2] # "")
  BY DEF ItemAccepted
<1>4. FirstRefused("flatten", args) = "none" <=>
        \A i \in DOMAIN args :
          /\ args[i][1] = "prefix" /\ args[i][2] # ""
          /\ \A j \in DOMAIN args : j < i => args[j][1] # args[i][1]
  <2>1. DOMAIN args \subseteq Nat
    BY <1>1
  <2>2. FirstRefused("flatten", args) = "none" <=>
          \A i \in DOMAIN args : ArgRefused("flatten", args, i) = "none"
    BY <2>1, ArgsTaken, Zenon
  <2> QED BY <2>2, FlattenArgTaken, Zenon
<1>5. n = 0 \/ n = 1 \/ n > 1
  BY <1>1
<1>6. CASE n = 0
  <2>1. DOMAIN args = {}
    BY <1>1, <1>6
  <2> QED BY <1>1, <1>2, <1>3, <1>4, <1>6, <2>1, Zenon
<1>7. CASE n = 1
  <2>1. DOMAIN args = {1} /\ n # 0 /\ ~(1 < 1)
    BY <1>1, <1>7
  <2> QED BY <1>1, <1>2, <1>3, <1>4, <1>7, <2>1, Zenon
<1>8. CASE n > 1
  <2>1. n \in Nat
    BY <1>1
  <2>2. 1 \in 1 .. n /\ 2 \in 1 .. n /\ n # 1 /\ n # 0 /\ 1 < 2
    BY <1>8, <2>1, MoreThanOne, Zenon
  <2>3. 1 \in DOMAIN args /\ 2 \in DOMAIN args
    BY <1>1, <2>2, Zenon
  <2>4. ~ItemAccepted(item)
    BY <1>1, <1>3, <2>2, Zenon
  <2>5. FirstRefused("flatten", args) # "none"
    <3>1. \/ ~(args[1][1] = "prefix" /\ args[2][1] = "prefix")
          \/ args[1][1] = args[2][1]
      OBVIOUS
    <3> QED BY <1>4, <2>2, <2>3, <3>1, Zenon
  <2> QED BY <1>2, <2>4, <2>5, Zenon
<1> QED BY <1>5, <1>6, <1>7, <1>8, Zenon

(* What the parser refuses of one attribute item is what the promise does  *)
(* not accept.                                                             *)
LEMMA ItemAcceptedAs ==
  ASSUME NEW item, WellFormedArgs(item.key, item.args)
  PROVE  ItemRefused(item) = "none" <=> ItemAccepted(item)
<1>1. CASE item.key = "time_unit"
  <2>1. /\ Len(item.args) = 1 /\ DOMAIN item.args = {1} /\ item.args[1][1] = "unit"
        /\ item.args[1] = <<item.args[1][1], item.args[1][2]>>
        /\ item.args = <<item.args[1]>>
    BY <1>1 DEF WellFormedArgs
  <2>2. Named(item.args, "unit") = {1}
    BY <2>1 DEF Named
  <2>3. ArgValue(item.args, "unit") = item.args[1][2]
    BY <2>2 DEF ArgValue
  <2>4. ItemRefused(item) = "none" <=> item.args[1][2] \in TimeUnits
    BY <1>1, <2>3 DEF ItemRefused, FieldOverrideKeys
  <2>5. ItemAccepted(item) <=> \E u \in {"ms", "us", "ns"} : item.args = <<<<"unit", u>>>>
    BY <1>1 DEF ItemAccepted
  <2>6. ASSUME NEW u PROVE item.args = <<<<"unit", u>>>> <=> item.args[1][2] = u
    BY <2>1
  <2> QED BY <2>4, <2>5, <2>6 DEF TimeUnits
<1>2. CASE item.key \notin {"decimal", "time_unit", "flatten"}
  BY <1>2 DEF ItemRefused, ItemAccepted, FieldOverrideKeys
<1> QED BY <1>1, <1>2, DecimalTaken, FlattenTaken

LEMMA AcceptedAs ==
  ASSUME NEW f, WellFormedField(f)
  PROVE  FieldAccepted(f) <=> AttrsAccepted(f) /\ (AttrOf(f).key = "skip" \/ TypeFits(f))
<1>1. AttrsAccepted(f) <=> Len(f.attrs) <= 1 /\ \A i \in DOMAIN f.attrs : ItemAccepted(f.attrs[i])
  BY ItemAcceptedAs DEF AttrsAccepted, WellFormedField
<1> QED BY <1>1 DEF FieldAccepted, AttrOf, TypeFits, NodesFit

AttrsRead ==
  \/ items = field.attrs /\ override = NoAttr
  \/ /\ field.attrs # <<>> /\ items = Tail(field.attrs)
     /\ override = AttrOf(field) /\ ItemRefused(field.attrs[1]) = "none"
AttrInv ==
  /\ phase = "attributes" => AttrsRead /\ peeled = NothingPeeled
  /\ phase \in {"analyze", "lower", "lowered", "skipped"} =>
       AttrsAccepted(field) /\ override = AttrOf(field)
  /\ phase \in {"analyze", "lower", "lowered"} => override.key # "skip"
  /\ phase = "skipped" => override.key = "skip"

LEMMA AttrsWritten ==
  ASSUME NEW f, WellFormedField(f), f.attrs # <<>>
  PROVE  /\ Head(f.attrs) = f.attrs[1] /\ 1 \in DOMAIN f.attrs
         /\ Tail(f.attrs) = <<>> <=> Len(f.attrs) <= 1
         /\ Tail(f.attrs) = <<>> => DOMAIN f.attrs = {1}
<1>1. PICK S : f.attrs \in Seq(S)
  BY DEF WellFormedField
<1> QED BY <1>1, HeadAndTail, Zenon

LEMMA KnownItem ==
  ASSUME NEW item, ItemRefused(item) = "none"
  PROVE  item.key \in FieldOverrideKeys /\ FieldAttr(item).key = item.key /\ FieldAttr(item) # NoAttr
<1>1. item.key \notin FieldOverrideKeys => ItemRefused(item) = "unknown_key"
  BY DEF ItemRefused, FieldOverrideKeys
<1>2. FieldAttr(item).key = item.key
  BY DEF FieldAttr
<1>3. NoAttr.key = "none" /\ "none" \notin FieldOverrideKeys
  BY DEF NoAttr, FieldOverrideKeys
<1> QED BY <1>1, <1>2, <1>3

(* A second attribute is always refused.                                   *)
LEMMA SecondRefused ==
  ASSUME NEW existing, existing # NoAttr, NEW incoming
  PROVE  SetOverrideRefused(existing, incoming) # "none"
<1>1. SetOverrideRefused(existing, incoming) \in
        {DuplicateMessage(existing, incoming), ConflictMessage(existing, incoming)}
  BY Zenon DEF SetOverrideRefused
<1>2. DuplicateMessage(existing, incoming) \in {"different_values", "duplicate"}
  BY Zenon DEF DuplicateMessage
<1>3. ConflictMessage(existing, incoming) \in
        {"as_str_and_as_string", "decimal_and_text", "time_unit_and_text", "decimal_and_time_unit",
         "skip_and_any", "flatten_and_any", "as_binary_and_override", "incompatible"}
  BY Zenon DEF ConflictMessage
<1> QED BY <1>1, <1>2, <1>3

LEMMA ItemTaken ==
  ASSUME WellFormedField(field), AttrInv, ReadItem
  PROVE  AttrInv'
<1>1. /\ phase = "attributes" /\ phase' = phase /\ field' = field /\ peeled' = peeled
      /\ items # <<>> /\ items' = Tail(items) /\ override' = FieldAttr(Head(items))
      /\ ItemError(Head(items)) = "none"
  BY DEF ReadItem, analysis
<1>2. ItemRefused(Head(items)) = "none" /\ SetOverrideRefused(override, FieldAttr(Head(items))) = "none"
  BY <1>1 DEF ItemError
<1>3. override = NoAttr
  BY <1>2, SecondRefused
<1>4. items = field.attrs
  <2>1. ItemRefused(field.attrs[1]) = "none" /\ field.attrs # <<>> => AttrOf(field) # NoAttr
    BY KnownItem DEF AttrOf
  <2> QED BY <1>1, <1>3, <2>1 DEF AttrInv, AttrsRead
<1>5. Head(items) = field.attrs[1]
  BY <1>1, <1>4, AttrsWritten
<1>6. AttrsRead'
  BY <1>1, <1>2, <1>4, <1>5 DEF AttrsRead, AttrOf
<1> QED BY <1>1, <1>6 DEF AttrInv

LEMMA ItemRefusedRightly ==
  ASSUME WellFormedField(field), AttrInv, RefuseItem
  PROVE  ~FieldAccepted(field)
<1>1. phase = "attributes" /\ items # <<>> /\ ItemError(Head(items)) # "none"
  BY DEF RefuseItem
<1>2. CASE items = field.attrs /\ override = NoAttr
  <2>1. SetOverrideRefused(override, FieldAttr(Head(items))) = "none"
    BY <1>2 DEF SetOverrideRefused
  <2>2. ItemRefused(field.attrs[1]) # "none" /\ 1 \in DOMAIN field.attrs
    BY <1>1, <1>2, <2>1, AttrsWritten DEF ItemError
  <2> QED BY <2>2, AcceptedAs DEF AttrsAccepted
<1>3. CASE field.attrs # <<>> /\ items = Tail(field.attrs)
  <2>1. ~(Len(field.attrs) <= 1)
    BY <1>1, <1>3, AttrsWritten
  <2> QED BY <2>1, AcceptedAs DEF AttrsAccepted
<1> QED BY <1>1, <1>2, <1>3 DEF AttrInv, AttrsRead

LEMMA AttrsSettled ==
  ASSUME WellFormedField(field), AttrInv, phase = "attributes", items = <<>>
  PROVE  AttrsAccepted(field) /\ override = AttrOf(field)
<1>1. CASE field.attrs = <<>>
  <2>1. Len(field.attrs) = 0 /\ DOMAIN field.attrs = {}
    BY <1>1
  <2>2. override = NoAttr
    BY <1>1 DEF AttrInv, AttrsRead
  <2> QED BY <1>1, <2>1, <2>2 DEF AttrsAccepted, AttrOf
<1>2. CASE field.attrs # <<>>
  <2>1. /\ Tail(field.attrs) = <<>> /\ override = AttrOf(field)
        /\ ItemRefused(field.attrs[1]) = "none"
    BY <1>2 DEF AttrInv, AttrsRead
  <2> QED BY <1>2, <2>1, AttrsWritten DEF AttrsAccepted
<1> QED BY <1>1, <1>2

-----------------------------------------------------------------------------
(* Analysis: what a node is analysed as, and what has been found out about *)
(* the current one once the wrappers s of its spine are peeled.            *)

NodeSeen(ty, p) ==
  /\ \A i \in DOMAIN ty[p].spine : ty[p].spine[i] # "MutRef"
  /\ ty[p].base \notin Refused
  /\ ty[p].base \in Unsized => KeptBy(ty[p]) \in {"Ref", "Cow"}
  /\ ty[p].base = "Tuple" => Elements(ty, p) # {}
AnalyzedAs(node) ==
  IF node.base \in Unsized THEN Borrowed[KeptBy(node)][node.base] ELSE node.base
Peelable(node) == IF node.base \in Unsized THEN Front(node.spine) ELSE node.spine
AnalyzedFrom(ty, p, node) ==
  NodeSeen(ty, p) /\ node.base = AnalyzedAs(ty[p]) /\ PeeledTo(node.wrappers, Peelable(ty[p]))

PeeledSoFar(node, s, left, kept) ==
  /\ left \in Seq(SpineSteps) /\ node.spine = s \o left
  /\ PeeledTo(kept, s)
  /\ \A i \in DOMAIN s : s[i] # "MutRef"
  /\ node.base \in Unsized /\ left = <<>> /\ s # <<>> => Last(s) \notin {"Ref", "Cow"}
AnalyzeInv ==
  /\ phase \in {"analyze", "lower", "lowered"} =>
       \A p \in DOMAIN analyzed : AnalyzedFrom(field.ty, p, analyzed[p])
  /\ phase = "analyze" /\ work # <<>> => 
       \E s : PeeledSoFar(field.ty[Current], s, rest, peeled.wrappers)

LEMMA NodeAcceptedAs ==
  ASSUME NEW ty, NEW p
  PROVE  NodeAccepted(ty, p) <=> NodeSeen(ty, p) /\ ty[p].base # "Self"
<1>1. "MutRef" \notin {ty[p].spine[i] : i \in DOMAIN ty[p].spine}
        <=> \A i \in DOMAIN ty[p].spine : ty[p].spine[i] # "MutRef"
  OBVIOUS
<1> QED BY <1>1 DEF NodeAccepted, NodeSeen

LEMMA CurrentWritten ==
  ASSUME FieldInv, phase = "analyze", work # <<>>
  PROVE  /\ WellFormedField(field) /\ Current \in DOMAIN field.ty
         /\ field.ty[Current].spine \in Seq(SpineSteps) /\ field.ty[Current].base \in TypeBases
<1>1. WellFormedField(field)
  BY FieldWritten DEF FieldInv
<1>2. Current \in DOMAIN field.ty
  BY <1>1, ClosedStep DEF FieldInv, Visiting, Current
<1> QED BY <1>1, <1>2 DEF WellFormedField

(* A node is begun with all of its wrappers left.                          *)
LEMMA NodeBegun ==
  ASSUME NEW node, node.spine \in Seq(SpineSteps)
  PROVE  PeeledSoFar(node, <<>>, node.spine, NothingPeeled.wrappers)
<1>1. <<>> \o node.spine = node.spine
  OBVIOUS
<1>2. PeeledTo(<<>>, <<>>) /\ NothingPeeled.wrappers = <<>>
  BY PeelStart DEF NothingPeeled
<1> QED BY <1>1, <1>2 DEF PeeledSoFar

LEMMA PeeledOn ==
  ASSUME FieldInv, AnalyzeInv, PeelWrapper
  PROVE  AnalyzeInv'
<1>1. /\ phase = "analyze" /\ work # <<>> /\ rest # <<>> /\ ~KeptAsBase /\ Head(rest) # "MutRef"
      /\ rest' = Tail(rest) /\ UNCHANGED <<field, phase, work, analyzed>>
  BY DEF PeelWrapper, Peeling
<1>2. PICK s : PeeledSoFar(field.ty[Current], s, rest, peeled.wrappers)
  BY <1>1 DEF AnalyzeInv
<1> DEFINE node == field.ty[Current]
           x    == Head(rest)
           t    == Append(s, x)
<1>3. rest \in Seq(SpineSteps) /\ s \in Seq(SpineSteps) /\ node.spine = s \o rest
  BY <1>2 DEF PeeledSoFar, PeeledTo
<1>4. /\ x \in SpineSteps /\ rest' \in Seq(SpineSteps) /\ t \in Seq(SpineSteps)
      /\ node.spine = t \o rest' /\ (Len(rest) = 1 <=> rest' = <<>>)
  <2> HIDE DEF SpineSteps
  <2> QED BY <1>1, <1>3, ConcatMove
<1>5. /\ t # <<>> /\ Last(t) = x
      /\ \A i \in DOMAIN t : t[i] # "MutRef"
  <2>1. t # <<>> /\ Last(t) = x
    <3> HIDE DEF SpineSteps
    <3> QED BY <1>3, <1>4, AppendedLast
  <2>2. \A i \in DOMAIN s : s[i] # "MutRef"
    BY <1>2 DEF PeeledSoFar
  <2>3. \A i \in DOMAIN t : (i \in DOMAIN s /\ t[i] = s[i]) \/ t[i] = x
    <3> HIDE DEF SpineSteps
    <3> QED BY <1>3, <1>4
  <2> QED BY <1>1, <2>1, <2>2, <2>3
<1>6. peeled'.wrappers = IF x \in {"Option", "Vec"} THEN Append(peeled.wrappers, x)
                         ELSE IF peeled.wrappers = <<>> THEN peeled.wrappers
                         ELSE Append(peeled.wrappers, "SmartPtr")
  <2>1. peeled = [wrappers |-> peeled.wrappers, outer |-> peeled.outer]
    BY DEF FieldInv, Typed
  <2>2. CASE x \in {"Option", "Vec"}
    <3>1. peeled' = [peeled EXCEPT !.wrappers = Append(@, x)]
      BY <2>2 DEF PeelWrapper
    <3> QED BY <2>1, <2>2, <3>1
  <2>3. CASE x \notin {"Option", "Vec"} /\ peeled.wrappers = <<>>
    <3>1. peeled' = [peeled EXCEPT !.outer = @ + 1]
      BY <2>3 DEF PeelWrapper
    <3> QED BY <2>1, <2>3, <3>1
  <2>4. CASE x \notin {"Option", "Vec"} /\ peeled.wrappers # <<>>
    <3>1. peeled' = [peeled EXCEPT !.wrappers = Append(@, "SmartPtr")]
      BY <2>4 DEF PeelWrapper
    <3> QED BY <2>1, <2>4, <3>1
  <2> QED BY <2>2, <2>3, <2>4
<1>7. PeeledTo(peeled'.wrappers, t)
  BY <1>2, <1>4, <1>6, PeelStep DEF PeeledSoFar
<1>8. node.base \in Unsized /\ rest' = <<>> => Last(t) \notin {"Ref", "Cow"}
  BY <1>1, <1>4, <1>5 DEF KeptAsBase
<1> HIDE DEF t
<1>9. PeeledSoFar(node, t, rest', peeled'.wrappers)
  BY <1>4, <1>5, <1>7, <1>8 DEF PeeledSoFar
<1> QED BY <1>1, <1>9 DEF AnalyzeInv, Current

LEMMA BaseSettled ==
  ASSUME FieldInv, AnalyzeInv, AtBase
  PROVE  /\ BaseError = "none" <=> NodeSeen(field.ty, Current)
         /\ BaseError = "none" => BaseOf = AnalyzedAs(field.ty[Current])
                                  /\ PeeledTo(peeled.wrappers, Peelable(field.ty[Current]))
<1> DEFINE node == field.ty[Current]
           base == node.base
<1>1. phase = "analyze" /\ work # <<>> /\ (rest = <<>> \/ KeptAsBase)
  BY DEF AtBase
<1>2. PICK s : PeeledSoFar(node, s, rest, peeled.wrappers)
  BY <1>1 DEF AnalyzeInv
<1>3. rest \in Seq(SpineSteps) /\ s \in Seq(SpineSteps) /\ node.spine = s \o rest /\ base \in TypeBases
  BY <1>1, <1>2, CurrentWritten DEF PeeledSoFar, PeeledTo
<1>4. \A i \in DOMAIN s : s[i] # "MutRef"
  BY <1>2 DEF PeeledSoFar
<1> HIDE DEF node
<1>5. CASE rest = <<>>
  <2>1. node.spine = s
    <3> HIDE DEF SpineSteps
    <3>1. s \o <<>> = s
      BY <1>3
    <3> QED BY <1>3, <1>5, <3>1
  <2>2. BaseError = "none" <=> /\ base \notin Unsized \union Refused
                               /\ ~(base = "Tuple" /\ Elements(field.ty, Current) = {})
    <3>1. BaseError = CASE base \in Unsized \union Refused -> base
                        [] base = "Tuple" /\ Elements(field.ty, Current) = {} -> "unit"
                        [] OTHER -> "none"
      BY <1>5 DEF BaseError, node
    <3>2. "none" \notin Unsized \union Refused /\ "Tuple" \notin Unsized \union Refused
      BY DEF Unsized, Refused
    <3>3. CASE base \in Unsized \union Refused
      <4>1. BaseError = base
        BY <3>1, <3>2, <3>3
      <4> QED BY <3>2, <3>3, <4>1
    <3>4. CASE base \notin Unsized \union Refused
      BY <3>1, <3>4
    <3> QED BY <3>3, <3>4
  <2>3. base \in Unsized => KeptBy(node) \notin {"Ref", "Cow"}
    BY <1>2, <1>5, <2>1 DEF PeeledSoFar, KeptBy
  <2>4. BaseError = "none" <=> NodeSeen(field.ty, Current)
    BY <1>4, <2>1, <2>2, <2>3 DEF NodeSeen, node
  <2>5. base \notin Unsized => BaseOf = base
    BY <1>5 DEF BaseOf, node
  <2> QED BY <1>2, <2>1, <2>2, <2>4, <2>5 DEF PeeledSoFar, AnalyzedAs, Peelable, node
<1>6. CASE rest # <<>>
  <2>1. Len(rest) = 1 /\ Head(rest) \in {"Cow", "Ref"} /\ base \in Unsized
    BY <1>1, <1>6 DEF KeptAsBase, node
  <2>2. Head(rest) \in SpineSteps /\ node.spine = Append(s, Head(rest))
    <3> HIDE DEF SpineSteps
    <3> QED BY <1>3, <1>6, <2>1, ConcatMove
  <2>3. node.spine # <<>> /\ Last(node.spine) = Head(rest) /\ Front(node.spine) = s
    <3> HIDE DEF SpineSteps
    <3> QED BY <1>3, <2>2, AppendedLast
  <2>4. \A i \in DOMAIN node.spine : node.spine[i] # "MutRef"
    <3>1. \A i \in DOMAIN Append(s, Head(rest)) :
            (i \in DOMAIN s /\ Append(s, Head(rest))[i] = s[i]) \/ Append(s, Head(rest))[i] = Head(rest)
      <4> HIDE DEF SpineSteps
      <4> QED BY <1>3, <2>2
    <3> QED BY <1>4, <2>1, <2>2, <3>1
  <2>5. KeptBy(node) = Head(rest)
    BY <2>1, <2>3 DEF KeptBy
  <2>6. base \notin Refused /\ base # "Tuple"
    BY <2>1 DEF Unsized, Refused
  <2>7. NodeSeen(field.ty, Current)
    BY <2>1, <2>4, <2>5, <2>6 DEF NodeSeen, node
  <2>8. BaseError = "none"
    BY <1>6 DEF BaseError
  <2>9. BaseOf = Borrowed[Head(rest)][base]
    BY <1>6 DEF BaseOf, node
  <2>10. AnalyzedAs(node) = Borrowed[Head(rest)][base] /\ Peelable(node) = s
    BY <2>1, <2>3, <2>5 DEF AnalyzedAs, Peelable
  <2>11. PeeledTo(peeled.wrappers, s)
    BY <1>2 DEF PeeledSoFar
  <2> QED BY <2>7, <2>8, <2>9, <2>10, <2>11 DEF node
<1> QED BY <1>5, <1>6

LEMMA BaseGiven ==
  ASSUME FieldInv, AnalyzeInv, AnalyzeBase, FieldInv'
  PROVE  AnalyzeInv'
<1>1. /\ phase = "analyze" /\ work # <<>> /\ AtBase /\ BaseError = "none"
      /\ rest' = IF work' = <<>> THEN <<>> ELSE field.ty[Head(work')].spine
      /\ peeled' = NothingPeeled
      /\ UNCHANGED <<field, phase>>
  BY DEF AnalyzeBase, AtBase
<1>2. analyzed' = [p \in DOMAIN analyzed \union {Current} |->
                     IF p = Current
                     THEN [base |-> BaseOf, wrappers |-> peeled.wrappers, outer |-> peeled.outer]
                     ELSE analyzed[p]]
  BY DEF AnalyzeBase
<1>3. ASSUME NEW p \in DOMAIN analyzed' PROVE AnalyzedFrom(field.ty, p, analyzed'[p])
  <2>1. CASE p = Current
    <3>1. analyzed'[p].base = BaseOf /\ analyzed'[p].wrappers = peeled.wrappers
      BY <1>2, <2>1
    <3> QED BY <1>1, <2>1, <3>1, BaseSettled DEF AnalyzedFrom
  <2>2. CASE p # Current
    <3>1. p \in DOMAIN analyzed /\ analyzed'[p] = analyzed[p]
      BY <1>2, <2>2
    <3> QED BY <1>1, <3>1 DEF AnalyzeInv
  <2> QED BY <2>1, <2>2
<1>4. ASSUME work' # <<>>
      PROVE  PeeledSoFar(field.ty[Head(work')], <<>>, rest', peeled'.wrappers)
  <2>1. WellFormedField(field) /\ phase' = "analyze"
    BY <1>1, CurrentWritten
  <2>2. Closed(field.ty, DOMAIN analyzed', work')
    BY <1>1, <2>1 DEF FieldInv, Visiting
  <2>3. Head(work') \in DOMAIN field.ty
    BY <1>4, <2>1, <2>2, ClosedStep
  <2>4. field.ty[Head(work')].spine \in Seq(SpineSteps)
    BY <2>1, <2>3 DEF WellFormedField
  <2> QED BY <1>1, <1>4, <2>4, NodeBegun
<1> QED BY <1>1, <1>3, <1>4 DEF AnalyzeInv, Current

-----------------------------------------------------------------------------
(* The levels of a stack: its Vecs are counted, and the levels with an     *)
(* Option collected.                                                       *)

Levels(s)  == {k \in 0 .. VecCount(s) : NullAt(s, k)}
ShapedBy(shape, s)   == Nested(shape, VecCount(s), Levels(s))
ShapedSoFar(loop, s) == NestedSoFar(loop, VecCount(s), Levels(s))

LEMMA LevelsOf ==
  ASSUME NEW S, NEW s \in Seq(S)
  PROVE  /\ VecCount(s) \in Nat /\ Levels(s) \in SUBSET (0 .. VecCount(s))
         /\ \A k : k \in Levels(s) <=> NullAt(s, k)
<1>1. VecCount(s) \in Nat
  BY PlacesFinite
<1>2. ASSUME NEW k, NullAt(s, k) PROVE k \in 0 .. VecCount(s)
  <2>1. k \in Nat /\ k <= VecCount(s)
    BY <1>2, NullAtDeep
  <2> QED BY <1>1, <2>1
<1> QED BY <1>1, <1>2 DEF Levels

LEMMA LevelsGrown ==
  ASSUME NEW S, NEW s \in Seq(S), NEW x \in S
  PROVE  Levels(Append(s, x)) = IF x = "Option" THEN Levels(s) \union {VecCount(s)} ELSE Levels(s)
<1>1. \A k : k \in Levels(s) <=> NullAt(s, k)
  BY LevelsOf
<1>2. \A k : k \in Levels(Append(s, x)) <=> NullAt(Append(s, x), k)
  <2>1. Append(s, x) \in Seq(S)
    OBVIOUS
  <2> QED BY <2>1, LevelsOf
<1>3. \A k : NullAt(Append(s, x), k) <=> NullAt(s, k) \/ (x = "Option" /\ k = VecCount(s))
  BY StackGrown
<1> QED BY <1>1, <1>2, <1>3

LEMMA LevelsSame ==
  ASSUME NEW S, NEW s \in Seq(S), NEW T, NEW t \in Seq(T), SameLevels(s, t)
  PROVE  VecCount(s) = VecCount(t) /\ Levels(s) = Levels(t)
<1>1. VecCount(s) = VecCount(t) /\ \A k : NullAt(s, k) <=> NullAt(t, k)
  BY Zenon DEF SameLevels
<1>2. /\ \A k : k \in Levels(s) <=> NullAt(s, k)
      /\ \A k : k \in Levels(t) <=> NullAt(t, k)
  BY LevelsOf
<1> QED BY <1>1, <1>2

(* A stack without Option and Vec has neither a list nor a null.           *)
LEMMA NothingListed ==
  ASSUME NEW S, NEW s \in Seq(S)
  PROVE  NotListed(s) <=> VecCount(s) = 0 /\ ~NullAt(s, 0)
<1>1. IsFiniteSet(Places(s, "Vec"))
  BY PlacesFinite
<1>2. VecCount(s) = 0 <=> Places(s, "Vec") = {}
  BY <1>1, FS_EmptySet DEF VecCount
<1>3. ASSUME Places(s, "Vec") = {} PROVE NullAt(s, 0) <=> Places(s, "Option") # {}
  <2>1. \A i : Above(s, i) = {}
    BY <1>3 DEF Above
  <2>2. \A i : Cardinality(Above(s, i)) = 0
    BY <2>1, FS_EmptySet
  <2> QED BY <2>2 DEF NullAt
<1>4. NotListed(s) <=> Places(s, "Vec") = {} /\ Places(s, "Option") = {}
  BY DEF NotListed, Places
<1> QED BY <1>2, <1>3, <1>4

(* One wrapper is normalised.                                              *)
LEMMA ShapedStart == ShapedSoFar(NormalStart, <<>>)
<1>1. VecCount(<<>>) = 0 /\ Levels(<<>>) = {}
  BY StackEmpty DEF Levels
<1> QED BY <1>1, NestedStart DEF ShapedSoFar

LEMMA ShapedStep ==
  ASSUME NEW loop, GoodNorm(loop), NEW t \in Seq(RawWrappers), ShapedSoFar(loop, t),
         NEW x \in RawWrappers
  PROVE  ShapedSoFar(NormalStep(loop, x), Append(t, x))
<1> DEFINE d == VecCount(t)
           N == Levels(t)
<1>1. d \in Nat /\ N \in SUBSET (0 .. d)
  BY LevelsOf
<1>2. NestedSoFar(loop, d, N)
  BY DEF ShapedSoFar
<1>3. /\ VecCount(Append(t, x)) = IF x = "Vec" THEN d + 1 ELSE d
      /\ Levels(Append(t, x)) = IF x = "Option" THEN N \union {d} ELSE N
  <2> HIDE DEF RawWrappers
  <2> QED BY StackGrown, LevelsGrown
<1> HIDE DEF d, N
<1>4. /\ x = "Vec"    => NestedSoFar(NormalStep(loop, x), d + 1, N)
      /\ x = "Option" => NestedSoFar(NormalStep(loop, x), d, N \union {d})
      /\ x \notin {"Vec", "Option"} => NestedSoFar(NormalStep(loop, x), d, N)
  <2> HIDE DEF RawWrappers
  <2> QED BY <1>1, <1>2, NestedStep, Zenon
<1>5. NestedSoFar(NormalStep(loop, x), VecCount(Append(t, x)), Levels(Append(t, x)))
  <2>1. CASE x = "Vec"
    BY <1>3, <1>4, <2>1
  <2>2. CASE x = "Option"
    BY <1>3, <1>4, <2>2
  <2>3. CASE x \notin {"Vec", "Option"}
    BY <1>3, <1>4, <2>3
  <2> QED BY <2>1, <2>2, <2>3
<1> QED BY <1>5 DEF ShapedSoFar

LEMMA ShapedEnd ==
  ASSUME NEW loop, GoodNorm(loop), NEW t \in Seq(RawWrappers), ShapedSoFar(loop, t)
  PROVE  ShapedBy(NormalEnd(loop), t) /\ (NormalEnd(loop) = Bare <=> NotListed(t))
<1>1. VecCount(t) \in Nat /\ NestedSoFar(loop, VecCount(t), Levels(t))
  BY LevelsOf DEF ShapedSoFar
<1>2. /\ Nested(NormalEnd(loop), VecCount(t), Levels(t))
      /\ NormalEnd(loop) = Bare <=> VecCount(t) = 0 /\ 0 \notin Levels(t)
  BY <1>1, NestedEnd, Zenon
<1>3. NotListed(t) <=> VecCount(t) = 0 /\ 0 \notin Levels(t)
  BY LevelsOf, NothingListed
<1> QED BY <1>2, <1>3 DEF ShapedBy

-----------------------------------------------------------------------------
(* What the sets of analysed bases say of the bases they come from.        *)

LEMMA AnalyzedBase ==
  ASSUME NEW node, node.base \in TypeBases \ Refused,
         node.base \in Unsized => KeptBy(node) \in {"Ref", "Cow"},
         NEW b, b = node.base, NEW a, a = AnalyzedAs(node)
  PROVE  /\ a \in AnalyzedBases
         /\ \A plain \in {"Tuple", "Self", "u8"} : a = plain <=> b = plain
         /\ a \in {"BorrowedBytes", "CowBytes"} <=> b = "bytes"
         /\ a \in {"BorrowedSlice", "CowSlice"} <=> b = "slice"
         /\ a \in RowTypes <=> b \in RowTypes
         /\ a \in TextBases <=> b \in RowTypes \union {"String", "str"}
         /\ a = "Decimal" <=> b = "Decimal"
         /\ a = "StdDuration" <=> b = "StdDuration"
         /\ a \in TimedBases <=> b \in TimedBases
<1>1. CASE b \in Unsized
  <2>1. a = Borrowed[KeptBy(node)][b] /\ KeptBy(node) \in {"Ref", "Cow"}
    BY <1>1 DEF AnalyzedAs
  <2>2. \/ b = "str" /\ a \in {"BorrowedStr", "CowStr"}
        \/ b = "bytes" /\ a \in {"BorrowedBytes", "CowBytes"}
        \/ b = "slice" /\ a \in {"BorrowedSlice", "CowSlice"}
    BY <1>1, <2>1 DEF Unsized, Borrowed
  <2>3. /\ BorrowedBases = {"BorrowedStr", "CowStr", "BorrowedBytes", "CowBytes", "BorrowedSlice", "CowSlice"}
        /\ AnalyzedBases = SizedBases \union BorrowedBases
    <3>1. BorrowedBases = {Borrowed[k][u] : k \in {"Ref", "Cow"}, u \in {"str", "bytes", "slice"}}
      BY DEF BorrowedBases, Unsized
    <3>2. /\ Borrowed["Ref"]["str"] = "BorrowedStr" /\ Borrowed["Cow"]["str"] = "CowStr"
          /\ Borrowed["Ref"]["bytes"] = "BorrowedBytes" /\ Borrowed["Cow"]["bytes"] = "CowBytes"
          /\ Borrowed["Ref"]["slice"] = "BorrowedSlice" /\ Borrowed["Cow"]["slice"] = "CowSlice"
      BY DEF Borrowed
    <3> QED BY <3>1, <3>2 DEF AnalyzedBases
  <2>4. a \in AnalyzedBases
    BY <2>2, <2>3
  <2> QED BY <2>2, <2>4 DEF RowTypes, TextBases, TimedBases
<1>2. CASE b \notin Unsized
  <2>1. a = b /\ b \in SizedBases
    BY <1>2 DEF AnalyzedAs, TypeBases
  <2>2. a \in AnalyzedBases
    BY <2>1 DEF AnalyzedBases
  <2> QED BY <2>1, <2>2 DEF SizedBases, RowTypes, TextBases, TimedBases
<1> QED BY <1>1, <1>2

LEMMA AnalyzedSets ==
  ASSUME NEW node, node.base \in TypeBases \ Refused,
         node.base \in Unsized => KeptBy(node) \in {"Ref", "Cow"},
         NEW b, b = node.base, NEW a, a = AnalyzedAs(node)
  PROVE  /\ a \in PlainBases <=> b \notin Bytes
         /\ a \in ShownBases <=> b \notin Bytes \union {"Tuple", "StdDuration"}
         /\ a \in RowTypes \union {"Decimal"} <=> b \in RowTypes \union {"Decimal"}
         /\ a \in TextBases \union (SizedBases \ {"Tuple", "u8"}) <=>
              b \notin {"Tuple", "u8", "bytes", "slice"}
<1>1. /\ a \in AnalyzedBases
      /\ \A plain \in {"Tuple", "Self", "u8"} : a = plain <=> b = plain
      /\ a \in {"BorrowedBytes", "CowBytes"} <=> b = "bytes"
      /\ a \in {"BorrowedSlice", "CowSlice"} <=> b = "slice"
      /\ a \in RowTypes <=> b \in RowTypes
      /\ a \in TextBases <=> b \in RowTypes \union {"String", "str"}
      /\ a = "Decimal" <=> b = "Decimal"
      /\ a = "StdDuration" <=> b = "StdDuration"
  BY AnalyzedBase
<1>2. a \in PlainBases <=> b \notin Bytes
  BY <1>1 DEF PlainBases, Bytes
<1>3. a \in ShownBases <=> b \notin Bytes \union {"Tuple", "StdDuration"}
  BY <1>1 DEF ShownBases, Bytes
<1>4. a \in TextBases \union (SizedBases \ {"Tuple", "u8"}) <=> b \notin {"Tuple", "u8", "bytes", "slice"}
  <2>1. CASE b \in Unsized
    BY <1>1, <2>1 DEF Unsized, SizedBases, RowTypes
  <2>2. CASE b \notin Unsized
    <3>1. a = b /\ b \in SizedBases
      BY <2>2 DEF AnalyzedAs, TypeBases
    <3>2. b \notin {"bytes", "slice"}
      BY <2>2 DEF Unsized
    <3>3. TextBases = RowTypes \union {"String", "BorrowedStr", "CowStr"} /\ b \notin {"BorrowedStr", "CowStr"}
      BY <3>1 DEF TextBases, SizedBases, RowTypes
    <3>4. b \in TextBases => b \in SizedBases \ {"Tuple", "u8"}
      BY <3>1, <3>3 DEF SizedBases, RowTypes
    <3> QED BY <3>1, <3>2, <3>4
  <2> QED BY <2>1, <2>2
<1> QED BY <1>1, <1>2, <1>3, <1>4

-----------------------------------------------------------------------------
(* The checks between analysis and lowering.                               *)

LEMMA EveryNodeAnalyzed ==
  ASSUME FieldInv, AnalyzeInv, phase \in {"analyze", "lower", "lowered"},
         phase = "analyze" => work = <<>>
  PROVE  /\ WellFormedField(field) /\ DOMAIN analyzed = DOMAIN field.ty
         /\ \A p \in DOMAIN field.ty :
              /\ NodeSeen(field.ty, p) /\ analyzed[p].base = AnalyzedAs(field.ty[p])
              /\ PeeledTo(analyzed[p].wrappers, Peelable(field.ty[p]))
              /\ field.ty[p].base \in TypeBases \ Refused
              /\ field.ty[p].base \in Unsized => KeptBy(field.ty[p]) \in {"Ref", "Cow"}
<1>1. WellFormedField(field)
  BY FieldWritten DEF FieldInv
<1>2. Closed(field.ty, DOMAIN analyzed, <<>>)
  BY DEF FieldInv, Visiting, Lowerable
<1>3. DOMAIN analyzed = DOMAIN field.ty
  BY <1>1, <1>2, AllVisited
<1> QED BY <1>1, <1>3 DEF AnalyzeInv, AnalyzedFrom, NodeSeen, WellFormedField

LEMMA BinaryChecked ==
  ASSUME FieldInv, AnalyzeInv, AnalysisDone
  PROVE  BinaryError = "none" <=> ConversionAccepted("as_binary", field.ty)
<1> DEFINE node == field.ty[Root]
           a    == analyzed[Root].base
           ws   == analyzed[Root].wrappers
<1>1. /\ node.base \in TypeBases \ Refused /\ a = AnalyzedAs(node)
      /\ node.base \in Unsized => KeptBy(node) \in {"Ref", "Cow"}
      /\ PeeledTo(ws, Peelable(node))
  BY EveryNodeAnalyzed DEF AnalysisDone, WellFormedField
<1> HIDE DEF node, a, ws
<1>2. PICK b : b = node.base
  OBVIOUS
<1>3. /\ a = "Tuple" <=> b = "Tuple"
      /\ a = "u8" <=> b = "u8"
      /\ a \in {"BorrowedBytes", "CowBytes"} <=> b = "bytes"
      /\ a \in {"BorrowedSlice", "CowSlice"} <=> b = "slice"
  BY <1>1, <1>2, AnalyzedBase
<1>4. a \in TextBases \union (SizedBases \ {"Tuple", "u8"}) <=> b \notin {"Tuple", "u8", "bytes", "slice"}
  BY <1>1, <1>2, AnalyzedSets
<1>5. ConversionAccepted("as_binary", field.ty) <=> b = "bytes" \/ (b = "u8" /\ ByteList(node.spine))
  BY <1>2 DEF ConversionAccepted, node
<1>6. BinaryError =
        CASE a = "Tuple" -> "attribute_on_tuple"
          [] a \in {"BorrowedBytes", "CowBytes"} -> "none"
          [] a \in {"BorrowedSlice", "CowSlice"} -> "binary_of_slice"
          [] a \in TextBases \union (SizedBases \ {"Tuple", "u8"}) -> "binary_of_other"
          [] a = "u8" -> CASE ws = <<>> \/ ws = <<"Option">> -> "binary_of_byte"
                           [] Len(ws) > 1 /\ Last(ws) = "Option" -> "binary_of_optional_byte"
                           [] Len(ws) > 1 /\ Last(ws) = "SmartPtr" -> "binary_of_other"
                           [] Len(ws) > 0 /\ Last(ws) = "Vec" -> "none"
  BY DEF BinaryError, a, ws
<1>7. CASE b = "Tuple"
  <2>1. BinaryError = "attribute_on_tuple"
    BY <1>3, <1>4, <1>6, <1>7
  <2> QED BY <1>5, <1>7, <2>1
<1>8. CASE b = "bytes"
  <2>1. BinaryError = "none"
    BY <1>3, <1>4, <1>6, <1>8
  <2> QED BY <1>5, <1>8, <2>1
<1>9. CASE b = "slice"
  <2>1. BinaryError = "binary_of_slice"
    BY <1>3, <1>4, <1>6, <1>9
  <2> QED BY <1>5, <1>9, <2>1
<1>10. CASE b \notin {"Tuple", "u8", "bytes", "slice"}
  <2>1. BinaryError = "binary_of_other"
    BY <1>3, <1>4, <1>6, <1>10
  <2> QED BY <1>5, <1>10, <2>1
<1>11. CASE b = "u8"
  <2>1. Peelable(node) = node.spine
    BY <1>2, <1>11 DEF Peelable, Unsized
  <2>2. /\ ws \in Seq(RawWrappers)
        /\ ws # <<>> => ws[1] \in {"Option", "Vec"}
        /\ ByteList(ws) <=> ByteList(node.spine)
    BY <1>1, <2>1 DEF PeeledTo
  <2>3. BinaryError = CASE ws = <<>> \/ ws = <<"Option">> -> "binary_of_byte"
                        [] Len(ws) > 1 /\ Last(ws) = "Option" -> "binary_of_optional_byte"
                        [] Len(ws) > 1 /\ Last(ws) = "SmartPtr" -> "binary_of_other"
                        [] Len(ws) > 0 /\ Last(ws) = "Vec" -> "none"
    BY <1>3, <1>4, <1>6, <1>11
  <2>4. CASE ws = <<>>
    BY <1>5, <1>11, <2>2, <2>3, <2>4 DEF ByteList
  <2>5. CASE ws # <<>>
    <3>1. /\ Len(ws) \in Nat \ {0} /\ Last(ws) = ws[Len(ws)] /\ Last(ws) \in {"Option", "SmartPtr", "Vec"}
          /\ Len(ws) = 1 => Last(ws) \in {"Option", "Vec"}
          /\ ws = <<"Option">> <=> Len(ws) = 1 /\ Last(ws) = "Option"
      <4>1. Len(ws) \in Nat \ {0} /\ Last(ws) = ws[Len(ws)] /\ ws[Len(ws)] \in RawWrappers
        <5> HIDE DEF RawWrappers
        <5> QED BY <2>2, <2>5, LastOfStart, Zenon DEF Last
      <4>2. ws = <<"Option">> <=> Len(ws) = 1 /\ ws[1] = "Option"
        <5> HIDE DEF RawWrappers
        <5> QED BY <2>2, Single, Zenon
      <4> QED BY <2>2, <2>5, <4>1, <4>2 DEF RawWrappers, AccessSteps
    <3>2. ByteList(ws) <=> Last(ws) = "Vec"
      BY <2>5 DEF ByteList
    <3>3. Last(ws) = "Vec" => BinaryError = "none"
      BY <2>3, <2>5, <3>1
    <3>4. Last(ws) # "Vec" => BinaryError # "none"
      <4>1. CASE ws = <<"Option">>
        BY <2>3, <3>1, <4>1
      <4>2. CASE Last(ws) = "Option" /\ Len(ws) > 1
        <5>1. BinaryError = "binary_of_optional_byte"
          BY <2>3, <2>5, <3>1, <4>2
        <5> QED BY <5>1
      <4>3. CASE Last(ws) = "SmartPtr"
        <5>1. BinaryError = "binary_of_other"
          <6>1. Len(ws) > 1 /\ Last(ws) # "Option" /\ ws # <<"Option">>
            <7>1. Last(ws) # "Option" /\ Last(ws) \notin {"Option", "Vec"}
              BY <4>3
            <7>2. Len(ws) # 1 /\ ws # <<"Option">>
              BY <3>1, <7>1, Zenon
            <7> QED BY <3>1, <7>1, <7>2
          <6> QED BY <2>3, <2>5, <4>3, <6>1
        <5> QED BY <5>1
      <4>4. Len(ws) = 1 \/ Len(ws) > 1
        <5>1. ASSUME NEW u \in Nat \ {0} PROVE u = 1 \/ u > 1
          OBVIOUS
        <5> QED BY <3>1, <5>1, Zenon
      <4> QED BY <3>1, <4>1, <4>2, <4>3, <4>4
    <3> QED BY <1>5, <1>11, <2>2, <3>2, <3>3, <3>4
  <2> QED BY <2>4, <2>5
<1> QED BY <1>7, <1>8, <1>9, <1>10, <1>11

LEMMA TypeChecked ==
  ASSUME FieldInv, AnalyzeInv, AnalysisDone
  PROVE  CheckError = "none" <=>
           /\ NodesFit(field.ty)
           /\ override.key = "as_binary" => ConversionAccepted("as_binary", field.ty)
<1>1. /\ WellFormedField(field) /\ DOMAIN analyzed = DOMAIN field.ty
      /\ \A p \in DOMAIN field.ty :
           /\ NodeSeen(field.ty, p) /\ analyzed[p].base = AnalyzedAs(field.ty[p])
           /\ PeeledTo(analyzed[p].wrappers, Peelable(field.ty[p]))
           /\ field.ty[p].base \in TypeBases \ Refused
           /\ field.ty[p].base \in Unsized => KeptBy(field.ty[p]) \in {"Ref", "Cow"}
  BY EveryNodeAnalyzed DEF AnalysisDone
<1>2. ASSUME NEW p \in DOMAIN field.ty
      PROVE  /\ analyzed[p].base = "Self" <=> field.ty[p].base = "Self"
             /\ IsTuple(p) <=> field.ty[p].base = "Tuple"
             /\ field.ty[p].base = "Tuple" => (Wrapped(p) <=> ~NotListed(field.ty[p].spine))
  <2>1. /\ analyzed[p].base = "Self" <=> field.ty[p].base = "Self"
        /\ analyzed[p].base = "Tuple" <=> field.ty[p].base = "Tuple"
    BY <1>1, AnalyzedBase
  <2>2. field.ty[p].base = "Tuple" => Peelable(field.ty[p]) = field.ty[p].spine
    BY DEF Peelable, Unsized
  <2>3. analyzed[p].wrappers = <<>> <=> NotListed(Peelable(field.ty[p]))
    BY <1>1 DEF PeeledTo
  <2> QED BY <2>1, <2>2, <2>3 DEF IsTuple, Wrapped
<1>3. SelfReference <=> ~(\A p \in DOMAIN field.ty : NodeAccepted(field.ty, p))
  BY <1>1, <1>2, NodeAcceptedAs DEF SelfReference
<1>4. \A p \in DOMAIN field.ty : Elements(field.ty, p) \subseteq DOMAIN field.ty
  BY DEF Elements
<1>5. WrappedNestedTuple <=> ~NestedTupleAccepted(field.ty)
  <2>1. \A p \in DOMAIN field.ty : \A q \in Elements(field.ty, p) :
          IsTuple(p) /\ IsTuple(q) /\ (Wrapped(p) \/ Wrapped(q)) <=>
            ~(field.ty[p].base = "Tuple" /\ field.ty[q].base = "Tuple" =>
                NotListed(field.ty[p].spine) /\ NotListed(field.ty[q].spine))
    <3> TAKE p \in DOMAIN field.ty
    <3> TAKE q \in Elements(field.ty, p)
    <3>1. q \in DOMAIN field.ty
      BY <1>4
    <3>2. /\ IsTuple(p) <=> field.ty[p].base = "Tuple"
          /\ IsTuple(q) <=> field.ty[q].base = "Tuple"
          /\ field.ty[p].base = "Tuple" => (Wrapped(p) <=> ~NotListed(field.ty[p].spine))
          /\ field.ty[q].base = "Tuple" => (Wrapped(q) <=> ~NotListed(field.ty[q].spine))
      BY <1>2, <3>1
    <3> QED BY <3>2, Zenon
  <2> QED BY <1>1, <2>1, Zenon DEF WrappedNestedTuple, NestedTupleAccepted
<1>6. BinaryError = "none" <=> ConversionAccepted("as_binary", field.ty)
  BY BinaryChecked
<1>7. CASE SelfReference
  BY <1>3, <1>7 DEF CheckError, NodesFit
<1>8. CASE ~SelfReference /\ WrappedNestedTuple
  BY <1>5, <1>8 DEF CheckError, NodesFit
<1>9. CASE ~SelfReference /\ ~WrappedNestedTuple
  <2>1. CheckError = IF override.key = "as_binary" THEN BinaryError ELSE "none"
    BY <1>9 DEF CheckError
  <2> QED BY <1>3, <1>5, <1>6, <1>9, <2>1 DEF NodesFit
<1> QED BY <1>7, <1>8, <1>9

-----------------------------------------------------------------------------
(* Lowering: the shape of a node is that of its wrappers so far, the root  *)
(* is lowered first, and what is lowered fits the field's attribute.       *)

WrappersOf(p)  == IF p = Root THEN RootWrappers ELSE analyzed[p].wrappers
LeafFits(p)    == IF override.key = "none" THEN field.ty[p].base \notin Bytes
                  ELSE ConversionAccepted(override.key, field.ty)
BinaryFits     == override.key = "as_binary" => ConversionAccepted("as_binary", field.ty)
LoweredFrom(f, p, node) ==
  /\ node.leaf.spec = "Tuple" <=> f.ty[p].base = "Tuple"
  /\ ShapedBy(node.shape, SpineOf(f, p))
NormalizedSoFar(ws, t, left, loop) ==
  /\ t \in Seq(RawWrappers) /\ left \in Seq(RawWrappers)
  /\ ws = t \o left /\ ShapedSoFar(loop, t)
RootFirst ==
  \/ DOMAIN lowered = {} /\ work = <<Root>>
  \/ Root \in DOMAIN lowered /\ Root \notin RangeOf(work)
LowerInv ==
  /\ phase \in {"attributes", "analyze"} => norm = NormalStart
  /\ phase \in {"lower", "lowered"} =>
       /\ NodesFit(field.ty) /\ BinaryFits /\ RootFirst
       /\ \A p \in DOMAIN lowered : LoweredFrom(field, p, lowered[p]) /\ LeafFits(p)
  /\ phase = "lower" /\ work # <<>> =>
       \E t : NormalizedSoFar(WrappersOf(Current), t, rest, norm)

LEMMA ElementOfTuple ==
  ASSUME NEW f, WellFormedField(f), NEW p \in DOMAIN f.ty, p # Root
  PROVE  f.ty[Root].base = "Tuple"
<1>1. PICK q : q = SubSeq(p, 1, 1)
  OBVIOUS
<1>2. p \in Seq(Nat) /\ Len(p) \in Nat /\ Len(p) > 0
  BY DEF WellFormedField, Root
<1>3. q \in DOMAIN f.ty
  BY <1>1, <1>2 DEF WellFormedField
<1>4. q \in Seq(Nat) /\ Len(q) = 1
  BY <1>1, <1>2, StartOf
<1>5. q # Root /\ Front(q) = Root
  <2>1. q # <<>> /\ SubSeq(q, 1, Len(q) - 1) = <<>>
    BY <1>4, OneStep
  <2> QED BY <2>1, Zenon DEF Front, Root
<1>6. Elements(f.ty, Root) # {} /\ Root \in DOMAIN f.ty
  BY <1>3, <1>5 DEF Elements, WellFormedField
<1> QED BY <1>6 DEF WellFormedField

(* A tuple is lowered only without an attribute.                           *)
LEMMA TupleUnconverted ==
  ASSUME NEW ty, ty[Root].base = "Tuple", NEW key \in FieldOverrideKeys \ {"skip"}
  PROVE  ~ConversionAccepted(key, ty)
<1>1. key \in {"as_binary", "as_str", "as_string", "decimal", "time_unit", "flatten"}
  BY DEF FieldOverrideKeys
<1> QED BY <1>1 DEF ConversionAccepted, RowTypes

LEMMA ElementUnconverted ==
  ASSUME FieldInv, AttrInv, LowerInv, phase = "lower", work # <<>>, Current # Root
  PROVE  override.key = "none"
<1>1. WellFormedField(field) /\ Current \in DOMAIN field.ty
  <2>1. WellFormedField(field)
    BY FieldWritten DEF FieldInv
  <2> QED BY <2>1, ClosedStep DEF FieldInv, Visiting, Lowerable, Current
<1>2. field.ty[Root].base = "Tuple"
  BY <1>1, ElementOfTuple
<1>3. Root \in DOMAIN lowered
  <2>1. work = <<Root>> => Head(work) = Root
    OBVIOUS
  <2> QED BY <2>1 DEF LowerInv, RootFirst, Current
<1>4. LeafFits(Root)
  BY <1>3 DEF LowerInv
<1>5. override.key \in (FieldOverrideKeys \ {"skip"}) \union {"none"}
  BY DEF FieldInv, Names, AttrInv
<1> QED BY <1>2, <1>4, <1>5, TupleUnconverted DEF LeafFits

LEMMA BytesTaken ==
  ASSUME WellFormedField(field), AttrsAccepted(field), override = AttrOf(field)
  PROVE  TakesBytes(field) <=> override.key = "as_binary"
<1>1. CASE field.attrs = <<>>
  <2>1. DOMAIN field.attrs = {} /\ NoAttr.key = "none"
    BY <1>1 DEF NoAttr
  <2> QED BY <1>1, <2>1 DEF TakesBytes, AttrOf
<1>2. CASE field.attrs # <<>>
  <2>1. DOMAIN field.attrs = {1}
    BY <1>2, AttrsWritten DEF AttrsAccepted
  <2>2. override.key = field.attrs[1].key
    BY <1>2 DEF AttrOf, FieldAttr
  <2> QED BY <2>1, <2>2 DEF TakesBytes
<1> QED BY <1>1, <1>2

(* A slice is kept by a reference or a Cow, which is neither list nor null.*)
LEMMA KeptLevels ==
  ASSUME NEW node, node.spine \in Seq(SpineSteps),
         node.base \in Unsized => KeptBy(node) \in {"Ref", "Cow"}
  PROVE  SameLevels(Peelable(node), node.spine)
<1>1. CASE node.base \notin Unsized
  BY <1>1 DEF Peelable, SameLevels
<1>2. CASE node.base \in Unsized
  <2>1. node.spine # <<>> /\ Last(node.spine) \in {"Ref", "Cow"}
    BY <1>2 DEF KeptBy
  <2>2. PICK t : t = Front(node.spine)
    OBVIOUS
  <2>3. PICK x : x = Last(node.spine)
    OBVIOUS
  <2>4. t \in Seq(SpineSteps) /\ node.spine = Append(t, x)
    <3> HIDE DEF SpineSteps
    <3> QED BY <2>1, <2>2, <2>3, LastOfStart DEF Front, Last
  <2>5. x \in {"Ref", "Cow"} /\ x \in SpineSteps
    BY <2>1, <2>3 DEF SpineSteps
  <2>6. SameLevels(t, Append(t, x))
    <3>1. /\ VecCount(Append(t, x)) = IF x = "Vec" THEN VecCount(t) + 1 ELSE VecCount(t)
          /\ \A k : NullAt(Append(t, x), k) <=> NullAt(t, k) \/ (x = "Option" /\ k = VecCount(t))
      <4> HIDE DEF SpineSteps
      <4> QED BY <2>4, <2>5, StackGrown, Zenon
    <3>2. x # "Vec" /\ x # "Option"
      BY <2>5
    <3> QED BY <3>1, <3>2 DEF SameLevels
  <2> QED BY <1>2, <2>2, <2>4, <2>6 DEF Peelable
<1> QED BY <1>1, <1>2

LEMMA SameThrough ==
  ASSUME NEW r, NEW s, NEW t, SameLevels(r, s), SameLevels(s, t)
  PROVE  SameLevels(r, t)
BY DEF SameLevels

LEMMA WrappersShaped ==
  ASSUME FieldInv, AttrInv, AnalyzeInv, phase = "lower", BinaryFits, NEW p \in DOMAIN field.ty,
         p # Root => override.key = "none"
  PROVE  /\ SpineOf(field, p) \in Seq(SpineSteps)
         /\ SameLevels(WrappersOf(p), SpineOf(field, p))
<1>1. /\ WellFormedField(field)
      /\ PeeledTo(analyzed[p].wrappers, Peelable(field.ty[p]))
      /\ analyzed[p].base = AnalyzedAs(field.ty[p])
      /\ field.ty[p].base \in TypeBases \ Refused
      /\ field.ty[p].base \in Unsized => KeptBy(field.ty[p]) \in {"Ref", "Cow"}
  BY EveryNodeAnalyzed
<1>2. field.ty[p].spine \in Seq(SpineSteps)
  BY <1>1 DEF WellFormedField
<1>3. TakesBytes(field) <=> override.key = "as_binary"
  BY <1>1, BytesTaken DEF AttrInv
<1>4. analyzed[p].base = "u8" <=> field.ty[p].base = "u8"
  BY <1>1, AnalyzedBase
<1>5. CASE override.key = "as_binary" /\ field.ty[p].base = "u8"
  <2>1. p = Root
    BY <1>5
  <2>2. ByteList(field.ty[p].spine)
    BY <1>5, <2>1 DEF BinaryFits, ConversionAccepted
  <2>3. Peelable(field.ty[p]) = field.ty[p].spine
    BY <1>5 DEF Peelable, Unsized
  <2>4. SpineOf(field, p) = Front(field.ty[p].spine)
    BY <1>3, <1>5 DEF SpineOf
  <2>5. WrappersOf(p) = Front(analyzed[p].wrappers)
    BY <1>4, <1>5, <2>1 DEF WrappersOf, RootWrappers
  <2>6. SameLevels(Front(analyzed[p].wrappers), Front(field.ty[p].spine))
    BY <1>1, <2>2, <2>3, PeeledBytes
  <2>7. Front(field.ty[p].spine) \in Seq(SpineSteps)
    <3> HIDE DEF SpineSteps
    <3> QED BY <1>2, <2>2, WithoutLastVec
  <2> QED BY <2>4, <2>5, <2>6, <2>7
<1>6. CASE ~(override.key = "as_binary" /\ field.ty[p].base = "u8")
  <2>1. SpineOf(field, p) = field.ty[p].spine
    BY <1>3, <1>6 DEF SpineOf
  <2>2. WrappersOf(p) = analyzed[p].wrappers
    BY <1>4, <1>6 DEF WrappersOf, RootWrappers
  <2>3. SameLevels(analyzed[p].wrappers, Peelable(field.ty[p]))
    BY <1>1 DEF PeeledTo
  <2>4. SameLevels(Peelable(field.ty[p]), field.ty[p].spine)
    BY <1>1, <1>2, KeptLevels
  <2> QED BY <1>2, <2>1, <2>2, <2>3, <2>4, SameThrough
<1> QED BY <1>5, <1>6

(* Whether the current leaf is accepted: its conversion takes bases like   *)
(* the one it is given, and flattening leaves no list to be flattened.     *)
LEMMA LeafRight ==
  ASSUME FieldInv, AttrInv, AnalyzeInv, LowerInv, Lowering, rest = <<>>
  PROVE  /\ Current \in DOMAIN field.ty
         /\ ShapedBy(Shape, SpineOf(field, Current))
         /\ LeafAccepted(analyzed[Current].base) <=> LeafFits(Current)
<1> DEFINE node == field.ty[Current]
           a    == analyzed[Current].base
<1>1. phase = "lower" /\ work # <<>> /\ WellFormedField(field) /\ BinaryFits
  BY FieldWritten DEF Lowering, FieldInv, LowerInv
<1>2. Current \in DOMAIN field.ty
  BY <1>1, ClosedStep DEF FieldInv, Visiting, Lowerable, Current
<1>3. Current # Root => override.key = "none"
  BY <1>1, ElementUnconverted
<1>4. /\ node.base \in TypeBases \ Refused /\ a = AnalyzedAs(node)
      /\ node.base \in Unsized => KeptBy(node) \in {"Ref", "Cow"}
  BY <1>1, <1>2, EveryNodeAnalyzed
<1>5. SpineOf(field, Current) \in Seq(SpineSteps) /\ SameLevels(WrappersOf(Current), SpineOf(field, Current))
  BY <1>1, <1>2, <1>3, WrappersShaped
<1>6. PICK t : NormalizedSoFar(WrappersOf(Current), t, rest, norm)
  BY <1>1 DEF LowerInv
<1>7. t = WrappersOf(Current) /\ t \in Seq(RawWrappers) /\ ShapedSoFar(norm, t)
  <2>1. t \in Seq(RawWrappers) /\ ShapedSoFar(norm, t) /\ WrappersOf(Current) = t \o <<>>
    BY <1>6 DEF NormalizedSoFar
  <2>2. t \o <<>> = t
    <3> HIDE DEF RawWrappers
    <3> QED BY <2>1
  <2> QED BY <2>1, <2>2
<1>8. ShapedBy(Shape, t) /\ (Shape = Bare <=> NotListed(t))
  BY <1>7, ShapedEnd DEF Shape, FieldInv, Typed
<1>9. VecCount(t) = VecCount(SpineOf(field, Current)) /\ Levels(t) = Levels(SpineOf(field, Current))
  <2> HIDE DEF RawWrappers, SpineSteps
  <2> QED BY <1>5, <1>7, LevelsSame
<1>10. ShapedBy(Shape, SpineOf(field, Current))
  BY <1>8, <1>9 DEF ShapedBy
<1>11. NotListed(t) <=> NotListed(SpineOf(field, Current))
  <2>1. /\ NotListed(t) <=> VecCount(t) = 0 /\ ~NullAt(t, 0)
        /\ NotListed(SpineOf(field, Current)) <=>
             VecCount(SpineOf(field, Current)) = 0 /\ ~NullAt(SpineOf(field, Current), 0)
    <3> HIDE DEF RawWrappers, SpineSteps
    <3> QED BY <1>5, <1>7, NothingListed
  <2> QED BY <1>5, <1>7, <2>1 DEF SameLevels
<1> HIDE DEF node, a
<1>12. PICK b : b = node.base
  OBVIOUS
<1>13. /\ a \in RowTypes <=> b \in RowTypes
       /\ a \in TextBases <=> b \in RowTypes \union {"String", "str"}
       /\ a \in TimedBases <=> b \in TimedBases
  BY <1>4, <1>12, AnalyzedBase
<1>14. /\ a \in PlainBases <=> b \notin Bytes
       /\ a \in ShownBases <=> b \notin Bytes \union {"Tuple", "StdDuration"}
       /\ a \in RowTypes \union {"Decimal"} <=> b \in RowTypes \union {"Decimal"}
  BY <1>4, <1>12, AnalyzedSets
<1>15. LeafFits(Current) <=> IF override.key = "none" THEN b \notin Bytes
                             ELSE ConversionAccepted(override.key, field.ty)
  BY <1>12 DEF LeafFits, node
<1>16. CASE override.key = "none"
  <2>1. LeafAccepted(a) <=> a \in PlainBases
    BY <1>16 DEF LeafAccepted
  <2> QED BY <1>2, <1>10, <1>14, <1>15, <1>16, <2>1 DEF a
<1>17. CASE override.key # "none"
  <2>1. Current = Root /\ override.key \in FieldOverrideKeys \ {"skip"}
    BY <1>1, <1>3, <1>17 DEF FieldInv, Names, AttrInv
  <2>2. b = field.ty[Root].base
    BY <1>12, <2>1 DEF node
  <2>3. override.key \in {"as_binary", "as_str", "as_string", "decimal", "time_unit", "flatten"}
    BY <2>1 DEF FieldOverrideKeys
  <2>4. LeafAccepted(a) <=> ConversionAccepted(override.key, field.ty)
    <3>1. CASE override.key = "as_binary"
      BY <1>1, <2>1, <3>1 DEF LeafAccepted, BinaryFits
    <3>2. CASE override.key = "as_str"
      BY <1>13, <2>1, <2>2, <3>2 DEF LeafAccepted, ConversionAccepted
    <3>3. CASE override.key = "as_string"
      BY <1>14, <2>1, <2>2, <3>3 DEF LeafAccepted, ConversionAccepted
    <3>4. CASE override.key = "decimal"
      BY <1>14, <2>1, <2>2, <3>4 DEF LeafAccepted, ConversionAccepted
    <3>5. CASE override.key = "time_unit"
      BY <1>13, <2>1, <2>2, <3>5 DEF LeafAccepted, ConversionAccepted, TimedBases
    <3>6. CASE override.key = "flatten"
      <4>1. SpineOf(field, Root) = field.ty[Root].spine
        <5>1. TakesBytes(field) <=> override.key = "as_binary"
          BY <1>1, BytesTaken DEF AttrInv
        <5> QED BY <3>6, <5>1 DEF SpineOf
      <4>2. Shape = Bare <=> NotListed(field.ty[Root].spine)
        BY <1>8, <1>11, <2>1, <4>1
      <4> QED BY <1>13, <2>1, <2>2, <3>6, <4>2 DEF LeafAccepted, ConversionAccepted
    <3> QED BY <2>3, <3>1, <3>2, <3>3, <3>4, <3>5, <3>6
  <2> QED BY <1>2, <1>10, <1>15, <1>17, <2>4 DEF a
<1> QED BY <1>16, <1>17

-----------------------------------------------------------------------------
(* Lowering a field ends in an error exactly if the field is not accepted. *)

FieldPromise ==
  /\ AttrInv /\ AnalyzeInv /\ LowerInv
  /\ phase = "error" => ~FieldAccepted(field)

LEMMA TypeRefused ==
  ASSUME FieldInv, AttrInv, phase \in {"analyze", "lower"}, ~TypeFits(field)
  PROVE  ~FieldAccepted(field)
BY AcceptedAs, FieldWritten DEF AttrInv, FieldInv

LEMMA AttrsKept ==
  ASSUME AttrInv, phase \in {"analyze", "lower"}, phase' \in {"analyze", "lower", "lowered"},
         UNCHANGED <<field, override>>
  PROVE  AttrInv'
<1>1. AttrsAccepted(field) /\ override = AttrOf(field) /\ override.key # "skip"
  BY DEF AttrInv
<1> QED BY <1>1 DEF AttrInv

LEMMA Failed ==
  ASSUME NEW why, Fail(why), ~FieldAccepted(field)
  PROVE  FieldPromise'
<1>1. phase' = "error" /\ field' = field
  BY DEF Fail
<1> QED BY <1>1 DEF FieldPromise, AttrInv, AnalyzeInv, LowerInv

LEMMA MutRefRight ==
  ASSUME FieldInv, AttrInv, AnalyzeInv, RefuseMutRef
  PROVE  ~FieldAccepted(field)
<1>1. phase = "analyze" /\ work # <<>> /\ rest # <<>> /\ Head(rest) = "MutRef"
  BY DEF RefuseMutRef, Peeling
<1>2. PICK s : PeeledSoFar(field.ty[Current], s, rest, peeled.wrappers)
  BY <1>1 DEF AnalyzeInv
<1>3. rest \in Seq(SpineSteps) /\ s \in Seq(SpineSteps) /\ field.ty[Current].spine = s \o rest
  BY <1>2 DEF PeeledSoFar, PeeledTo
<1>4. /\ Len(s) + 1 \in DOMAIN field.ty[Current].spine
      /\ field.ty[Current].spine[Len(s) + 1] = "MutRef"
  <2> HIDE DEF SpineSteps
  <2> QED BY <1>1, <1>3, ConcatMove
<1>5. ~NodeAccepted(field.ty, Current) /\ Current \in DOMAIN field.ty
  BY <1>1, <1>4, NodeAcceptedAs, CurrentWritten DEF NodeSeen
<1> QED BY <1>1, <1>5, TypeRefused DEF TypeFits, NodesFit

LEMMA BaseRight ==
  ASSUME FieldInv, AttrInv, AnalyzeInv, RefuseBase
  PROVE  ~FieldAccepted(field)
<1>1. AtBase /\ BaseError # "none" /\ phase = "analyze" /\ work # <<>>
  BY DEF RefuseBase, AtBase
<1>2. ~NodeAccepted(field.ty, Current) /\ Current \in DOMAIN field.ty
  BY <1>1, BaseSettled, NodeAcceptedAs, CurrentWritten
<1> QED BY <1>1, <1>2, TypeRefused DEF TypeFits, NodesFit

LEMMA TypeRight ==
  ASSUME FieldInv, AttrInv, AnalyzeInv, RefuseType
  PROVE  ~FieldAccepted(field)
<1>1. AnalysisDone /\ CheckError # "none" /\ phase = "analyze"
  BY DEF RefuseType, AnalysisDone
<1>2. override = AttrOf(field)
  BY <1>1 DEF AttrInv
<1>3. ~TypeFits(field)
  BY <1>1, <1>2, TypeChecked DEF TypeFits
<1> QED BY <1>1, <1>3, TypeRefused

LEMMA LeafRefusedRight ==
  ASSUME FieldInv, AttrInv, AnalyzeInv, LowerInv, RefuseLeaf
  PROVE  ~FieldAccepted(field)
<1>1. Lowering /\ rest = <<>> /\ ~LeafAccepted(analyzed[Current].base) /\ phase = "lower"
  BY DEF RefuseLeaf, Lowering
<1>2. ~LeafFits(Current) /\ Current \in DOMAIN field.ty
  BY <1>1, LeafRight
<1>3. override = AttrOf(field)
  BY <1>1 DEF AttrInv
<1>4. ~ConversionAccepted(override.key, field.ty)
  <2>1. CASE override.key = "none"
    BY <1>2, <2>1 DEF LeafFits, ConversionAccepted, PlainLeaves
  <2>2. CASE override.key # "none"
    BY <1>2, <2>2 DEF LeafFits
  <2> QED BY <2>1, <2>2
<1> QED BY <1>1, <1>3, <1>4, TypeRefused DEF TypeFits

LEMMA TypeTaken ==
  ASSUME FieldInv, AttrInv, AnalyzeInv, LowerInv, AcceptType, FieldInv'
  PROVE  AnalyzeInv' /\ LowerInv'
<1>1. /\ phase = "analyze" /\ phase' = "lower" /\ work' = <<Root>> /\ rest' = RootWrappers
      /\ CheckError = "none" /\ AnalysisDone /\ lowered = <<>> /\ norm = NormalStart
      /\ UNCHANGED <<field, override, analyzed, norm, lowered>>
  BY DEF AcceptType, AnalysisDone, lowering, FieldInv, Visiting, LowerInv
<1>2. AnalyzeInv'
  BY <1>1 DEF AnalyzeInv
<1>3. NodesFit(field.ty) /\ BinaryFits
  BY <1>1, TypeChecked DEF BinaryFits
<1>4. RootFirst'
  <2>1. DOMAIN <<>> = {}
    OBVIOUS
  <2> QED BY <1>1, <2>1 DEF RootFirst
<1>5. rest' \in Seq(RawWrappers)
  BY <1>1 DEF FieldInv, Visiting
<1>6. NormalizedSoFar(RootWrappers, <<>>, rest', norm')
  <2>1. <<>> \o rest' = rest' /\ <<>> \in Seq(RawWrappers)
    <3> HIDE DEF RawWrappers
    <3> QED BY <1>5
  <2> QED BY <1>1, <1>5, <2>1, ShapedStart DEF NormalizedSoFar
<1>7. (WrappersOf(Current))' = RootWrappers
  <2>1. Current' = Root
    BY <1>1 DEF Current
  <2>2. (RootWrappers)' = RootWrappers
    BY <1>1 DEF RootWrappers
  <2> QED BY <2>1, <2>2 DEF WrappersOf
<1>8. lowered' = <<>>
  BY <1>1
<1> QED BY <1>1, <1>2, <1>3, <1>4, <1>6, <1>7, <1>8 DEF LowerInv, BinaryFits

LEMMA WrapperTaken ==
  ASSUME FieldInv, LowerInv, AnalyzeInv, NormalizeWrapper
  PROVE  AnalyzeInv' /\ LowerInv'
<1>1. /\ phase = "lower" /\ work # <<>> /\ rest # <<>> /\ rest' = Tail(rest)
      /\ norm' = NormalStep(norm, Head(rest))
      /\ UNCHANGED <<field, phase, override, work, analyzed, lowered>>
  BY DEF NormalizeWrapper, Lowering
<1>2. PICK t : NormalizedSoFar(WrappersOf(Current), t, rest, norm)
  BY <1>1 DEF LowerInv
<1>3. t \in Seq(RawWrappers) /\ rest \in Seq(RawWrappers) /\ WrappersOf(Current) = t \o rest
  BY <1>2 DEF NormalizedSoFar
<1>4. /\ Head(rest) \in RawWrappers /\ rest' \in Seq(RawWrappers) /\ Append(t, Head(rest)) \in Seq(RawWrappers)
      /\ WrappersOf(Current) = Append(t, Head(rest)) \o rest'
  <2> HIDE DEF RawWrappers
  <2>1. /\ Head(rest) \in RawWrappers /\ Tail(rest) \in Seq(RawWrappers)
        /\ Append(t, Head(rest)) \in Seq(RawWrappers)
        /\ t \o rest = Append(t, Head(rest)) \o Tail(rest)
    <3>1. rest # <<>> /\ t \in Seq(RawWrappers) /\ rest \in Seq(RawWrappers)
      BY <1>1, <1>3, Zenon
    <3>2. ASSUME NEW r \in Seq(RawWrappers), r # <<>>
          PROVE  /\ Head(r) \in RawWrappers /\ Tail(r) \in Seq(RawWrappers)
                 /\ Append(t, Head(r)) \in Seq(RawWrappers)
                 /\ t \o r = Append(t, Head(r)) \o Tail(r)
      BY <3>1, <3>2, ConcatMove
    <3> QED BY <3>1, <3>2, Zenon
  <2>2. rest' = Tail(rest)
    BY <1>1
  <2> QED BY <1>3, <2>1, <2>2, Zenon
<1>5. ShapedSoFar(norm', Append(t, Head(rest)))
  BY <1>1, <1>2, <1>4, ShapedStep DEF NormalizedSoFar, FieldInv, Typed
<1>6. NormalizedSoFar(WrappersOf(Current), Append(t, Head(rest)), rest', norm')
  BY <1>4, <1>5, Zenon DEF NormalizedSoFar
<1>7. UNCHANGED <<WrappersOf(Current), RootFirst, BinaryFits>>
  BY <1>1 DEF WrappersOf, RootWrappers, Current, RootFirst, BinaryFits
<1>8. \A p : LeafFits(p)' = LeafFits(p)
  BY <1>1 DEF LeafFits
<1>9. AnalyzeInv'
  BY <1>1 DEF AnalyzeInv
<1> QED BY <1>1, <1>6, <1>7, <1>8, <1>9 DEF LowerInv

(* The leaf of a tuple is that of a tuple, whatever its field's attribute. *)
LEMMA LeafNamed ==
  ASSUME FieldInv, AttrInv, AnalyzeInv, LowerInv, LowerLeaf
  PROVE  LeafOf(analyzed[Current].base).spec = "Tuple" <=> field.ty[Current].base = "Tuple"
<1>1. /\ Lowering /\ rest = <<>> /\ LeafAccepted(analyzed[Current].base)
      /\ phase = "lower" /\ work # <<>>
  BY DEF LowerLeaf, Lowering
<1>2. Current \in DOMAIN field.ty /\ LeafFits(Current)
  BY <1>1, LeafRight
<1>3. override.key \in (FieldOverrideKeys \union {"none"}) \ {"skip"}
  BY <1>1 DEF FieldInv, Names, AttrInv
<1>4. analyzed[Current].base = "Tuple" <=> field.ty[Current].base = "Tuple"
  <2>1. /\ field.ty[Current].base \in TypeBases \ Refused
        /\ analyzed[Current].base = AnalyzedAs(field.ty[Current])
        /\ field.ty[Current].base \in Unsized => KeptBy(field.ty[Current]) \in {"Ref", "Cow"}
    BY <1>1, <1>2, EveryNodeAnalyzed
  <2> QED BY <2>1, AnalyzedBase
<1>5. ASSUME LeafOf(analyzed[Current].base).spec = "Tuple" PROVE field.ty[Current].base = "Tuple"
  BY <1>3, <1>4, <1>5, LeafOfTuple
<1>6. ASSUME field.ty[Current].base = "Tuple" PROVE LeafOf(analyzed[Current].base).spec = "Tuple"
  <2>1. override.key = "none"
    <3>1. CASE Current # Root
      BY <1>1, <3>1, ElementUnconverted
    <3>2. CASE Current = Root
      BY <1>2, <1>3, <1>6, <3>2, TupleUnconverted DEF LeafFits
    <3> QED BY <3>1, <3>2
  <2>2. LeafOf("Tuple") = [spec |-> "Tuple", value |-> <<>>]
    BY <2>1 DEF LeafOf, DefaultLeaf
  <2> QED BY <1>4, <1>6, <2>2
<1> QED BY <1>5, <1>6

LEMMA LeafTaken ==
  ASSUME FieldInv, AttrInv, AnalyzeInv, LowerInv, LowerLeaf, FieldInv'
  PROVE  AnalyzeInv' /\ LowerInv'
<1>1. /\ Lowering /\ phase = "lower" /\ work # <<>> /\ rest = <<>>
      /\ LeafAccepted(analyzed[Current].base)
      /\ work' = ElementSeq(field.ty, Current) \o Tail(work)
      /\ rest' = IF work' = <<>> THEN <<>> ELSE analyzed[Head(work')].wrappers
      /\ norm' = NormalStart /\ UNCHANGED <<field, phase, override, analyzed>>
  BY DEF LowerLeaf, Lowering
<1>2. lowered' = [p \in DOMAIN lowered \union {Current} |->
                    IF p = Current
                    THEN [leaf  |-> LeafOf(analyzed[Current].base),
                          shape |-> Shape, outer |-> analyzed[Current].outer]
                    ELSE lowered[p]]
  BY DEF LowerLeaf
<1>3. /\ Current \in DOMAIN field.ty /\ ShapedBy(Shape, SpineOf(field, Current)) /\ LeafFits(Current)
  BY <1>1, LeafRight
<1>4. AnalyzeInv'
  BY <1>1 DEF AnalyzeInv
<1>5. ASSUME NEW p \in DOMAIN lowered'
      PROVE  LoweredFrom(field, p, lowered'[p]) /\ LeafFits(p)
  <2>1. CASE p = Current
    <3>1. lowered'[p].leaf = LeafOf(analyzed[Current].base) /\ lowered'[p].shape = Shape
      BY <1>2, <2>1
    <3> QED BY <1>3, <2>1, <3>1, LeafNamed DEF LoweredFrom
  <2>2. CASE p # Current
    <3>1. p \in DOMAIN lowered /\ lowered'[p] = lowered[p]
      BY <1>2, <2>2
    <3> QED BY <1>1, <3>1 DEF LowerInv
  <2> QED BY <2>1, <2>2
<1>6. WellFormedField(field) /\ work \in Seq(DOMAIN field.ty)
  BY <1>1, FieldWritten DEF FieldInv, Visiting, Lowerable, Closed
<1>7. /\ ElementSeq(field.ty, Current) \in Seq(DOMAIN field.ty)
      /\ RangeOf(ElementSeq(field.ty, Current)) =
           {Append(Current, i) : i \in 1 .. Cardinality(Elements(field.ty, Current))}
  BY <1>3, <1>6, ElementsWritten
<1>8. /\ RangeOf(work) = {Head(work)} \union RangeOf(Tail(work))
      /\ RangeOf(work') = RangeOf(ElementSeq(field.ty, Current)) \union RangeOf(Tail(work))
      /\ work' \in Seq(DOMAIN field.ty)
  BY <1>1, <1>6, <1>7, SeqParts
<1>9. RootFirst'
  <2>1. Root \in DOMAIN lowered'
    <3>1. work = <<Root>> => Head(work) = Root
      OBVIOUS
    <3>2. Root \in DOMAIN lowered \/ Current = Root
      BY <1>1, <3>1 DEF LowerInv, RootFirst, Current
    <3> QED BY <1>2, <3>2
  <2>2. Root \notin RangeOf(ElementSeq(field.ty, Current))
    <3>1. \A i \in Nat : Append(Current, i) # Root
      <4>1. Current \in Seq(Nat)
        BY <1>3, <1>6 DEF WellFormedField
      <4> QED BY <4>1 DEF Root
    <3>2. 1 .. Cardinality(Elements(field.ty, Current)) \subseteq Nat
      BY <1>3, <1>6, ElementsWritten
    <3> QED BY <1>7, <3>1, <3>2
  <2>3. Root \notin RangeOf(Tail(work))
    <3>1. CASE work = <<Root>>
      <4>1. Tail(work) = <<>>
        BY <3>1
      <4> QED BY <4>1 DEF RangeOf
    <3>2. CASE Root \notin RangeOf(work)
      BY <1>8, <3>2
    <3> QED BY <1>1, <3>1, <3>2 DEF LowerInv, RootFirst
  <2> QED BY <1>8, <2>1, <2>2, <2>3 DEF RootFirst
<1>10. ASSUME work' # <<>>
       PROVE  NormalizedSoFar((WrappersOf(Current))', <<>>, rest', norm')
  <2>1. Head(work') \in RangeOf(work')
    BY <1>8, <1>10, SeqParts
  <2>2. Head(work') # Root
    <3>1. DOMAIN lowered' # {}
      BY <1>2
    <3> QED BY <1>9, <2>1, <3>1 DEF RootFirst
  <2>3. (WrappersOf(Current))' = rest'
    BY <1>1, <1>10, <2>2 DEF WrappersOf, Current
  <2>4. rest' \in Seq(RawWrappers)
    BY <1>1 DEF FieldInv, Visiting
  <2>5. <<>> \o rest' = rest' /\ <<>> \in Seq(RawWrappers)
    <3> HIDE DEF RawWrappers
    <3> QED BY <2>4
  <2> QED BY <1>1, <2>3, <2>4, <2>5, ShapedStart DEF NormalizedSoFar
<1>11. BinaryFits' = BinaryFits
  BY <1>1 DEF BinaryFits
<1>12. \A p : LeafFits(p)' = LeafFits(p)
  BY <1>1 DEF LeafFits
<1> QED BY <1>1, <1>4, <1>5, <1>9, <1>10, <1>11, <1>12 DEF LowerInv

LEMMA TypeBegun ==
  ASSUME FieldInv, AttrInv, LowerInv, IncludeField
  PROVE  AttrInv' /\ AnalyzeInv' /\ LowerInv'
<1>1. /\ phase = "attributes" /\ items = <<>> /\ override.key # "skip" /\ phase' = "analyze"
      /\ work' = <<Root>> /\ rest' = field.ty[Root].spine /\ peeled = NothingPeeled
      /\ analyzed = <<>> /\ norm = NormalStart
      /\ UNCHANGED <<field, override, peeled, analyzed, norm, lowered>>
  BY DEF IncludeField, AttrInv, lowering, FieldInv, Visiting, LowerInv
<1>2. WellFormedField(field) /\ Root \in DOMAIN field.ty /\ field.ty[Root].spine \in Seq(SpineSteps)
  BY <1>1, FieldWritten DEF FieldInv, WellFormedField
<1>3. AttrsAccepted(field) /\ override = AttrOf(field)
  BY <1>1, <1>2, AttrsSettled
<1>4. AttrInv'
  BY <1>1, <1>3 DEF AttrInv
<1>5. PeeledSoFar(field.ty[Root], <<>>, rest', peeled'.wrappers)
  BY <1>1, <1>2, NodeBegun
<1>6. AnalyzeInv'
  BY <1>1, <1>5 DEF AnalyzeInv, Current
<1> QED BY <1>1, <1>4, <1>6 DEF LowerInv

LEMMA FieldStepPromised ==
  ASSUME FieldInv, FieldPromise, FieldNext, FieldInv'
  PROVE  FieldPromise'
<1>1. CASE ReadItem
  <2>1. phase = "attributes" /\ phase' = "attributes" /\ norm' = norm
    BY <1>1 DEF ReadItem, lowering
  <2>2. AttrInv'
    BY <1>1, <2>1, ItemTaken, FieldWritten DEF FieldPromise, FieldInv
  <2> QED BY <2>1, <2>2 DEF FieldPromise, AnalyzeInv, LowerInv
<1>2. CASE RefuseItem
  <2>1. phase = "attributes" /\ Fail(ItemError(Head(items)))
    BY <1>2 DEF RefuseItem
  <2>2. ~FieldAccepted(field)
    BY <1>2, <2>1, ItemRefusedRightly, FieldWritten DEF FieldPromise, FieldInv
  <2> QED BY <2>1, <2>2, Failed
<1>3. CASE SkipField
  <2>1. /\ phase = "attributes" /\ items = <<>> /\ override.key = "skip" /\ phase' = "skipped"
        /\ UNCHANGED <<field, override>>
    BY <1>3 DEF SkipField
  <2>2. AttrsAccepted(field) /\ override = AttrOf(field)
    BY <2>1, AttrsSettled, FieldWritten DEF FieldPromise, FieldInv
  <2> QED BY <2>1, <2>2 DEF FieldPromise, AttrInv, AnalyzeInv, LowerInv
<1>4. CASE IncludeField
  <2>1. phase' = "analyze"
    BY <1>4 DEF IncludeField
  <2> QED BY <1>4, <2>1, TypeBegun DEF FieldPromise
<1>5. CASE PeelWrapper
  <2>1. phase = "analyze" /\ phase' = phase /\ norm' = norm /\ UNCHANGED <<field, override>>
    BY <1>5 DEF PeelWrapper, Peeling, lowering
  <2> QED BY <1>5, <2>1, PeeledOn, AttrsKept DEF FieldPromise, LowerInv
<1>6. CASE RefuseMutRef
  BY <1>6, MutRefRight, Failed DEF FieldPromise, RefuseMutRef
<1>7. CASE AnalyzeBase
  <2>1. phase = "analyze" /\ phase' = phase /\ norm' = norm /\ UNCHANGED <<field, override>>
    BY <1>7 DEF AnalyzeBase, AtBase, lowering
  <2> QED BY <1>7, <2>1, BaseGiven, AttrsKept DEF FieldPromise, LowerInv
<1>8. CASE RefuseBase
  BY <1>8, BaseRight, Failed DEF FieldPromise, RefuseBase
<1>9. CASE AcceptType
  <2>1. phase = "analyze" /\ phase' = "lower" /\ UNCHANGED <<field, override>>
    BY <1>9 DEF AcceptType, AnalysisDone
  <2> QED BY <1>9, <2>1, TypeTaken, AttrsKept DEF FieldPromise
<1>10. CASE RefuseType
  BY <1>10, TypeRight, Failed DEF FieldPromise, RefuseType
<1>11. CASE NormalizeWrapper
  <2>1. phase = "lower" /\ phase' = phase /\ UNCHANGED <<field, override>>
    BY <1>11 DEF NormalizeWrapper, Lowering
  <2> QED BY <1>11, <2>1, WrapperTaken, AttrsKept DEF FieldPromise
<1>12. CASE LowerLeaf
  <2>1. phase = "lower" /\ phase' = phase /\ UNCHANGED <<field, override>>
    BY <1>12 DEF LowerLeaf, Lowering
  <2> QED BY <1>12, <2>1, LeafTaken, AttrsKept DEF FieldPromise
<1>13. CASE RefuseLeaf
  BY <1>13, LeafRefusedRight, Failed DEF FieldPromise, RefuseLeaf
<1>14. CASE FinishField
  <2>1. /\ phase = "lower" /\ phase' = "lowered"
        /\ UNCHANGED <<field, override, work, rest, analyzed, norm, lowered>>
    BY <1>14 DEF FinishField, analysis, lowering
  <2>2. AttrInv'
    BY <2>1, AttrsKept DEF FieldPromise
  <2>3. UNCHANGED <<RootFirst, BinaryFits>> /\ \A p : LeafFits(p)' = LeafFits(p)
    BY <2>1 DEF RootFirst, BinaryFits, LeafFits
  <2> QED BY <2>1, <2>2, <2>3 DEF FieldPromise, AnalyzeInv, LowerInv
<1> QED BY <1>1, <1>2, <1>3, <1>4, <1>5, <1>6, <1>7, <1>8, <1>9, <1>10, <1>11, <1>12, <1>13, <1>14
        DEF FieldNext, Attributes, Analysis, Leaves

-----------------------------------------------------------------------------
(* How the lowering of a field ends.                                       *)

TreeOf(f, tree) == DOMAIN tree = DOMAIN f.ty /\ \A p \in DOMAIN tree : LoweredFrom(f, p, tree[p])

LEMMA KeptByAttr ==
  ASSUME NEW f, WellFormedField(f), AttrsAccepted(f)
  PROVE  Kept(f) <=> AttrOf(f).key # "skip"
<1>1. CASE f.attrs = <<>>
  <2>1. DOMAIN f.attrs = {} /\ NoAttr.key = "none"
    BY <1>1 DEF NoAttr
  <2> QED BY <1>1, <2>1 DEF Kept, AttrOf
<1>2. CASE f.attrs # <<>>
  <2>1. DOMAIN f.attrs = {1}
    BY <1>2, AttrsWritten DEF AttrsAccepted
  <2>2. AttrOf(f).key = f.attrs[1].key
    BY <1>2 DEF AttrOf, FieldAttr
  <2> QED BY <2>1, <2>2 DEF Kept
<1> QED BY <1>1, <1>2

LEMMA FieldSettled ==
  ASSUME FieldInv, FieldPromise, phase = "lowered"
  PROVE  FieldAccepted(field) /\ Kept(field) /\ TreeOf(field, lowered)
<1>1. WellFormedField(field)
  BY FieldWritten DEF FieldInv
<1>2. AttrsAccepted(field) /\ override = AttrOf(field) /\ override.key # "skip"
  BY DEF FieldPromise, AttrInv
<1>3. Closed(field.ty, DOMAIN lowered, <<>>)
  BY DEF FieldInv, Visiting, Lowerable
<1>4. DOMAIN lowered = DOMAIN field.ty
  BY <1>1, <1>3, AllVisited
<1>5. TreeOf(field, lowered)
  BY <1>4 DEF TreeOf, FieldPromise, LowerInv
<1>6. NodesFit(field.ty) /\ \A p \in DOMAIN field.ty : LeafFits(p)
  BY <1>4 DEF FieldPromise, LowerInv
<1>7. ConversionAccepted(override.key, field.ty)
  <2>1. CASE override.key = "none"
    <3>1. \A p \in DOMAIN field.ty : field.ty[p].base \notin Bytes
      BY <1>6, <2>1 DEF LeafFits
    <3> QED BY <2>1, <3>1 DEF ConversionAccepted, PlainLeaves
  <2>2. CASE override.key # "none"
    BY <1>1, <1>6, <2>2 DEF LeafFits, WellFormedField
  <2> QED BY <2>1, <2>2
<1> QED BY <1>1, <1>2, <1>5, <1>6, <1>7, AcceptedAs, KeptByAttr DEF TypeFits

LEMMA FieldLeftOut ==
  ASSUME FieldInv, FieldPromise, phase = "skipped"
  PROVE  FieldAccepted(field) /\ ~Kept(field)
<1>1. WellFormedField(field)
  BY FieldWritten DEF FieldInv
<1>2. AttrsAccepted(field) /\ AttrOf(field).key = "skip"
  BY DEF FieldPromise, AttrInv
<1> QED BY <1>1, <1>2, AcceptedAs, KeptByAttr

-----------------------------------------------------------------------------
(* The fields of a struct: those before the current one were accepted, and *)
(* the ones that are kept are lowered, in the order they are declared in.  *)

Declared  == Len(input.fields)
Done      == Declared - Len(todo)
IRFor(ir, n) ==
  ir.name \in 1 .. n /\ Kept(input.fields[ir.name]) /\ TreeOf(input.fields[ir.name], ir.tree)
InOrder(irs) == \A j, k \in DOMAIN irs : j < k => irs[j].name < irs[k].name
FieldsRead ==
  /\ Len(todo) <= Declared
  /\ \A i \in 1 .. Len(todo) : todo[i] = input.fields[Done + i]
  /\ phase # "none" => field = Head(todo)
  /\ \A i \in 1 .. Done : FieldAccepted(input.fields[i])
IRsRead ==
  /\ \A k \in DOMAIN fields : IRFor(fields[k], Done)
  /\ InOrder(fields)
  /\ \A i \in 1 .. Done : Kept(input.fields[i]) => \E k \in DOMAIN fields : fields[k].name = i
FieldsAccepted == \A i \in 1 .. Declared : FieldAccepted(input.fields[i])
FieldsInv ==
  /\ stage = "config" => todo = <<>> /\ fields = <<>>
  /\ stage \in {"config", "fields"} => columns = <<>>
  /\ stage \in {"fields", "project", "derived"} => input.kind = "struct"
  /\ stage = "fields" => FieldsRead /\ IRsRead
  /\ stage \in {"project", "derived"} => FieldsAccepted

LEMMA InputWritten ==
  ASSUME input \in Inputs
  PROVE  /\ Declared \in Nat /\ input.fields \in Seq(Written) /\ DOMAIN input.fields = 1 .. Declared
         /\ \A i \in 1 .. Declared : WellFormedField(input.fields[i]) /\ input.fields[i].name = i
<1>1. input.fields \in Seq(Written)
  BY InputAssumption DEF Written, RangeOf
<1>2. Declared \in Nat /\ DOMAIN input.fields = 1 .. Declared
  BY <1>1 DEF Declared
<1> QED BY <1>1, <1>2, InputAssumption

(* The field that is lowered is the first that is not done.                *)
LEMMA CurrentField ==
  ASSUME FieldInv, FieldsRead, todo # <<>>
  PROVE  /\ Declared \in Nat /\ Done \in Nat /\ Done + 1 \in 1 .. Declared
         /\ Head(todo) = input.fields[Done + 1]
         /\ Head(todo).name = Done + 1
         /\ Tail(todo) \in Seq(Written) /\ Len(Tail(todo)) = Len(todo) - 1
         /\ Len(Tail(todo)) <= Declared
         /\ Declared - Len(Tail(todo)) = Done + 1
         /\ \A i \in 1 .. Len(Tail(todo)) : Tail(todo)[i] = input.fields[Done + 1 + i]
<1>1. todo \in Seq(Written) /\ input \in Inputs
  BY DEF FieldInv, Source
<1>2. Declared \in Nat /\ \A i \in 1 .. Declared : input.fields[i].name = i
  BY <1>1, InputWritten
<1>3. /\ Head(todo) = todo[1] /\ Tail(todo) \in Seq(Written) /\ Len(Tail(todo)) = Len(todo) - 1
      /\ Len(todo) \in Nat \ {0} /\ \A i \in 1 .. Len(todo) - 1 : Tail(todo)[i] = todo[i + 1]
  BY <1>1, HeadAndTail
<1>4. PICK n : n = Len(todo)
  OBVIOUS
<1>5. n \in Nat \ {0} /\ n <= Declared /\ Done = Declared - n
  BY <1>3, <1>4 DEF FieldsRead, Done
<1>6. Done \in Nat /\ Done + 1 \in 1 .. Declared /\ Declared - (n - 1) = Done + 1 /\ n - 1 <= Declared
  BY <1>2, <1>5
<1>7. Head(todo) = input.fields[Done + 1]
  BY <1>3, <1>4, <1>5 DEF FieldsRead
<1>8. ASSUME NEW i \in 1 .. n - 1 PROVE Tail(todo)[i] = input.fields[Done + 1 + i]
  <2>1. i + 1 \in 1 .. n /\ Done + (i + 1) = Done + 1 + i
    BY <1>5, <1>6
  <2>2. Tail(todo)[i] = todo[i + 1]
    BY <1>3, <1>4
  <2> QED BY <1>4, <2>1, <2>2 DEF FieldsRead
<1> QED BY <1>2, <1>3, <1>4, <1>6, <1>7, <1>8

LEMMA StructBegun ==
  ASSUME FieldInv, FieldsInv, ParseStruct
  PROVE  FieldsInv'
<1>1. /\ stage = "config" /\ stage' = "fields" /\ todo' = input.fields /\ input' = input
      /\ input.kind = "struct" /\ phase' = phase /\ phase = "none"
      /\ fields' = fields /\ fields = <<>> /\ columns' = columns /\ columns = <<>>
  BY DEF ParseStruct, fieldVars, projectVars, FieldInv, Source, FieldsInv
<1>2. input \in Inputs
  BY DEF FieldInv, Source
<1>3. Declared \in Nat /\ Len(todo') = Declared /\ Done' = 0 /\ Declared' = Declared
  BY <1>1, <1>2, InputWritten DEF Declared, Done
<1>4. \A i \in 1 .. Declared : todo'[i] = input.fields[0 + i]
  BY <1>1, <1>3
<1>5. FieldsRead'
  BY <1>1, <1>3, <1>4 DEF FieldsRead
<1>6. IRsRead'
  <2>1. DOMAIN fields' = {} /\ 1 .. 0 = {}
    BY <1>1
  <2> QED BY <1>3, <2>1 DEF IRsRead, InOrder
<1> QED BY <1>1, <1>5, <1>6 DEF FieldsInv

LEMMA FieldBegun ==
  ASSUME FieldsInv, StartField
  PROVE  FieldsInv' /\ FieldPromise'
<1>1. /\ stage = "fields" /\ stage' = stage /\ field' = Head(todo) /\ phase' = "attributes"
      /\ items' = field'.attrs /\ override' = NoAttr /\ peeled' = NothingPeeled /\ norm' = NormalStart
      /\ UNCHANGED <<input, todo, fields, columns>>
  BY DEF StartField, LoadField, projectVars
<1>2. FieldsRead' /\ IRsRead'
  BY <1>1 DEF FieldsInv, FieldsRead, IRsRead, InOrder, Done, Declared, IRFor, TreeOf
<1>3. FieldPromise'
  BY <1>1 DEF FieldPromise, AttrInv, AttrsRead, AnalyzeInv, LowerInv
<1> QED BY <1>1, <1>2, <1>3 DEF FieldsInv

LEMMA FieldGoesOn ==
  ASSUME FieldsInv, FieldStep
  PROVE  FieldsInv'
<1>1. /\ stage = "fields" /\ stage' = stage /\ phase # "none" /\ field' = field
      /\ UNCHANGED <<input, todo, fields, columns>>
  BY DEF FieldStep, projectVars, FieldNext, Attributes, Analysis, Leaves, ReadItem, RefuseItem, SkipField,
         IncludeField, PeelWrapper, Peeling, RefuseMutRef, AnalyzeBase, AtBase, RefuseBase, AcceptType,
         AnalysisDone, RefuseType, NormalizeWrapper, Lowering, LowerLeaf, RefuseLeaf, FinishField, Fail
<1>2. FieldsRead'
  BY <1>1 DEF FieldsInv, FieldsRead, Done, Declared
<1>3. IRsRead'
  BY <1>1 DEF FieldsInv, IRsRead, InOrder, Done, Declared, IRFor, TreeOf
<1> QED BY <1>1, <1>2, <1>3 DEF FieldsInv

(* One more field is accepted, and kept or left out.                       *)
LEMMA OneMoreRead ==
  ASSUME FieldInv, FieldsInv, stage = "fields", todo # <<>>, FieldAccepted(field), phase # "none",
         todo' = Tail(todo), phase' = "none", input' = input
  PROVE  FieldsRead' /\ Declared' = Declared /\ Done' = Done + 1 /\ field = input.fields[Done + 1]
           /\ field.name = Done + 1 /\ Done \in Nat
<1>1. FieldsRead
  BY DEF FieldsInv
<1>2. /\ Declared \in Nat /\ Done \in Nat /\ Done + 1 \in 1 .. Declared
      /\ Head(todo) = input.fields[Done + 1] /\ Head(todo).name = Done + 1
      /\ Len(Tail(todo)) <= Declared /\ Declared - Len(Tail(todo)) = Done + 1
      /\ \A i \in 1 .. Len(Tail(todo)) : Tail(todo)[i] = input.fields[Done + 1 + i]
  BY <1>1, CurrentField
<1>3. Declared' = Declared /\ Done' = Done + 1
  BY <1>2 DEF Declared, Done
<1>4. field = input.fields[Done + 1] /\ field.name = Done + 1
  BY <1>1, <1>2 DEF FieldsRead
<1>5. \A i \in 1 .. Done + 1 : FieldAccepted(input.fields[i])
  <2> TAKE i \in 1 .. Done + 1
  <2>1. i \in 1 .. Done \/ i = Done + 1
    BY <1>2
  <2> QED BY <1>1, <1>4, <2>1 DEF FieldsRead
<1>6. FieldsRead'
  BY <1>2, <1>3, <1>5 DEF FieldsRead
<1> QED BY <1>2, <1>3, <1>4, <1>6

LEMMA KeptRead ==
  ASSUME FieldInv, ProjectInv, FieldPromise, FieldsInv, KeepField
  PROVE  FieldsInv'
<1>1. /\ stage = "fields" /\ stage' = stage /\ phase = "lowered" /\ phase' = "none"
      /\ fields' = Append(fields, FieldIR) /\ todo' = Tail(todo) /\ UNCHANGED <<input, columns>>
  BY DEF KeepField
<1>2. todo # <<>> /\ FieldsRead /\ IRsRead
  BY <1>1 DEF FieldInv, Source, FieldsInv
<1>3. FieldAccepted(field) /\ Kept(field) /\ TreeOf(field, lowered)
  BY <1>1, FieldSettled
<1>4. /\ FieldsRead' /\ Declared' = Declared /\ Done' = Done + 1 /\ Done \in Nat
      /\ field = input.fields[Done + 1] /\ field.name = Done + 1
  BY <1>1, <1>2, <1>3, OneMoreRead
<1>5. PICK S : fields \in Seq(S) /\ FieldIR \in S
  <2>1. fields \in Seq(RangeOf(fields) \union {FieldIR})
    BY DEF ProjectInv, Waiting
  <2> QED BY <2>1
<1>6. PICK n : n = Len(fields)
  OBVIOUS
<1>7. /\ n \in Nat /\ DOMAIN fields = 1 .. n /\ DOMAIN fields' = 1 .. n + 1
      /\ \A k \in 1 .. n : fields'[k] = fields[k]
      /\ fields'[n + 1] = FieldIR
  BY <1>1, <1>5, <1>6
<1>8. FieldIR.name = Done + 1 /\ FieldIR.tree = lowered
  BY <1>4 DEF FieldIR
<1>9. ASSUME NEW k \in DOMAIN fields' PROVE IRFor(fields'[k], Done + 1)
  <2>1. CASE k \in 1 .. n
    <3>1. IRFor(fields[k], Done)
      BY <1>2, <1>7, <2>1 DEF IRsRead
    <3>2. 1 .. Done \subseteq 1 .. Done + 1
      BY <1>4
    <3> QED BY <1>7, <2>1, <3>1, <3>2 DEF IRFor
  <2>2. CASE k = n + 1
    <3>1. Done + 1 \in 1 .. Done + 1
      BY <1>4
    <3> QED BY <1>3, <1>4, <1>7, <1>8, <2>2, <3>1 DEF IRFor
  <2> QED BY <1>7, <2>1, <2>2
<1>10. InOrder(fields')
  <2>1. ASSUME NEW j \in DOMAIN fields', NEW k \in DOMAIN fields', j < k
        PROVE  fields'[j].name < fields'[k].name
    <3>1. j \in 1 .. n
      BY <1>7, <2>1
    <3>2. CASE k \in 1 .. n
      BY <1>2, <1>7, <2>1, <3>1, <3>2 DEF IRsRead, InOrder
    <3>3. CASE k = n + 1
      <4>1. fields[j].name \in 1 .. Done
        BY <1>2, <1>7, <3>1 DEF IRsRead, IRFor
      <4>2. fields'[k].name = Done + 1 /\ fields'[j] = fields[j]
        BY <1>7, <1>8, <3>1, <3>3
      <4> QED BY <1>4, <4>1, <4>2
    <3> QED BY <1>7, <3>2, <3>3
  <2> QED BY <2>1 DEF InOrder
<1>11. ASSUME NEW i \in 1 .. Done + 1, Kept(input.fields[i])
       PROVE  \E k \in DOMAIN fields' : fields'[k].name = i
  <2>1. CASE i \in 1 .. Done
    <3>1. PICK k \in DOMAIN fields : fields[k].name = i
      BY <1>2, <1>11, <2>1 DEF IRsRead
    <3> QED BY <1>7, <3>1
  <2>2. CASE i = Done + 1
    BY <1>7, <1>8, <2>2
  <2> QED BY <1>4, <2>1, <2>2
<1>12. IRsRead'
  <2>1. \A k \in DOMAIN fields' : IRFor(fields[k], Done)'
    BY <1>1, <1>4, <1>9 DEF IRFor, TreeOf
  <2>2. \A i \in 1 .. Done' : Kept(input'.fields[i]) => \E k \in DOMAIN fields' : fields'[k].name = i
    BY <1>1, <1>4, <1>11
  <2> QED BY <1>10, <2>1, <2>2 DEF IRsRead
<1> QED BY <1>1, <1>4, <1>12 DEF FieldsInv

LEMMA LeftOutRead ==
  ASSUME FieldInv, FieldPromise, FieldsInv, DropField
  PROVE  FieldsInv'
<1>1. /\ stage = "fields" /\ stage' = stage /\ phase = "skipped" /\ phase' = "none"
      /\ todo' = Tail(todo) /\ UNCHANGED <<input, fields, columns>>
  BY DEF DropField, projectVars
<1>2. todo # <<>> /\ FieldsRead /\ IRsRead
  BY <1>1 DEF FieldInv, Source, FieldsInv
<1>3. FieldAccepted(field) /\ ~Kept(field)
  BY <1>1, FieldLeftOut
<1>4. /\ FieldsRead' /\ Declared' = Declared /\ Done' = Done + 1 /\ Done \in Nat
      /\ field = input.fields[Done + 1]
  BY <1>1, <1>2, <1>3, OneMoreRead
<1>5. ASSUME NEW k \in DOMAIN fields PROVE IRFor(fields[k], Done + 1)
  <2>1. IRFor(fields[k], Done)
    BY <1>2 DEF IRsRead
  <2>2. 1 .. Done \subseteq 1 .. Done + 1
    BY <1>4
  <2> QED BY <2>1, <2>2 DEF IRFor
<1>6. ASSUME NEW i \in 1 .. Done + 1, Kept(input.fields[i])
      PROVE  \E k \in DOMAIN fields : fields[k].name = i
  <2>1. i \in 1 .. Done
    BY <1>3, <1>4, <1>6
  <2> QED BY <1>2, <1>6, <2>1 DEF IRsRead
<1>7. IRsRead'
  <2>1. \A k \in DOMAIN fields' : IRFor(fields[k], Done)'
    BY <1>1, <1>4, <1>5 DEF IRFor, TreeOf
  <2>2. \A i \in 1 .. Done' : Kept(input'.fields[i]) => \E k \in DOMAIN fields' : fields'[k].name = i
    BY <1>1, <1>4, <1>6
  <2> QED BY <1>1, <1>2, <2>1, <2>2 DEF IRsRead
<1> QED BY <1>1, <1>4, <1>7 DEF FieldsInv

LEMMA AllRead ==
  ASSUME FieldInv, FieldsInv, AllLowered
  PROVE  FieldsInv' /\ Done = Declared
<1>1. /\ stage = "fields" /\ stage' = "project" /\ todo = <<>> /\ UNCHANGED <<input, columns>>
  BY DEF AllLowered, projectVars
<1>2. Declared \in Nat /\ Declared' = Declared
  BY <1>1, InputWritten DEF FieldInv, Source, Declared
<1>3. Done = Declared
  <2>1. Len(<<>>) = 0
    OBVIOUS
  <2> QED BY <1>1, <1>2, <2>1 DEF Done
<1>4. FieldsAccepted'
  BY <1>1, <1>2, <1>3 DEF FieldsInv, FieldsRead, FieldsAccepted
<1> QED BY <1>1, <1>3, <1>4 DEF FieldsInv

-----------------------------------------------------------------------------
(* The attributes of the struct: the overrides in the slots are the items  *)
(* read so far, each with a key of its own, and reading ends in a refusal  *)
(* exactly if the items are not accepted.                                  *)

AllItems == Len(container.items)
ItemsDone == AllItems - Len(unread)
ItemFits(i) == container.items[i].key \in C!OverrideKeys /\ container.items[i].path # C!NoPath
SlotsRead ==
  /\ Len(unread) <= AllItems
  /\ \A i \in 1 .. Len(unread) : unread[i] = container.items[ItemsDone + i]
  /\ \A i \in 1 .. ItemsDone : /\ ItemFits(i) /\ container.items[i].key \in DOMAIN slots
                               /\ slots[container.items[i].key] = container.items[i].path
  /\ \A i, j \in 1 .. ItemsDone : container.items[i].key = container.items[j].key => i = j
  /\ \A k \in DOMAIN slots : \E i \in 1 .. ItemsDone : container.items[i].key = k
ConfigInv ==
  /\ SlotsRead
  /\ refusal # "none" => ~ContainerAccepted(container)
  /\ config # C!NoConfig => ContainerAccepted(container)

LEMMA AtMostOne ==
  ASSUME NEW S, IsFiniteSet(S)
  PROVE  Cardinality(S) <= 1 <=> \A x, y \in S : x = y
<1>1. ASSUME NEW x \in S, NEW y \in S, x # y PROVE ~(Cardinality(S) <= 1)
  <2>1. Cardinality(S \ {x}) = Cardinality(S) - 1 /\ IsFiniteSet(S \ {x})
    BY FS_RemoveElement
  <2>2. Cardinality(S \ {x}) # 0 /\ Cardinality(S \ {x}) \in Nat
    BY <1>1, <2>1, FS_EmptySet, FS_CardinalityType
  <2>3. Cardinality(S) \in Nat
    BY FS_CardinalityType
  <2> QED BY <2>1, <2>2, <2>3
<1>2. ASSUME \A x, y \in S : x = y PROVE Cardinality(S) <= 1
  <2>1. CASE S = {}
    BY <2>1, FS_EmptySet
  <2>2. CASE S # {}
    <3>1. PICK x : S = {x}
      BY <1>2, <2>2
    <3> QED BY <3>1, FS_Singleton
  <2> QED BY <2>1, <2>2
<1> QED BY <1>1, <1>2

LEMMA ItemsWritten ==
  ASSUME SlotsWritten
  PROVE  /\ container.items \in Seq(Items) /\ AllItems \in Nat /\ DOMAIN container.items = 1 .. AllItems
         /\ \A key : IsFiniteSet(OverridesOf(container, key))
<1>1. container.items \in Seq(Items)
  <2>1. input \in Inputs /\ container = input.container
    BY DEF SlotsWritten
  <2>2. input.container.items \in Seq({input.container.items[k] : k \in DOMAIN input.container.items})
    BY <2>1, InputAssumption, Zenon
  <2> QED BY <2>1, <2>2 DEF Items
<1>2. AllItems \in Nat /\ DOMAIN container.items = 1 .. AllItems
  BY <1>1 DEF AllItems
<1>3. ASSUME NEW key PROVE IsFiniteSet(OverridesOf(container, key))
  <2>1. OverridesOf(container, key) \subseteq 1 .. AllItems /\ IsFiniteSet(1 .. AllItems)
    BY <1>2, FS_Interval DEF OverridesOf
  <2> QED BY <2>1, FS_Subset
<1> QED BY <1>1, <1>2, <1>3

(* The item that is read is the first that is not done.                    *)
LEMMA CurrentItem ==
  ASSUME SlotsWritten, SlotsRead, unread # <<>>
  PROVE  /\ ItemsDone \in Nat /\ ItemsDone + 1 \in 1 .. AllItems
         /\ Head(unread) = container.items[ItemsDone + 1]
         /\ Len(Tail(unread)) <= AllItems
         /\ AllItems - Len(Tail(unread)) = ItemsDone + 1
         /\ \A i \in 1 .. Len(Tail(unread)) : Tail(unread)[i] = container.items[ItemsDone + 1 + i]
<1>1. AllItems \in Nat
  BY ItemsWritten
<1>2. /\ Head(unread) = unread[1] /\ Len(Tail(unread)) = Len(unread) - 1
      /\ Len(unread) \in Nat \ {0} /\ \A i \in 1 .. Len(unread) - 1 : Tail(unread)[i] = unread[i + 1]
  <2>1. unread \in Seq(Items)
    BY DEF SlotsWritten
  <2> QED BY <2>1, HeadAndTail
<1>3. PICK n : n = Len(unread)
  OBVIOUS
<1>4. n \in Nat \ {0} /\ n <= AllItems /\ ItemsDone = AllItems - n
  BY <1>2, <1>3 DEF SlotsRead, ItemsDone
<1>5. ItemsDone \in Nat /\ ItemsDone + 1 \in 1 .. AllItems /\ AllItems - (n - 1) = ItemsDone + 1 /\ n - 1 <= AllItems
  BY <1>1, <1>4
<1>6. Head(unread) = container.items[ItemsDone + 1]
  BY <1>2, <1>3, <1>4 DEF SlotsRead
<1>7. ASSUME NEW i \in 1 .. n - 1 PROVE Tail(unread)[i] = container.items[ItemsDone + 1 + i]
  <2>1. i + 1 \in 1 .. n /\ ItemsDone + (i + 1) = ItemsDone + 1 + i
    BY <1>4, <1>5
  <2>2. Tail(unread)[i] = unread[i + 1]
    BY <1>2, <1>3
  <2> QED BY <1>3, <2>1, <2>2 DEF SlotsRead
<1> QED BY <1>2, <1>3, <1>5, <1>6, <1>7

LEMMA ItemTakenIn ==
  ASSUME ContainerInv, ConfigInv, C!ReadOverride
  PROVE  ConfigInv'
<1> DEFINE item == Head(unread)
           n    == ItemsDone
           its  == container.items
<1>1. /\ refusal = "none" /\ config = C!NoConfig /\ unread # <<>> /\ C!ItemRefused(item) = "none"
      /\ slots' = [k \in DOMAIN slots \union {item.key} |-> IF k = item.key THEN item.path ELSE slots[k]]
      /\ unread' = Tail(unread) /\ UNCHANGED <<container, config, refusal>>
  BY DEF C!ReadOverride, C!Reading
<1>2. /\ n \in Nat /\ n + 1 \in 1 .. AllItems /\ item = its[n + 1]
      /\ Len(Tail(unread)) <= AllItems /\ AllItems - Len(Tail(unread)) = n + 1
      /\ \A i \in 1 .. Len(Tail(unread)) : Tail(unread)[i] = its[n + 1 + i]
  BY <1>1, CurrentItem DEF ContainerInv, ConfigInv
<1>3. item.key \in C!OverrideKeys /\ item.path # C!NoPath /\ item.key \notin DOMAIN slots
  BY <1>1 DEF C!ItemRefused
<1>4. ItemsDone' = n + 1 /\ AllItems' = AllItems
  BY <1>1, <1>2 DEF ItemsDone, AllItems
<1> HIDE DEF item, n, its
<1>5. SlotsRead
  BY DEF ConfigInv
<1>6. ASSUME NEW i \in 1 .. n
      PROVE  /\ ItemFits(i) /\ its[i].key \in DOMAIN slots' /\ slots'[its[i].key] = its[i].path
             /\ its[i].key # item.key
  <2>1. ItemFits(i) /\ its[i].key \in DOMAIN slots /\ slots[its[i].key] = its[i].path
    BY <1>5 DEF SlotsRead, n, its
  <2> QED BY <1>1, <1>3, <2>1
<1>7. ItemFits(n + 1) /\ its[n + 1].key \in DOMAIN slots' /\ slots'[its[n + 1].key] = its[n + 1].path
  BY <1>1, <1>2, <1>3 DEF ItemFits, its
<1>8. \A i \in 1 .. n + 1 : i \in 1 .. n \/ i = n + 1
  BY <1>2
<1>9. ASSUME NEW i \in 1 .. n + 1, NEW j \in 1 .. n + 1, its[i].key = its[j].key PROVE i = j
  <2>1. i \in 1 .. n /\ j \in 1 .. n => i = j
    BY <1>5, <1>9 DEF SlotsRead, n, its
  <2> QED BY <1>2, <1>6, <1>8, <1>9, <2>1
<1>10. ASSUME NEW k \in DOMAIN slots' PROVE \E i \in 1 .. n + 1 : its[i].key = k
  <2>1. CASE k = item.key
    <3>1. n + 1 \in 1 .. n + 1
      BY <1>2
    <3> QED BY <1>2, <2>1, <3>1
  <2>2. CASE k # item.key
    <3>1. PICK i \in 1 .. n : its[i].key = k
      BY <1>1, <1>5, <2>2 DEF SlotsRead, n, its
    <3>2. i \in 1 .. n + 1
      BY <1>2
    <3> QED BY <3>1, <3>2
  <2> QED BY <2>1, <2>2
<1>11. \A i : ItemFits(i)' = ItemFits(i)
  BY <1>1 DEF ItemFits
<1>12. its' = its
  BY <1>1 DEF its
<1>13. SlotsRead'
  <2>1. Len(unread') <= AllItems' /\ \A i \in 1 .. Len(unread') : unread'[i] = its'[ItemsDone' + i]
    BY <1>1, <1>2, <1>4, <1>12
  <2>2. \A i \in 1 .. ItemsDone' : /\ ItemFits(i)' /\ its'[i].key \in DOMAIN slots'
                                   /\ slots'[its'[i].key] = its'[i].path
    BY <1>4, <1>6, <1>7, <1>8, <1>11, <1>12
  <2>3. \A i, j \in 1 .. ItemsDone' : its'[i].key = its'[j].key => i = j
    BY <1>4, <1>9, <1>12
  <2>4. \A k \in DOMAIN slots' : \E i \in 1 .. ItemsDone' : its'[i].key = k
    BY <1>4, <1>10, <1>12
  <2> QED BY <2>1, <2>2, <2>3, <2>4 DEF SlotsRead, its
<1> QED BY <1>1, <1>13 DEF ConfigInv

LEMMA ItemRefusedIn ==
  ASSUME ContainerInv, ConfigInv, C!RefuseOverride
  PROVE  ~ContainerAccepted(container)
<1> DEFINE item == Head(unread)
           n    == ItemsDone
           its  == container.items
<1>1. unread # <<>> /\ C!ItemRefused(item) # "none"
  BY DEF C!RefuseOverride
<1>2. n \in Nat /\ n + 1 \in 1 .. AllItems /\ item = its[n + 1]
  BY <1>1, CurrentItem DEF ContainerInv, ConfigInv
<1>3. DOMAIN its = 1 .. AllItems /\ \A key : IsFiniteSet(OverridesOf(container, key))
  BY ItemsWritten DEF ContainerInv
<1>4. ~ItemFits(n + 1) \/ (ItemFits(n + 1) /\ item.key \in DOMAIN slots)
  BY <1>1, <1>2 DEF C!ItemRefused, ItemFits
<1> HIDE DEF item, n
<1>5. CASE ~ItemFits(n + 1)
  BY <1>2, <1>3, <1>5 DEF ContainerAccepted, ItemFits
<1>6. CASE ItemFits(n + 1) /\ item.key \in DOMAIN slots
  <2>1. PICK i \in 1 .. n : its[i].key = item.key
    BY <1>6 DEF ConfigInv, SlotsRead, n
  <2>2. i \in 1 .. AllItems /\ i # n + 1
    <3>1. AllItems \in Nat
      BY ItemsWritten DEF ContainerInv
    <3> QED BY <1>2, <2>1, <3>1
  <2>3. {i, n + 1} \subseteq OverridesOf(container, item.key)
    BY <1>2, <1>3, <2>1, <2>2 DEF OverridesOf
  <2>4. ~(Cardinality(OverridesOf(container, item.key)) <= 1)
    BY <1>3, <2>2, <2>3, AtMostOne
  <2>5. item.key \in C!OverrideKeys
    BY <1>2, <1>6 DEF ItemFits
  <2> QED BY <2>4, <2>5 DEF ContainerAccepted
<1> QED BY <1>4, <1>5, <1>6

LEMMA ModuleNamed ==
  ASSUME NEW path, NEW name, NEW mod \in C!BuiltinMods
  PROVE  C!TraitModule(path, name) = mod <=> IsTrait(path, mod, name)
BY BuiltinNamed DEF C!TraitModule, IsTrait

(* Once all items are read, the checks between the overrides decide.       *)
LEMMA OverridesSettled ==
  ASSUME ContainerInv, ConfigInv, unread = <<>>
  PROVE  C!OverridesRefused = "none" <=> ContainerAccepted(container)
<1> DEFINE its == container.items
           Of(key) == OverridesOf(container, key)
<1>1. /\ AllItems \in Nat /\ DOMAIN its = 1 .. AllItems
      /\ \A key : IsFiniteSet(Of(key))
  BY ItemsWritten DEF ContainerInv
<1>2. ItemsDone = AllItems
  <2>1. Len(<<>>) = 0
    OBVIOUS
  <2> QED BY <1>1, <2>1 DEF ItemsDone
<1>3. /\ \A i \in DOMAIN its : /\ ItemFits(i) /\ its[i].key \in DOMAIN slots
                               /\ slots[its[i].key] = its[i].path
      /\ \A i, j \in DOMAIN its : its[i].key = its[j].key => i = j
      /\ \A k \in DOMAIN slots : \E i \in DOMAIN its : its[i].key = k
  BY <1>1, <1>2 DEF ConfigInv, SlotsRead
<1>4. \A key : Cardinality(Of(key)) <= 1
  <2> TAKE key
  <2>1. \A i, j \in Of(key) : i = j
    BY <1>3 DEF OverridesOf
  <2> QED BY <1>1, <2>1, AtMostOne
<1>5. \A i \in DOMAIN its : its[i].key \in C!OverrideKeys /\ its[i].path # C!NoPath
  BY <1>3 DEF ItemFits
<1>6. \A key : C!Overridden(key) <=> Of(key) # {}
  BY <1>3 DEF C!Overridden, OverridesOf
<1>7. \A key : \A i \in Of(key) : its[i].path = slots[key]
  BY <1>3 DEF OverridesOf
<1> DEFINE Agree == \A i \in Of("trait"), j \in Of("columnar"), mod \in C!BuiltinMods :
                      IsTrait(its[i].path, mod, "ToDataFrame") <=> IsTrait(its[j].path, mod, "Columnar")
           to_df    == C!TraitModule(slots["trait"], "ToDataFrame")
           columnar == C!TraitModule(slots["columnar"], "Columnar")
<1>8. ContainerAccepted(container) <=> (Of("columnar") # {} => Of("trait") # {}) /\ Agree
  BY <1>4, <1>5 DEF ContainerAccepted
<1>9. C!MixedRuntime <=> C!Overridden("trait") /\ C!Overridden("columnar")
                           /\ {to_df, columnar} \cap C!BuiltinMods # {} /\ to_df # columnar
  BY DEF C!MixedRuntime
<1>10. Agree <=> (Of("trait") # {} /\ Of("columnar") # {} =>
                    \A mod \in C!BuiltinMods : to_df = mod <=> columnar = mod)
  <2>1. ASSUME NEW i \in Of("trait"), NEW j \in Of("columnar"), NEW mod \in C!BuiltinMods
        PROVE  /\ IsTrait(its[i].path, mod, "ToDataFrame") <=> to_df = mod
               /\ IsTrait(its[j].path, mod, "Columnar") <=> columnar = mod
    <3>1. its[i].path = slots["trait"] /\ its[j].path = slots["columnar"]
      BY <1>7
    <3>2. /\ IsTrait(slots["trait"], mod, "ToDataFrame") <=> to_df = mod
          /\ IsTrait(slots["columnar"], mod, "Columnar") <=> columnar = mod
      BY ModuleNamed
    <3> QED BY <3>1, <3>2
  <2> HIDE DEF to_df, columnar, Of, its
  <2> QED BY <2>1
<1> HIDE DEF to_df, columnar, Of, its, Agree
<1>11. C!MixedRuntime <=> ~Agree
  BY <1>6, <1>9, <1>10
<1>12. CASE C!Overridden("columnar") /\ ~C!Overridden("trait")
  BY <1>6, <1>8, <1>12 DEF C!OverridesRefused
<1>13. CASE ~(C!Overridden("columnar") /\ ~C!Overridden("trait"))
  <2>1. C!OverridesRefused = IF C!MixedRuntime THEN "mixed_runtime" ELSE "none"
    BY <1>13 DEF C!OverridesRefused
  <2> QED BY <1>6, <1>8, <1>11, <1>13, <2>1
<1> QED BY <1>12, <1>13

LEMMA AcceptedStable ==
  ASSUME container' = container
  PROVE  ContainerAccepted(container)' <=> ContainerAccepted(container)
<1>1. (C!BuiltinMods)' = C!BuiltinMods
  BY DEF C!BuiltinMods, C!DataframeMod, C!Root, C!Depends
<1>2. (C!OverrideKeys)' = C!OverrideKeys /\ (C!NoPath)' = C!NoPath
  BY DEF C!OverrideKeys, C!NoPath
<1>3. \A key : OverridesOf(container, key)' = OverridesOf(container, key)
  BY DEF OverridesOf
<1> QED BY <1>1, <1>2, <1>3 DEF ContainerAccepted, IsTrait

LEMMA SlotsKept ==
  ASSUME SlotsRead, UNCHANGED <<container, unread, slots>>
  PROVE  SlotsRead'
BY DEF SlotsRead, AllItems, ItemsDone, ItemFits

LEMMA ConfigKept ==
  ASSUME ConfigInv, UNCHANGED <<container, unread, slots, config, refusal>>
  PROVE  ConfigInv'
<1>1. SlotsRead'
  BY SlotsKept DEF ConfigInv
<1> QED BY <1>1, AcceptedStable DEF ConfigInv

LEMMA ConfigStepSettles ==
  ASSUME ContainerInv, ConfigInv, C!ContainerNext
  PROVE  ConfigInv'
<1>1. CASE C!ReadOverride
  BY <1>1, ItemTakenIn
<1>2. CASE C!RefuseOverride
  <2>1. UNCHANGED <<container, unread, slots, config>> /\ config = C!NoConfig
    BY <1>2 DEF C!RefuseOverride, C!Refuse, C!Reading
  <2>2. SlotsRead' /\ ~ContainerAccepted(container)'
    BY <1>2, <2>1, ItemRefusedIn, SlotsKept, AcceptedStable DEF ConfigInv
  <2>3. config' = C!NoConfig
    BY <2>1
  <2> QED BY <2>2, <2>3 DEF ConfigInv
<1>3. CASE C!BuildConfig
  <2>1. UNCHANGED <<container, unread, slots, refusal>> /\ refusal = "none" /\ unread = <<>>
          /\ C!OverridesRefused = "none"
    BY <1>3 DEF C!BuildConfig, C!Reading
  <2>2. SlotsRead' /\ ContainerAccepted(container)'
    BY <2>1, OverridesSettled, SlotsKept, AcceptedStable DEF ConfigInv
  <2> QED BY <2>1, <2>2 DEF ConfigInv
<1>4. CASE C!RefuseOverrides
  <2>1. UNCHANGED <<container, unread, slots, config>> /\ config = C!NoConfig /\ unread = <<>>
          /\ C!OverridesRefused # "none"
    BY <1>4 DEF C!RefuseOverrides, C!Refuse, C!Reading
  <2>2. SlotsRead' /\ ~ContainerAccepted(container)'
    BY <2>1, OverridesSettled, SlotsKept, AcceptedStable DEF ConfigInv
  <2>3. config' = C!NoConfig
    BY <2>1
  <2> QED BY <2>2, <2>3 DEF ConfigInv
<1> QED BY <1>1, <1>2, <1>3, <1>4 DEF C!ContainerNext

-----------------------------------------------------------------------------
(* Whether a derive succeeds: it leaves the struct's own attributes behind *)
(* once they are accepted, and fails over what is not.                     *)

DeriveAccepted == ContainerAccepted(container) /\ input.kind = "struct" /\ FieldsAccepted
Decided ==
  /\ stage \in {"fields", "project", "derived"} => ContainerAccepted(container)
  /\ stage = "failed" => ~DeriveAccepted
PromiseInv == ConfigInv /\ FieldPromise /\ FieldsInv /\ Decided

LEMMA FieldPromiseKept ==
  ASSUME FieldPromise, UNCHANGED fieldVars
  PROVE  FieldPromise'
<1>1. UNCHANGED <<field, phase, items, override, work, rest, peeled, analyzed, norm, lowered>>
  BY DEF fieldVars, analysis, lowering
<1>2. AttrInv'
  BY <1>1 DEF FieldPromise, AttrInv, AttrsRead
<1>3. AnalyzeInv'
  BY <1>1 DEF FieldPromise, AnalyzeInv, Current
<1>4. LowerInv'
  <2>1. UNCHANGED <<RootFirst, BinaryFits, WrappersOf(Current)>>
    BY <1>1 DEF RootFirst, BinaryFits, WrappersOf, Current, RootWrappers
  <2>2. \A p : LeafFits(p)' = LeafFits(p)
    BY <1>1 DEF LeafFits
  <2> QED BY <1>1, <2>1, <2>2 DEF FieldPromise, LowerInv
<1> QED BY <1>1, <1>2, <1>3, <1>4 DEF FieldPromise

LEMMA NoFieldPromise ==
  ASSUME phase' = "none"
  PROVE  FieldPromise'
BY DEF FieldPromise, AttrInv, AnalyzeInv, LowerInv

LEMMA AcceptedKept ==
  ASSUME UNCHANGED <<input, container>>
  PROVE  /\ FieldsAccepted' <=> FieldsAccepted
         /\ DeriveAccepted' <=> DeriveAccepted
         /\ ContainerAccepted(container)' <=> ContainerAccepted(container)
<1>1. FieldsAccepted' <=> FieldsAccepted
  BY DEF FieldsAccepted, Declared
<1>2. ContainerAccepted(container)' <=> ContainerAccepted(container)
  BY AcceptedStable
<1> QED BY <1>1, <1>2 DEF DeriveAccepted

LEMMA InitPromise == Init => PromiseInv
<1> SUFFICES ASSUME Init PROVE PromiseInv
  OBVIOUS
<1>1. /\ stage = "config" /\ todo = <<>> /\ fields = <<>> /\ columns = <<>> /\ phase = "none"
      /\ container = input.container /\ unread = container.items /\ slots = <<>>
      /\ config = C!NoConfig /\ refusal = "none" /\ input \in Inputs
  BY DEF Init, NothingLoaded, C!ContainerLoaded
<1>2. FieldPromise
  BY <1>1 DEF FieldPromise, AttrInv, AnalyzeInv, LowerInv
<1>3. FieldsInv /\ Decided
  BY <1>1 DEF FieldsInv, Decided
<1>4. AllItems \in Nat /\ ItemsDone = 0
  <2>1. AllItems \in Nat
    BY InitContainer, ItemsWritten DEF ContainerInv
  <2> QED BY <1>1, <2>1 DEF ItemsDone, AllItems
<1>5. SlotsRead
  <2>1. DOMAIN slots = {} /\ 1 .. ItemsDone = {}
    BY <1>1, <1>4
  <2>2. Len(unread) = AllItems /\ \A i \in 1 .. Len(unread) : unread[i] = container.items[ItemsDone + i]
    BY <1>1, <1>4 DEF AllItems
  <2> QED BY <1>4, <2>1, <2>2 DEF SlotsRead
<1>6. ConfigInv
  BY <1>1, <1>5 DEF ConfigInv
<1> QED BY <1>2, <1>3, <1>6 DEF PromiseInv

(* Steps that leave the struct's attributes and the fields alone.          *)
LEMMA ConfigUntouched ==
  ASSUME ConfigInv, UNCHANGED containerVars
  PROVE  ConfigInv'
BY ConfigKept DEF containerVars

LEMMA ConfigStepPromised ==
  ASSUME ContainerInv, PromiseInv, ConfigStep
  PROVE  PromiseInv'
<1>1. /\ stage = "config" /\ stage' = stage /\ C!ContainerNext
      /\ UNCHANGED <<input, todo, fieldVars, fields, columns>>
  BY DEF ConfigStep, projectVars
<1>2. ConfigInv'
  BY <1>1, ConfigStepSettles DEF PromiseInv
<1>3. FieldPromise'
  BY <1>1, FieldPromiseKept DEF PromiseInv
<1>4. FieldsInv' /\ Decided'
  BY <1>1 DEF PromiseInv, FieldsInv, Decided
<1> QED BY <1>2, <1>3, <1>4 DEF PromiseInv

LEMMA StagePromised ==
  ASSUME FieldInv, PromiseInv, ParseStruct \/ ConfigRefused \/ RefuseKind \/ FieldRefused \/ AllLowered \/ AllProjected
  PROVE  PromiseInv'
<1>1. UNCHANGED <<input, container, containerVars, fieldVars>>
  BY DEF ParseStruct, ConfigRefused, RefuseKind, FieldRefused, AllLowered, AllProjected, containerVars
<1>2. ConfigInv' /\ FieldPromise'
  BY <1>1, ConfigUntouched, FieldPromiseKept DEF PromiseInv
<1>3. /\ FieldsAccepted' <=> FieldsAccepted
      /\ DeriveAccepted' <=> DeriveAccepted
      /\ ContainerAccepted(container)' <=> ContainerAccepted(container)
  BY <1>1, AcceptedKept
<1>4. CASE ParseStruct
  <2>1. stage' = "fields" /\ config # C!NoConfig
    BY <1>4 DEF ParseStruct
  <2>2. ContainerAccepted(container)
    BY <2>1 DEF PromiseInv, ConfigInv
  <2>3. FieldsInv'
    BY <1>4, StructBegun DEF PromiseInv
  <2> QED BY <1>2, <1>3, <2>1, <2>2, <2>3 DEF PromiseInv, Decided
<1>5. CASE ConfigRefused
  <2>1. stage' = "failed" /\ refusal # "none"
    BY <1>5 DEF ConfigRefused
  <2>2. ~DeriveAccepted
    BY <2>1 DEF PromiseInv, ConfigInv, DeriveAccepted
  <2> QED BY <1>2, <1>3, <2>1, <2>2 DEF PromiseInv, Decided, FieldsInv
<1>6. CASE RefuseKind
  <2>1. stage' = "failed" /\ input.kind # "struct"
    BY <1>6 DEF RefuseKind
  <2> QED BY <1>2, <1>3, <2>1 DEF PromiseInv, Decided, FieldsInv, DeriveAccepted
<1>7. CASE FieldRefused
  <2>1. stage = "fields" /\ stage' = "failed" /\ phase = "error"
    BY <1>7 DEF FieldRefused
  <2>2. ~FieldAccepted(field) /\ FieldsRead /\ todo # <<>> /\ field = Head(todo)
    BY <2>1 DEF PromiseInv, FieldPromise, FieldsInv, FieldsRead, FieldInv, Source
  <2>3. field = input.fields[Done + 1] /\ Done + 1 \in 1 .. Declared
    BY <2>2, CurrentField
  <2>4. ~DeriveAccepted
    BY <2>2, <2>3 DEF DeriveAccepted, FieldsAccepted
  <2> QED BY <1>2, <1>3, <2>1, <2>4 DEF PromiseInv, Decided, FieldsInv
<1>8. CASE AllLowered
  <2>1. stage = "fields" /\ stage' = "project"
    BY <1>8 DEF AllLowered
  <2>2. FieldsInv'
    BY <1>8, AllRead DEF PromiseInv
  <2> QED BY <1>2, <1>3, <2>1, <2>2 DEF PromiseInv, Decided
<1>9. CASE AllProjected
  <2>1. stage = "project" /\ stage' = "derived" /\ input' = input
    BY <1>9 DEF AllProjected
  <2> QED BY <1>2, <1>3, <2>1 DEF PromiseInv, Decided, FieldsInv
<1> QED BY <1>4, <1>5, <1>6, <1>7, <1>8, <1>9

LEMMA FieldsPromised ==
  ASSUME FieldInv, ProjectInv, PromiseInv, FieldInv', StartField \/ FieldStep \/ KeepField \/ DropField
  PROVE  PromiseInv'
<1>1. UNCHANGED <<input, container, containerVars, stage>> /\ stage = "fields"
  BY DEF StartField, FieldStep, KeepField, DropField, containerVars
<1>2. ConfigInv' /\ Decided'
  BY <1>1, ConfigUntouched, AcceptedKept DEF PromiseInv, Decided
<1>3. CASE StartField
  BY <1>2, <1>3, FieldBegun DEF PromiseInv
<1>4. CASE FieldStep
  BY <1>2, <1>4, FieldGoesOn, FieldStepPromised DEF PromiseInv, FieldStep
<1>5. CASE KeepField
  BY <1>2, <1>5, KeptRead, NoFieldPromise DEF PromiseInv, KeepField
<1>6. CASE DropField
  BY <1>2, <1>6, LeftOutRead, NoFieldPromise DEF PromiseInv, DropField
<1> QED BY <1>3, <1>4, <1>5, <1>6

LEMMA AsidePromised ==
  ASSUME PromiseInv, ProjectStep \/ UNCHANGED vars
  PROVE  PromiseInv'
<1>1. UNCHANGED <<input, container, containerVars, stage, fieldVars, todo>>
  BY DEF ProjectStep, vars, containerVars
<1>2. ConfigInv' /\ Decided' /\ FieldPromise'
  BY <1>1, ConfigUntouched, AcceptedKept, FieldPromiseKept DEF PromiseInv, Decided
<1>3. CASE ProjectStep
  <2>1. stage = "project"
    BY <1>3 DEF ProjectStep
  <2>2. FieldsInv'
    BY <1>1, <2>1, AcceptedKept DEF PromiseInv, FieldsInv
  <2> QED BY <1>2, <2>2 DEF PromiseInv
<1>4. CASE UNCHANGED vars
  <2>1. UNCHANGED <<fields, columns, field, phase>>
    BY <1>4 DEF vars, projectVars, fieldVars
  <2>2. FieldsRead' <=> FieldsRead
    BY <1>1, <2>1 DEF FieldsRead, Done, Declared
  <2>3. IRsRead' <=> IRsRead
    BY <1>1, <2>1 DEF IRsRead, InOrder, IRFor, TreeOf, Done, Declared
  <2>4. FieldsInv'
    BY <1>1, <2>1, <2>2, <2>3, AcceptedKept DEF PromiseInv, FieldsInv
  <2> QED BY <1>2, <2>4 DEF PromiseInv
<1> QED BY <1>3, <1>4

LEMMA NextPromise == ContainerInv /\ FieldInv /\ ProjectInv /\ FieldInv' /\ PromiseInv /\ [Next]_vars => PromiseInv'
<1> SUFFICES ASSUME ContainerInv, FieldInv, ProjectInv, FieldInv', PromiseInv, [Next]_vars PROVE PromiseInv'
  OBVIOUS
<1> QED BY ConfigStepPromised, StagePromised, FieldsPromised, AsidePromised DEF Next

LEMMA SpecPromise == Spec => []PromiseInv
BY InitPromise, NextPromise, ConfigFromOverrides, SpecProject, PTL DEF Spec

(* The derive succeeds on exactly the items it is documented for, whatever *)
(* order the phases look at an item in, however deep its types nest, and   *)
(* whatever else is written on it: the first check that fails never hides  *)
(* that the item is fine, and no check is missed.                          *)
THEOREM AcceptedAreDerived == Spec => []DerivesExactly
<1>1. ASSUME ContainerInv, FieldInv, PromiseInv PROVE DerivesExactly
  <2>1. container = input.container /\ input \in Inputs
    BY <1>1 DEF ContainerInv, SlotsWritten
  <2>2. DOMAIN input.fields = 1 .. Declared
    BY <2>1, InputWritten
  <2>3. DeriveAccepted <=> /\ ContainerAccepted(input.container)
                         /\ input.kind = "struct"
                         /\ \A i \in DOMAIN input.fields : FieldAccepted(input.fields[i])
    BY <2>1, <2>2 DEF DeriveAccepted, FieldsAccepted
  <2>4. stage = "derived" => DeriveAccepted
    BY <1>1 DEF PromiseInv, Decided, FieldsInv, DeriveAccepted
  <2>5. stage = "failed" => ~DeriveAccepted
    BY <1>1 DEF PromiseInv, Decided
  <2> QED BY <2>3, <2>4, <2>5 DEF DerivesExactly
<1>2. ContainerInv /\ FieldInv /\ PromiseInv => DerivesExactly
  BY <1>1
<1> QED BY <1>2, ConfigFromOverrides, SpecField, SpecPromise, PTL

-----------------------------------------------------------------------------
(* The columns: one for every leaf of every field that is kept, in the     *)
(* order they are declared in, however the tuples nest; and each with a    *)
(* list layer, a null and a shape for what is around its leaf.             *)

-----------------------------------------------------------------------------
(* Paths into a type.                                                      *)

Under(q, p) == Len(q) <= Len(p) /\ SubSeq(p, 1, Len(q)) = q

LEMMA PathExtended ==
  ASSUME NEW q \in Seq(Nat), NEW i \in Nat
  PROVE  /\ Append(q, i) \in Seq(Nat) /\ Len(Append(q, i)) = Len(q) + 1 /\ Len(q) \in Nat
         /\ DOMAIN q = 1 .. Len(q) /\ DOMAIN Append(q, i) = 1 .. Len(q) + 1
         /\ \A k \in 1 .. Len(q) : Append(q, i)[k] = q[k]
         /\ Append(q, i)[Len(q) + 1] = i
OBVIOUS

LEMMA BeforeExtended ==
  ASSUME NEW p \in Seq(Nat), NEW q \in Seq(Nat), PathBefore(p, q), NEW i \in Nat
  PROVE  PathBefore(Append(p, i), q) /\ PathBefore(p, Append(q, i))
<1>1. PICK k \in DOMAIN p \cap DOMAIN q : p[k] < q[k] /\ \A j \in 1 .. k - 1 : p[j] = q[j]
  BY DEF PathBefore
<1>2. PICK r : r = Append(p, i)
  OBVIOUS
<1>3. PICK s : s = Append(q, i)
  OBVIOUS
<1>4. /\ Len(p) \in Nat /\ DOMAIN p = 1 .. Len(p) /\ DOMAIN r = 1 .. Len(p) + 1
      /\ \A j \in 1 .. Len(p) : r[j] = p[j]
  BY <1>2, PathExtended
<1>5. /\ Len(q) \in Nat /\ DOMAIN q = 1 .. Len(q) /\ DOMAIN s = 1 .. Len(q) + 1
      /\ \A j \in 1 .. Len(q) : s[j] = q[j]
  BY <1>3, PathExtended
<1>6. k \in DOMAIN r /\ k \in DOMAIN s /\ r[k] = p[k] /\ s[k] = q[k]
  BY <1>1, <1>4, <1>5
<1>7. \A j \in 1 .. k - 1 : r[j] = p[j] /\ s[j] = q[j]
  BY <1>1, <1>4, <1>5
<1>8. PathBefore(r, q)
  BY <1>1, <1>6, <1>7 DEF PathBefore
<1>9. PathBefore(p, s)
  BY <1>1, <1>6, <1>7 DEF PathBefore
<1> QED BY <1>2, <1>3, <1>8, <1>9

LEMMA SiblingsInTurn ==
  ASSUME NEW q \in Seq(Nat), NEW i \in Nat, NEW j \in Nat, i < j
  PROVE  PathBefore(Append(q, i), Append(q, j))
<1>1. PICK r : r = Append(q, i)
  OBVIOUS
<1>2. PICK s : s = Append(q, j)
  OBVIOUS
<1>3. PICK n : n = Len(q)
  OBVIOUS
<1>4. n \in Nat /\ DOMAIN r = 1 .. n + 1 /\ r[n + 1] = i /\ \A k \in 1 .. n : r[k] = q[k]
  BY <1>1, <1>3, PathExtended
<1>5. DOMAIN s = 1 .. n + 1 /\ s[n + 1] = j /\ \A k \in 1 .. n : s[k] = q[k]
  BY <1>2, <1>3, PathExtended
<1>6. n + 1 \in 1 .. n + 1 /\ (n + 1) - 1 = n
  BY <1>4
<1>7. PathBefore(r, s)
  BY <1>4, <1>5, <1>6 DEF PathBefore
<1> QED BY <1>1, <1>2, <1>7

(* A node below another is it, or below one of its elements.               *)
LEMMA Descends ==
  ASSUME NEW f, WellFormedField(f), NEW q \in DOMAIN f.ty, NEW p \in DOMAIN f.ty, Under(q, p), p # q
  PROVE  \E r \in Elements(f.ty, q) : Under(r, p)
<1>1. p \in Seq(Nat) /\ q \in Seq(Nat) /\ Len(p) \in Nat /\ Len(q) \in Nat
  BY DEF WellFormedField
<1>2. PICK n : n = Len(q) + 1
  OBVIOUS
<1>3. n \in 1 .. Len(p) /\ Len(q) = n - 1
  <2>1. Len(q) # Len(p)
    <3>1. SubSeq(p, 1, Len(p)) = p
      BY <1>1
    <3> QED BY <3>1 DEF Under
  <2> QED BY <1>1, <1>2, <2>1 DEF Under
<1>4. PICK r : r = SubSeq(p, 1, n)
  OBVIOUS
<1>5. r \in DOMAIN f.ty
  BY <1>1, <1>3, <1>4 DEF WellFormedField
<1>6. r \in Seq(Nat) /\ Len(r) = n
  BY <1>1, <1>3, <1>4, StartOf
<1>7. SubSeq(r, 1, n - 1) = q
  BY <1>1, <1>3, <1>4 DEF Under
<1>8. r \in Elements(f.ty, q)
  <2>1. r # Root
    BY <1>3, <1>6 DEF Root
  <2>2. Front(r) = q
    BY <1>6, <1>7 DEF Front
  <2> QED BY <1>5, <2>1, <2>2 DEF Elements
<1>9. Under(r, p)
  BY <1>1, <1>3, <1>4, <1>6 DEF Under
<1> QED BY <1>8, <1>9

LEMMA RootUnder ==
  ASSUME NEW p \in Seq(Nat)
  PROVE  Under(Root, p) /\ Under(p, p)
<1>1. Len(Root) = 0 /\ SubSeq(p, 1, 0) = <<>> /\ Len(p) \in Nat /\ SubSeq(p, 1, Len(p)) = p
  BY DEF Root
<1> QED BY <1>1 DEF Under, Root

LEMMA LeafAlone ==
  ASSUME NEW f, WellFormedField(f), NEW q \in DOMAIN f.ty, f.ty[q].base # "Tuple",
         NEW p \in DOMAIN f.ty, Under(q, p)
  PROVE  p = q
<1> SUFFICES ASSUME p # q PROVE FALSE
  OBVIOUS
<1>1. Elements(f.ty, q) # {}
  BY Descends, Zenon
<1> QED BY <1>1 DEF WellFormedField

-----------------------------------------------------------------------------
(* The columns so far are leaves of fields that are kept, in the order of  *)
(* the declaration, and ahead of whatever waits; a leaf that has no column *)
(* yet is below something that waits.                                      *)

HasColumn(i, p) == \E k \in DOMAIN columns : columns[k].field = i /\ columns[k].path = p
Waits(i, p) ==
  \E k \in DOMAIN fields :
    /\ fields[k].name = i
    /\ k = 1 /\ elements # <<>> => \E e \in DOMAIN elements : Under(elements[e].path, p)
InTurn(es) == \A d, e \in DOMAIN es : d < e => PathBefore(es[d].path, es[e].path)

IRsLeft       == (\A k \in DOMAIN fields : IRFor(fields[k], Declared)) /\ InOrder(fields)
ColumnsFound  == \A k \in DOMAIN columns : /\ columns[k].field \in 1 .. Declared
                                           /\ columns[k].path \in LeafPaths(input.fields[columns[k].field])
LeavesCovered == \A i \in 1 .. Declared : \A p \in LeafPaths(input.fields[i]) : HasColumn(i, p) \/ Waits(i, p)
ColumnsInTurn == \A j, k \in DOMAIN columns : j < k => ColumnBefore(columns[j], columns[k])
ColumnsFirst  ==
  \A j \in DOMAIN columns : \A k \in DOMAIN fields :
    \/ columns[j].field < fields[k].name
    \/ /\ k = 1 /\ elements # <<>> /\ columns[j].field = fields[k].name
       /\ \A e \in DOMAIN elements : PathBefore(columns[j].path, elements[e].path)
Projecting    == IRsLeft /\ ColumnsFound /\ LeavesCovered /\ InTurn(elements) /\ ColumnsInTurn /\ ColumnsFirst
ColumnInv ==
  /\ stage \in {"project", "derived"} => Projecting
  /\ stage = "derived" => fields = <<>>

LEMMA Appended ==
  ASSUME NEW s, s \in Seq(RangeOf(s)), NEW x
  PROVE  /\ Len(s) \in Nat /\ DOMAIN s = 1 .. Len(s) /\ DOMAIN Append(s, x) = 1 .. Len(s) + 1
         /\ \A i \in 1 .. Len(s) : Append(s, x)[i] = s[i]
         /\ Append(s, x)[Len(s) + 1] = x
<1> DEFINE S == RangeOf(s) \union {x}
<1>1. s \in Seq(S) /\ x \in S
  <2>1. RangeOf(s) \subseteq S
    OBVIOUS
  <2> HIDE DEF S
  <2> QED BY <2>1 DEF S
<1> HIDE DEF S
<1> QED BY <1>1

(* The field that is projected is one that is kept, with its own tree.     *)
LEMMA CurrentKept ==
  ASSUME FieldInv, ContainerInv, PromiseInv, ProjectInv, stage = "project", IRsLeft, fields # <<>>,
         NEW n, n = Head(fields).name, NEW f, f = input.fields[n]
  PROVE  /\ Declared \in Nat /\ n \in 1 .. Declared /\ WellFormedField(f) /\ f.name = n
         /\ Kept(f) /\ NodesFit(f.ty) /\ TreeOf(f, P!Tree)
         /\ Head(fields) = fields[1] /\ DOMAIN fields = 1 .. Len(fields) /\ Len(fields) \in Nat \ {0}
         /\ DOMAIN Tail(fields) = 1 .. Len(fields) - 1
         /\ \A k \in 1 .. Len(fields) - 1 : Tail(fields)[k] = fields[k + 1]
         /\ \A k \in 2 .. Len(fields) : n < fields[k].name
<1>1. /\ Head(fields) = fields[1] /\ 1 \in DOMAIN fields /\ Len(fields) \in Nat \ {0}
      /\ DOMAIN fields = 1 .. Len(fields) /\ Tail(fields) \in Seq(RangeOf(fields))
      /\ Len(Tail(fields)) = Len(fields) - 1
      /\ \A k \in 1 .. Len(fields) - 1 : Tail(fields)[k] = fields[k + 1]
  <2>1. fields \in Seq(RangeOf(fields))
    BY DEF ProjectInv, Waiting
  <2> QED BY <2>1, HeadAndTail
<1>2. DOMAIN Tail(fields) = 1 .. Len(fields) - 1
  BY <1>1
<1>3. IRFor(fields[1], Declared)
  BY <1>1 DEF IRsLeft
<1>4. n \in 1 .. Declared /\ Kept(f) /\ TreeOf(f, P!Tree)
  BY <1>1, <1>3 DEF IRFor, P!Tree
<1>5. Declared \in Nat /\ WellFormedField(f) /\ f.name = n
  BY <1>4, InputWritten DEF FieldInv, Source
<1>6. NodesFit(f.ty)
  <2>1. FieldAccepted(f)
    BY <1>4 DEF PromiseInv, FieldsInv, FieldsAccepted
  <2>2. AttrsAccepted(f) /\ (AttrOf(f).key = "skip" \/ TypeFits(f))
    BY <1>5, <2>1, AcceptedAs
  <2> QED BY <1>4, <1>5, <2>2, KeptByAttr DEF TypeFits
<1>7. ASSUME NEW k \in 2 .. Len(fields) PROVE n < fields[k].name
  <2>1. 1 < k /\ k \in DOMAIN fields
    BY <1>1
  <2> QED BY <1>1, <2>1 DEF IRsLeft, InOrder
<1> QED BY <1>1, <1>2, <1>4, <1>5, <1>6, <1>7

(* A node of its tree is a tuple if it is written as one, and has the      *)
(* elements that are written, at least one.                                *)
LEMMA NodesOfTree ==
  ASSUME NEW f, WellFormedField(f), NodesFit(f.ty), TreeOf(f, P!Tree), NEW p \in DOMAIN P!Tree
  PROVE  /\ p \in DOMAIN f.ty /\ p \in Seq(Nat)
         /\ P!IsTuple(p) <=> f.ty[p].base = "Tuple"
         /\ P!Arity(p) = Cardinality(Elements(f.ty, p)) /\ P!Arity(p) \in Nat
         /\ P!IsTuple(p) => P!Arity(p) > 0
<1>1. /\ DOMAIN P!Tree = DOMAIN f.ty /\ p \in DOMAIN f.ty /\ p \in Seq(Nat)
      /\ P!Tree[p].leaf.spec = "Tuple" <=> f.ty[p].base = "Tuple"
  BY DEF TreeOf, LoweredFrom, WellFormedField
<1>2. P!IsTuple(p) <=> f.ty[p].base = "Tuple"
  BY <1>1 DEF P!IsTuple
<1>3. {q \in DOMAIN P!Tree : Len(q) = Len(p) + 1 /\ SubSeq(q, 1, Len(p)) = p} = Elements(f.ty, p)
  <2>1. ASSUME NEW q \in DOMAIN f.ty
        PROVE  (Len(q) = Len(p) + 1 /\ SubSeq(q, 1, Len(p)) = p) <=> (q # Root /\ Front(q) = p)
    <3>1. q \in Seq(Nat) /\ Len(q) \in Nat /\ Len(p) \in Nat /\ (q = Root <=> Len(q) = 0)
      <4>1. q \in Seq(Nat)
        BY DEF WellFormedField
      <4> QED BY <1>1, <4>1 DEF Root
    <3>2. Front(q) = SubSeq(q, 1, Len(q) - 1)
      BY DEF Front
    <3>3. Len(q) = Len(p) + 1 => Len(q) - 1 = Len(p) /\ Len(q) # 0
      BY <3>1
    <3>4. q # Root /\ SubSeq(q, 1, Len(q) - 1) = p => Len(q) = Len(p) + 1 /\ Len(q) - 1 = Len(p)
      <4>1. q # Root => Len(SubSeq(q, 1, Len(q) - 1)) = Len(q) - 1
        BY <3>1, LastOfStart DEF Root
      <4> QED BY <3>1, <4>1
    <3> QED BY <3>1, <3>2, <3>3, <3>4
  <2> QED BY <1>1, <2>1 DEF Elements
<1>4. P!Arity(p) = Cardinality(Elements(f.ty, p))
  <2>1. P!Arity(p) = P!Cardinality(Elements(f.ty, p))
    BY <1>3, Zenon DEF P!Arity
  <2> QED BY <2>1, SameCardinality, Zenon
<1>5. P!Arity(p) \in Nat
  BY <1>1, <1>4, ElementsWritten
<1>6. ASSUME P!IsTuple(p) PROVE P!Arity(p) > 0
  <2>1. Elements(f.ty, p) # {} /\ IsFiniteSet(Elements(f.ty, p))
    BY <1>1, <1>2, <1>6 DEF NodesFit, NodeAccepted, WellFormedField
  <2>2. Cardinality(Elements(f.ty, p)) # 0
    BY <2>1, FS_EmptySet
  <2> QED BY <1>4, <1>5, <2>2
<1> QED BY <1>1, <1>2, <1>4, <1>5, <1>6

(* One more column.                                                        *)
LEMMA ColumnAdded ==
  ASSUME ProjectInv, ColumnsFound, ColumnsInTurn, NEW c, columns' = Append(columns, c), input' = input,
         c.field \in 1 .. Declared, c.path \in LeafPaths(input.fields[c.field]),
         \A j \in DOMAIN columns : ColumnBefore(columns[j], c)
  PROVE  /\ ColumnsFound' /\ ColumnsInTurn'
         /\ \A i, p : HasColumn(i, p)' <=> HasColumn(i, p) \/ (i = c.field /\ p = c.path)
         /\ DOMAIN columns' = 1 .. Len(columns) + 1 /\ Len(columns) \in Nat /\ DOMAIN columns = 1 .. Len(columns)
         /\ \A j \in DOMAIN columns : columns'[j] = columns[j]
         /\ columns'[Len(columns) + 1] = c
<1>1. PICK n : n = Len(columns)
  OBVIOUS
<1>2. /\ n \in Nat /\ DOMAIN columns = 1 .. n /\ DOMAIN columns' = 1 .. n + 1
      /\ \A j \in 1 .. n : columns'[j] = columns[j]
      /\ columns'[n + 1] = c
  BY <1>1, Appended DEF ProjectInv, Projected
<1>3. Declared' = Declared
  BY DEF Declared
<1>4. \A k \in 1 .. n + 1 : k \in 1 .. n \/ k = n + 1
  BY <1>2
<1>5. ColumnsFound'
  BY <1>2, <1>3, <1>4 DEF ColumnsFound
<1>6. ASSUME NEW j \in DOMAIN columns', NEW k \in DOMAIN columns', j < k
      PROVE  ColumnBefore(columns'[j], columns'[k])
  <2>1. j \in 1 .. n
    BY <1>2, <1>6
  <2>2. CASE k \in 1 .. n
    BY <1>2, <1>6, <2>1, <2>2 DEF ColumnsInTurn
  <2>3. CASE k = n + 1
    BY <1>2, <2>1, <2>3
  <2> QED BY <1>2, <1>4, <2>2, <2>3
<1>7. ColumnsInTurn'
  BY <1>6 DEF ColumnsInTurn
<1>8. ASSUME NEW i, NEW p
      PROVE  HasColumn(i, p)' <=> HasColumn(i, p) \/ (i = c.field /\ p = c.path)
  <2>1. n + 1 \in 1 .. n + 1 /\ 1 .. n \subseteq 1 .. n + 1
    BY <1>2
  <2> QED BY <1>2, <1>4, <2>1 DEF HasColumn
<1> QED BY <1>1, <1>2, <1>5, <1>7, <1>8

LEMMA FieldInTurn ==
  ASSUME FieldInv, ContainerInv, PromiseInv, ProjectInv, stage = "project", Projecting,
         P!ProjectField, input' = input
  PROVE  Projecting'
<1>1. /\ fields # <<>> /\ elements = <<>> /\ ~P!IsTuple(Root) /\ columns' = Append(columns, P!FieldColumn)
      /\ fields' = Tail(fields) /\ elements' = <<>>
  BY DEF P!ProjectField, Root
<1>2. PICK n : n = Head(fields).name
  OBVIOUS
<1>3. PICK f : f = input.fields[n]
  OBVIOUS
<1>4. PICK m : m = Len(fields)
  OBVIOUS
<1>5. /\ Declared \in Nat /\ n \in 1 .. Declared /\ WellFormedField(f) /\ Kept(f)
      /\ NodesFit(f.ty) /\ TreeOf(f, P!Tree)
      /\ Head(fields) = fields[1] /\ DOMAIN fields = 1 .. m /\ m \in Nat \ {0}
      /\ DOMAIN fields' = 1 .. m - 1
      /\ \A k \in 1 .. m - 1 : fields'[k] = fields[k + 1]
      /\ \A k \in 2 .. m : n < fields[k].name
  BY <1>1, <1>2, <1>3, <1>4, CurrentKept DEF Projecting
<1>6. \A k \in 1 .. m - 1 : k + 1 \in 2 .. m /\ k + 1 \in DOMAIN fields
  BY <1>5
<1>7. Root \in DOMAIN P!Tree /\ Root \in DOMAIN f.ty /\ f.ty[Root].base # "Tuple"
  <2>1. Root \in DOMAIN P!Tree
    BY <1>5 DEF TreeOf, WellFormedField
  <2> QED BY <1>1, <1>5, <2>1, NodesOfTree
<1>8. LeafPaths(f) = {Root}
  BY <1>5, <1>7, ElementOfTuple DEF LeafPaths
<1>9. PICK c : c = P!FieldColumn
  OBVIOUS
<1>10. c.field = n /\ c.path = Root
  BY <1>2, <1>9 DEF P!FieldColumn, P!Column, Root
<1>11. \A j \in DOMAIN columns : ColumnBefore(columns[j], c)
  BY <1>1, <1>2, <1>5, <1>10 DEF Projecting, ColumnsFirst, ColumnBefore
<1>12. /\ ColumnsFound' /\ ColumnsInTurn'
       /\ \A i, p : HasColumn(i, p)' <=> HasColumn(i, p) \/ (i = n /\ p = Root)
       /\ DOMAIN columns' = 1 .. Len(columns) + 1 /\ Len(columns) \in Nat /\ DOMAIN columns = 1 .. Len(columns)
       /\ \A j \in DOMAIN columns : columns'[j] = columns[j]
       /\ columns'[Len(columns) + 1] = c
  <2>1. c.field \in 1 .. Declared /\ c.path \in LeafPaths(input.fields[c.field])
    BY <1>3, <1>5, <1>8, <1>10
  <2> QED BY <1>1, <1>9, <1>10, <1>11, <2>1, ColumnAdded DEF Projecting
<1>13. Declared' = Declared
  BY DEF Declared
<1>14. IRsLeft'
  <2>1. \A k \in DOMAIN fields' : IRFor(fields'[k], Declared)
    BY <1>5, <1>6 DEF Projecting, IRsLeft
  <2>2. ASSUME NEW j \in 1 .. m - 1, NEW k \in 1 .. m - 1, j < k
        PROVE  fields'[j].name < fields'[k].name
    <3>1. j + 1 \in DOMAIN fields /\ k + 1 \in DOMAIN fields /\ j + 1 < k + 1
      BY <1>6, <2>2
    <3>2. fields[j + 1].name < fields[k + 1].name
      BY <3>1 DEF Projecting, IRsLeft, InOrder
    <3> QED BY <1>5, <3>2
  <2>3. InOrder(fields')
    BY <1>5, <2>2 DEF InOrder
  <2> QED BY <1>13, <2>1, <2>3 DEF IRsLeft, IRFor, TreeOf
<1>15. ASSUME NEW i \in 1 .. Declared, NEW p \in LeafPaths(input.fields[i])
       PROVE  HasColumn(i, p)' \/ Waits(i, p)'
  <2>1. CASE HasColumn(i, p)
    BY <1>12, <2>1
  <2>2. CASE Waits(i, p)
    <3>1. PICK k \in DOMAIN fields : fields[k].name = i
      BY <2>2 DEF Waits
    <3>2. CASE k = 1
      BY <1>2, <1>3, <1>5, <1>8, <1>12, <3>1, <3>2
    <3>3. CASE k # 1
      <4>1. k - 1 \in DOMAIN fields' /\ fields'[k - 1] = fields[k]
        BY <1>5, <3>1, <3>3
      <4> QED BY <1>1, <3>1, <4>1 DEF Waits
    <3> QED BY <3>2, <3>3
  <2> QED BY <1>15, <2>1, <2>2 DEF Projecting, LeavesCovered
<1>16. LeavesCovered'
  BY <1>13, <1>15 DEF LeavesCovered
<1>17. InTurn(elements')
  BY <1>1 DEF InTurn
<1>18. ASSUME NEW j \in DOMAIN columns', NEW k \in DOMAIN fields'
       PROVE  columns'[j].field < fields'[k].name
  <2>1. fields'[k] = fields[k + 1] /\ k + 1 \in DOMAIN fields /\ k + 1 # 1 /\ n < fields[k + 1].name
    BY <1>5, <1>6
  <2>2. CASE j \in DOMAIN columns
    BY <1>12, <2>1, <2>2 DEF Projecting, ColumnsFirst
  <2>3. CASE j \notin DOMAIN columns
    <3>1. j = Len(columns) + 1
      BY <1>12, <2>3
    <3> QED BY <1>10, <1>12, <2>1, <3>1
  <2> QED BY <2>2, <2>3
<1>19. ColumnsFirst'
  BY <1>18 DEF ColumnsFirst
<1> QED BY <1>12, <1>14, <1>16, <1>17, <1>19 DEF Projecting

(* The elements of a tuple, in the place of the tuple.                     *)
OpenedFrom(es, f, p, parent) ==
  /\ Len(es) \in Nat \ {0} /\ DOMAIN es = 1 .. Len(es) /\ es \in Seq(RangeOf(es))
  /\ \A i \in 1 .. Len(es) : es[i].path = Append(p, i) /\ es[i].parent = parent
  /\ InTurn(es)
  /\ \A q \in DOMAIN f.ty : Under(p, q) /\ q # p => \E i \in DOMAIN es : Under(es[i].path, q)

LEMMA ElementsOpened ==
  ASSUME NEW f, WellFormedField(f), NodesFit(f.ty), TreeOf(f, P!Tree), NEW p \in DOMAIN P!Tree,
         P!IsTuple(p), NEW parent
  PROVE  OpenedFrom(P!ElementsOf(p, parent), f, p, parent)
<1>0. PICK es : es = P!ElementsOf(p, parent)
  OBVIOUS
<1>1. PICK n : n = P!Arity(p)
  OBVIOUS
<1>2. p \in DOMAIN f.ty /\ p \in Seq(Nat) /\ n = Cardinality(Elements(f.ty, p)) /\ n \in Nat /\ n > 0
  BY <1>1, NodesOfTree
<1>3. es = [i \in 1 .. n |-> [path |-> Append(p, i), parent |-> parent]]
  BY <1>0, <1>1, Zenon DEF P!ElementsOf
<1>4. Len(es) = n /\ DOMAIN es = 1 .. n /\ es \in Seq(RangeOf(es))
  <2>1. \A i \in 1 .. n : es[i] \in RangeOf(es)
    BY <1>3 DEF RangeOf
  <2>2. es \in [1 .. n -> RangeOf(es)]
    BY <1>3, <2>1
  <2> QED BY <1>2, <2>2
<1>5. \A i \in 1 .. n : es[i].path = Append(p, i) /\ es[i].parent = parent
  BY <1>3
<1>6. InTurn(es)
  <2>1. ASSUME NEW i \in 1 .. n, NEW j \in 1 .. n, i < j PROVE PathBefore(es[i].path, es[j].path)
    <3>1. PathBefore(Append(p, i), Append(p, j))
      BY <1>2, <2>1, SiblingsInTurn
    <3> QED BY <1>5, <3>1
  <2> QED BY <1>4, <2>1 DEF InTurn
<1>7. ASSUME NEW q \in DOMAIN f.ty, Under(p, q), q # p PROVE \E i \in DOMAIN es : Under(es[i].path, q)
  <2>1. PICK r \in Elements(f.ty, p) : Under(r, q)
    BY <1>2, <1>7, Descends, Zenon
  <2>2. PICK i \in 1 .. n : r = Append(p, i)
    BY <1>2 DEF WellFormedField
  <2> QED BY <1>4, <1>5, <2>1, <2>2
<1> QED BY <1>0, <1>2, <1>4, <1>5, <1>6, <1>7 DEF OpenedFrom

LEMMA TupleInTurn ==
  ASSUME FieldInv, ContainerInv, PromiseInv, ProjectInv, stage = "project", Projecting,
         P!OpenTuple, input' = input
  PROVE  Projecting'
<1>1. /\ fields # <<>> /\ elements = <<>> /\ P!IsTuple(Root)
      /\ elements' = P!ElementsOf(Root, P!Tree[Root].shape) /\ fields' = fields /\ columns' = columns
  BY DEF P!OpenTuple, Root
<1>2. PICK n : n = Head(fields).name
  OBVIOUS
<1>3. PICK f : f = input.fields[n]
  OBVIOUS
<1>5. /\ Declared \in Nat /\ n \in 1 .. Declared /\ WellFormedField(f)
      /\ NodesFit(f.ty) /\ TreeOf(f, P!Tree) /\ Head(fields) = fields[1]
  BY <1>1, <1>2, <1>3, CurrentKept DEF Projecting
<1>6. Root \in DOMAIN P!Tree
  BY <1>5 DEF TreeOf, WellFormedField
<1>7. f.ty[Root].base = "Tuple"
  BY <1>1, <1>5, <1>6, NodesOfTree
<1>8. /\ InTurn(elements') /\ elements' # <<>>
      /\ \A q \in DOMAIN f.ty : Under(Root, q) /\ q # Root => \E i \in DOMAIN elements' : Under(elements'[i].path, q)
  <2>1. /\ InTurn(elements') /\ Len(elements') \in Nat \ {0}
        /\ \A q \in DOMAIN f.ty : Under(Root, q) /\ q # Root => \E i \in DOMAIN elements' : Under(elements'[i].path, q)
    BY <1>1, <1>5, <1>6, ElementsOpened DEF OpenedFrom
  <2>2. Len(<<>>) = 0
    OBVIOUS
  <2> QED BY <2>1, <2>2
<1>9. Declared' = Declared
  BY DEF Declared
<1>10. IRsLeft' /\ ColumnsFound' /\ ColumnsInTurn'
  BY <1>1, <1>9 DEF Projecting, IRsLeft, IRFor, TreeOf, ColumnsFound, ColumnsInTurn
<1>11. ASSUME NEW i \in 1 .. Declared, NEW p \in LeafPaths(input.fields[i])
       PROVE  HasColumn(i, p)' \/ Waits(i, p)'
  <2>1. CASE HasColumn(i, p)
    BY <1>1, <2>1 DEF HasColumn
  <2>2. CASE Waits(i, p)
    <3>1. PICK k \in DOMAIN fields : fields[k].name = i
      BY <2>2 DEF Waits
    <3>2. CASE k = 1
      <4>1. p \in DOMAIN f.ty /\ f.ty[p].base # "Tuple" /\ p \in Seq(Nat)
        BY <1>2, <1>3, <1>5, <1>11, <3>1, <3>2 DEF LeafPaths, WellFormedField
      <4>2. Under(Root, p) /\ p # Root
        BY <1>7, <4>1, RootUnder
      <4>3. \E e \in DOMAIN elements' : Under(elements'[e].path, p)
        BY <1>8, <4>1, <4>2
      <4> QED BY <1>1, <3>1, <3>2, <4>3 DEF Waits
    <3>3. CASE k # 1
      BY <1>1, <3>1, <3>3 DEF Waits
    <3> QED BY <3>2, <3>3
  <2> QED BY <1>11, <2>1, <2>2 DEF Projecting, LeavesCovered
<1>12. LeavesCovered'
  BY <1>9, <1>11 DEF LeavesCovered
<1>13. ColumnsFirst'
  <2>1. \A j \in DOMAIN columns : \A k \in DOMAIN fields : columns[j].field < fields[k].name
    BY <1>1 DEF Projecting, ColumnsFirst
  <2> QED BY <1>1, <2>1 DEF ColumnsFirst
<1> QED BY <1>8, <1>10, <1>12, <1>13 DEF Projecting

(* The elements that wait are in the tree of the current field.            *)
LEMMA WaitingElements ==
  ASSUME ProjectInv, elements # <<>>
  PROVE  /\ fields # <<>> /\ elements \in Seq(TupleElements)
         /\ Head(elements) = elements[1] /\ Len(elements) \in Nat \ {0} /\ DOMAIN elements = 1 .. Len(elements)
         /\ DOMAIN Tail(elements) = 1 .. Len(elements) - 1
         /\ Tail(elements) = <<>> <=> Len(elements) = 1
         /\ \A k \in 1 .. Len(elements) - 1 : Tail(elements)[k] = elements[k + 1]
         /\ \A k \in 1 .. Len(elements) : elements[k] \in TupleElements /\ elements[k].path \in DOMAIN P!Tree
<1>1. fields # <<>> /\ elements \in Seq(TupleElements)
  BY DEF ProjectInv, Opened
<1>2. /\ Head(elements) = elements[1] /\ Len(elements) \in Nat \ {0} /\ DOMAIN elements = 1 .. Len(elements)
      /\ Len(Tail(elements)) = Len(elements) - 1 /\ Tail(elements) \in Seq(TupleElements)
      /\ Tail(elements) = <<>> <=> Len(elements) <= 1
      /\ \A k \in 1 .. Len(elements) - 1 : Tail(elements)[k] = elements[k + 1]
  BY <1>1, HeadAndTail
<1>3. DOMAIN Tail(elements) = 1 .. Len(elements) - 1
  <2> HIDE DEF TupleElements
  <2> QED BY <1>2
<1>4. \A k \in 1 .. Len(elements) : elements[k] \in TupleElements
  <2> HIDE DEF TupleElements
  <2> QED BY <1>1
<1>5. \A k \in 1 .. Len(elements) : elements[k].path \in DOMAIN P!Tree
  BY <1>4 DEF TupleElements, P!Tree
<1> QED BY <1>1, <1>2, <1>3, <1>4, <1>5

LEMMA ElementInTurn ==
  ASSUME FieldInv, ContainerInv, PromiseInv, ProjectInv, stage = "project", Projecting,
         P!ProjectElement, input' = input
  PROVE  Projecting'
<1>1. /\ elements # <<>> /\ ~P!IsTuple(Head(elements).path) /\ columns' = Append(columns, P!ElementColumn(Head(elements)))
      /\ elements' = Tail(elements) /\ fields' = IF elements' = <<>> THEN Tail(fields) ELSE fields
  BY DEF P!ProjectElement
<1>2. PICK n : n = Head(fields).name
  OBVIOUS
<1>3. PICK f : f = input.fields[n]
  OBVIOUS
<1>4. PICK m : m = Len(fields)
  OBVIOUS
<1>5. PICK l : l = Len(elements)
  OBVIOUS
<1>6. /\ fields # <<>> /\ Head(elements) = elements[1] /\ l \in Nat \ {0} /\ DOMAIN elements = 1 .. l
      /\ DOMAIN elements' = 1 .. l - 1 /\ (elements' = <<>> <=> l = 1)
      /\ \A k \in 1 .. l - 1 : elements'[k] = elements[k + 1]
      /\ \A k \in 1 .. l : elements[k].path \in DOMAIN P!Tree
  BY <1>1, <1>5, WaitingElements
<1>7. /\ Declared \in Nat /\ n \in 1 .. Declared /\ WellFormedField(f) /\ Kept(f)
      /\ NodesFit(f.ty) /\ TreeOf(f, P!Tree)
      /\ Head(fields) = fields[1] /\ DOMAIN fields = 1 .. m /\ m \in Nat \ {0}
      /\ DOMAIN Tail(fields) = 1 .. m - 1
      /\ \A k \in 1 .. m - 1 : Tail(fields)[k] = fields[k + 1]
      /\ \A k \in 2 .. m : n < fields[k].name
  BY <1>2, <1>3, <1>4, <1>6, CurrentKept DEF Projecting
<1>8. /\ \A k \in 1 .. m - 1 : k + 1 \in 2 .. m /\ k + 1 \in DOMAIN fields
      /\ \A k \in 1 .. l - 1 : k + 1 \in 2 .. l /\ k + 1 \in DOMAIN elements
      /\ 1 \in DOMAIN elements
  BY <1>6, <1>7
<1>9. PICK q : q = elements[1].path
  OBVIOUS
<1>10. /\ q \in DOMAIN f.ty /\ f.ty[q].base # "Tuple" /\ q \in LeafPaths(f)
       /\ \A p \in DOMAIN f.ty : Under(q, p) => p = q
  <2>1. q \in DOMAIN P!Tree
    BY <1>6, <1>8, <1>9
  <2>2. q \in DOMAIN f.ty /\ f.ty[q].base # "Tuple"
    BY <1>1, <1>6, <1>7, <1>9, <2>1, NodesOfTree
  <2>3. ASSUME NEW p \in DOMAIN f.ty, Under(q, p) PROVE p = q
    <3>1. WellFormedField(f)
      BY <1>7
    <3> QED BY <2>2, <2>3, <3>1, LeafAlone
  <2> QED BY <1>7, <2>2, <2>3 DEF LeafPaths
<1>11. PICK c : c = P!ElementColumn(Head(elements))
  OBVIOUS
<1>12. c.field = n /\ c.path = q
  BY <1>2, <1>6, <1>9, <1>11 DEF P!ElementColumn, P!Column
<1>13. \A j \in DOMAIN columns : columns[j].field < n \/ (columns[j].field = n /\ PathBefore(columns[j].path, q))
  <2>1. 1 \in DOMAIN fields /\ fields[1].name = n
    BY <1>2, <1>7
  <2> QED BY <1>8, <1>9, <2>1 DEF Projecting, ColumnsFirst
<1>14. /\ ColumnsFound' /\ ColumnsInTurn'
       /\ \A i, p : HasColumn(i, p)' <=> HasColumn(i, p) \/ (i = n /\ p = q)
       /\ DOMAIN columns' = 1 .. Len(columns) + 1 /\ Len(columns) \in Nat /\ DOMAIN columns = 1 .. Len(columns)
       /\ \A j \in DOMAIN columns : columns'[j] = columns[j]
       /\ columns'[Len(columns) + 1] = c
  <2>1. c.field \in 1 .. Declared /\ c.path \in LeafPaths(input.fields[c.field])
    BY <1>3, <1>7, <1>10, <1>12
  <2>2. \A j \in DOMAIN columns : ColumnBefore(columns[j], c)
    BY <1>12, <1>13 DEF ColumnBefore
  <2> QED BY <1>1, <1>11, <1>12, <2>1, <2>2, ColumnAdded DEF Projecting
<1>15. Declared' = Declared
  BY DEF Declared
<1>16. IRsLeft'
  <2>1. CASE elements' # <<>>
    BY <1>1, <1>15, <2>1 DEF Projecting, IRsLeft, IRFor, TreeOf
  <2>2. CASE elements' = <<>>
    <3>1. fields' = Tail(fields)
      BY <1>1, <2>2
    <3>2. \A k \in DOMAIN fields' : IRFor(fields'[k], Declared)
      BY <1>7, <1>8, <3>1 DEF Projecting, IRsLeft
    <3>3. ASSUME NEW j \in 1 .. m - 1, NEW k \in 1 .. m - 1, j < k
          PROVE  fields'[j].name < fields'[k].name
      <4>1. j + 1 \in DOMAIN fields /\ k + 1 \in DOMAIN fields /\ j + 1 < k + 1
        BY <1>8, <3>3
      <4>2. fields[j + 1].name < fields[k + 1].name
        BY <4>1 DEF Projecting, IRsLeft, InOrder
      <4> QED BY <1>7, <3>1, <4>2
    <3>4. InOrder(fields')
      BY <1>7, <3>1, <3>3 DEF InOrder
    <3> QED BY <1>15, <3>2, <3>4 DEF IRsLeft, IRFor, TreeOf
  <2> QED BY <2>1, <2>2
<1>17. ASSUME NEW i \in 1 .. Declared, NEW p \in LeafPaths(input.fields[i])
       PROVE  HasColumn(i, p)' \/ Waits(i, p)'
  <2>1. CASE HasColumn(i, p)
    BY <1>14, <2>1
  <2>2. CASE Waits(i, p)
    <3>1. PICK k \in DOMAIN fields :
            fields[k].name = i /\ (k = 1 => \E e \in DOMAIN elements : Under(elements[e].path, p))
      BY <1>1, <2>2 DEF Waits
    <3>2. CASE k = 1
      <4>1. i = n /\ p \in DOMAIN f.ty
        BY <1>2, <1>3, <1>7, <1>17, <3>1, <3>2 DEF LeafPaths
      <4>2. PICK e \in DOMAIN elements : Under(elements[e].path, p)
        BY <3>1, <3>2
      <4>3. CASE e = 1
        BY <1>9, <1>10, <1>14, <4>1, <4>2, <4>3
      <4>4. CASE e # 1
        <5>1. e - 1 \in DOMAIN elements' /\ elements'[e - 1] = elements[e] /\ elements' # <<>>
          BY <1>6, <4>4
        <5>2. fields' = fields
          BY <1>1, <5>1
        <5> QED BY <3>1, <4>2, <5>1, <5>2 DEF Waits
      <4> QED BY <4>3, <4>4
    <3>3. CASE k # 1
      <4>1. CASE elements' # <<>>
        BY <1>1, <3>1, <3>3, <4>1 DEF Waits
      <4>2. CASE elements' = <<>>
        <5>1. k - 1 \in DOMAIN fields' /\ fields'[k - 1] = fields[k]
          BY <1>1, <1>7, <3>1, <3>3, <4>2
        <5> QED BY <3>1, <4>2, <5>1 DEF Waits
      <4> QED BY <4>1, <4>2
    <3> QED BY <3>2, <3>3
  <2> QED BY <1>17, <2>1, <2>2 DEF Projecting, LeavesCovered
<1>18. LeavesCovered'
  BY <1>15, <1>17 DEF LeavesCovered
<1>19. InTurn(elements')
  <2>1. ASSUME NEW d \in 1 .. l - 1, NEW e \in 1 .. l - 1, d < e
        PROVE  PathBefore(elements'[d].path, elements'[e].path)
    <3>1. d + 1 \in DOMAIN elements /\ e + 1 \in DOMAIN elements /\ d + 1 < e + 1
      BY <1>8, <2>1
    <3>2. PathBefore(elements[d + 1].path, elements[e + 1].path)
      BY <3>1 DEF Projecting, InTurn
    <3> QED BY <1>6, <3>2
  <2> QED BY <1>6, <2>1 DEF InTurn
<1>20. \A d \in DOMAIN elements' : PathBefore(q, elements'[d].path)
  <2>1. ASSUME NEW d \in 1 .. l - 1 PROVE PathBefore(q, elements[d + 1].path)
    <3>1. d + 1 \in DOMAIN elements /\ 1 < d + 1
      BY <1>8
    <3> QED BY <1>8, <1>9, <3>1 DEF Projecting, InTurn
  <2> QED BY <1>6, <2>1
<1>21. ASSUME NEW j \in DOMAIN columns'
       PROVE  columns'[j].field < n \/ (columns'[j].field = n /\ \A d \in DOMAIN elements' : PathBefore(columns'[j].path, elements'[d].path))
  <2>1. CASE j \in DOMAIN columns
    <3>1. columns[j].field < n \/ (columns[j].field = n /\ \A d \in DOMAIN elements : PathBefore(columns[j].path, elements[d].path))
      <4>1. 1 \in DOMAIN fields /\ fields[1].name = n
        BY <1>2, <1>7
      <4> QED BY <2>1, <4>1 DEF Projecting, ColumnsFirst
    <3> QED BY <1>6, <1>8, <1>14, <2>1, <3>1
  <2>2. CASE j \notin DOMAIN columns
    <3>1. j = Len(columns) + 1
      BY <1>14, <2>2
    <3> QED BY <1>12, <1>14, <1>20, <3>1
  <2> QED BY <2>1, <2>2
<1>22. \A j \in DOMAIN columns' : columns'[j].field \in Nat /\ columns'[j].field <= n
  <2>1. \A j \in DOMAIN columns' : columns'[j].field \in 1 .. Declared
    BY <1>14, <1>15 DEF ColumnsFound
  <2> QED BY <1>7, <1>21, <2>1
<1>23. ColumnsFirst'
  <2>1. CASE elements' # <<>>
    <3>1. ASSUME NEW j \in DOMAIN columns', NEW k \in DOMAIN fields, k # 1
          PROVE  columns'[j].field < fields[k].name
      <4>1. n < fields[k].name /\ fields[k].name \in 1 .. Declared
        BY <1>7, <3>1 DEF Projecting, IRsLeft, IRFor
      <4> QED BY <1>7, <1>22, <4>1
    <3>2. fields' = fields /\ fields[1].name = n
      BY <1>1, <1>2, <1>7, <2>1
    <3> QED BY <1>21, <2>1, <3>1, <3>2 DEF ColumnsFirst
  <2>2. CASE elements' = <<>>
    <3>1. ASSUME NEW j \in DOMAIN columns', NEW k \in DOMAIN fields'
          PROVE  columns'[j].field < fields'[k].name
      <4>1. fields'[k] = fields[k + 1] /\ k + 1 \in DOMAIN fields /\ n < fields[k + 1].name
        BY <1>1, <1>7, <1>8, <2>2
      <4>2. fields[k + 1].name \in 1 .. Declared
        BY <4>1 DEF Projecting, IRsLeft, IRFor
      <4> QED BY <1>7, <1>22, <4>1, <4>2
    <3> QED BY <3>1 DEF ColumnsFirst
  <2> QED BY <2>1, <2>2
<1> QED BY <1>14, <1>16, <1>18, <1>19, <1>23 DEF Projecting

Joined(r, s, t) ==
  /\ Len(s) \in Nat /\ Len(t) \in Nat /\ DOMAIN s = 1 .. Len(s) /\ DOMAIN t = 1 .. Len(t)
  /\ DOMAIN r = 1 .. Len(s) + Len(t)
  /\ \A i \in 1 .. Len(s) : r[i] = s[i]
  /\ \A i \in 1 .. Len(t) : r[Len(s) + i] = t[i]
  /\ \A i \in 1 .. Len(s) + Len(t) :
       i \in 1 .. Len(s) \/ (i - Len(s) \in 1 .. Len(t) /\ i = Len(s) + (i - Len(s)))

LEMMA Concatenated ==
  ASSUME NEW S, NEW s \in Seq(S), NEW T, NEW t \in Seq(T)
  PROVE  Joined(s \o t, s, t)
<1>1. s \in Seq(S \union T) /\ t \in Seq(S \union T)
  OBVIOUS
<1> QED BY <1>1 DEF Joined

LEMMA NestedInTurn ==
  ASSUME FieldInv, ContainerInv, PromiseInv, ProjectInv, stage = "project", Projecting,
         P!OpenNestedTuple, input' = input
  PROVE  Projecting'
<1>1. /\ elements # <<>> /\ P!IsTuple(Head(elements).path) /\ columns' = columns /\ fields' = fields
      /\ elements' = P!ElementsOf(Head(elements).path, P!Bare) \o Tail(elements)
  BY DEF P!OpenNestedTuple
<1>2. PICK n : n = Head(fields).name
  OBVIOUS
<1>3. PICK f : f = input.fields[n]
  OBVIOUS
<1>4. PICK l : l = Len(elements)
  OBVIOUS
<1>5. PICK q : q = elements[1].path
  OBVIOUS
<1>6. PICK es : es = P!ElementsOf(q, P!Bare)
  OBVIOUS
<1>7. PICK m : m = Len(es)
  OBVIOUS
<1>8. /\ fields # <<>> /\ elements \in Seq(TupleElements) /\ Head(elements) = elements[1] /\ l \in Nat \ {0}
      /\ DOMAIN elements = 1 .. l /\ DOMAIN Tail(elements) = 1 .. l - 1
      /\ \A k \in 1 .. l - 1 : Tail(elements)[k] = elements[k + 1]
      /\ \A k \in 1 .. l : elements[k].path \in DOMAIN P!Tree
  BY <1>1, <1>4, WaitingElements
<1>9. /\ Declared \in Nat /\ n \in 1 .. Declared /\ WellFormedField(f)
      /\ NodesFit(f.ty) /\ TreeOf(f, P!Tree) /\ Head(fields) = fields[1]
  BY <1>2, <1>3, <1>8, CurrentKept DEF Projecting
<1>10. 1 \in 1 .. l
  BY <1>8
<1>11. q \in DOMAIN P!Tree /\ q \in DOMAIN f.ty /\ q \in Seq(Nat) /\ P!IsTuple(q) /\ f.ty[q].base = "Tuple"
  <2>1. q \in DOMAIN P!Tree /\ P!IsTuple(q)
    BY <1>1, <1>5, <1>8, <1>10
  <2> QED BY <1>9, <2>1, NodesOfTree
<1>12. /\ m \in Nat \ {0} /\ es \in Seq(RangeOf(es)) /\ DOMAIN es = 1 .. m
       /\ \A i \in 1 .. m : es[i].path = Append(q, i)
       /\ InTurn(es)
       /\ \A p \in DOMAIN f.ty : Under(q, p) /\ p # q => \E i \in DOMAIN es : Under(es[i].path, p)
  <2>1. WellFormedField(f) /\ NodesFit(f.ty) /\ TreeOf(f, P!Tree)
    BY <1>9
  <2>2. q \in DOMAIN P!Tree /\ P!IsTuple(q)
    BY <1>11
  <2>3. OpenedFrom(es, f, q, P!Bare)
    BY <1>6, <2>1, <2>2, ElementsOpened
  <2> QED BY <1>7, <2>3 DEF OpenedFrom
<1>13. elements' = es \o Tail(elements)
  BY <1>1, <1>5, <1>6, <1>8
<1>14. /\ DOMAIN elements' = 1 .. m + (l - 1)
       /\ \A i \in 1 .. m : elements'[i] = es[i]
       /\ \A i \in 1 .. l - 1 : elements'[m + i] = elements[i + 1]
       /\ \A i \in 1 .. m + (l - 1) : i \in 1 .. m \/ (i - m \in 1 .. l - 1 /\ i = m + (i - m))
  <2>1. Tail(elements) \in Seq(TupleElements) /\ Len(Tail(elements)) = l - 1
    BY <1>1, <1>4, <1>8, HeadAndTail
  <2>2. es \in Seq(RangeOf(es))
    BY <1>12
  <2>3. Joined(es \o Tail(elements), es, Tail(elements))
    <3> HIDE DEF TupleElements
    <3> QED BY <2>1, <2>2, Concatenated
  <2> QED BY <1>7, <1>8, <1>13, <2>1, <2>3 DEF Joined
<1>15. /\ \A i \in 1 .. l - 1 : i + 1 \in 2 .. l /\ i + 1 \in DOMAIN elements /\ 1 < i + 1 /\ m + i \in DOMAIN elements'
       /\ \A i \in 1 .. m : i \in DOMAIN elements' /\ i \in Nat
       /\ 1 \in DOMAIN elements
  BY <1>8, <1>12, <1>14
<1>16. elements' # <<>>
  <2>1. 1 \in DOMAIN elements'
    BY <1>12, <1>14, <1>15
  <2> QED BY <2>1
<1>17. \A k \in 1 .. l : elements[k].path \in Seq(Nat)
  BY <1>8, <1>9, NodesOfTree
<1>18. Declared' = Declared
  BY DEF Declared
<1>19. IRsLeft' /\ ColumnsFound' /\ ColumnsInTurn'
  BY <1>1, <1>18 DEF Projecting, IRsLeft, IRFor, TreeOf, ColumnsFound, ColumnsInTurn
<1>20. ASSUME NEW i \in 1 .. Declared, NEW p \in LeafPaths(input.fields[i])
       PROVE  HasColumn(i, p)' \/ Waits(i, p)'
  <2>1. CASE HasColumn(i, p)
    BY <1>1, <2>1 DEF HasColumn
  <2>2. CASE Waits(i, p)
    <3>1. PICK k \in DOMAIN fields :
            fields[k].name = i /\ (k = 1 => \E e \in DOMAIN elements : Under(elements[e].path, p))
      BY <1>1, <2>2 DEF Waits
    <3>2. CASE k = 1
      <4>1. i = n /\ p \in DOMAIN f.ty /\ f.ty[p].base # "Tuple"
        BY <1>2, <1>3, <1>9, <1>20, <3>1, <3>2 DEF LeafPaths
      <4>2. PICK e \in DOMAIN elements : Under(elements[e].path, p)
        BY <3>1, <3>2
      <4>3. \E d \in DOMAIN elements' : Under(elements'[d].path, p)
        <5>1. CASE e = 1
          <6>1. PICK d \in 1 .. m : Under(es[d].path, p)
            BY <1>5, <1>11, <1>12, <4>1, <4>2, <5>1
          <6> QED BY <1>14, <1>15, <6>1
        <5>2. CASE e # 1
          <6>1. e - 1 \in 1 .. l - 1 /\ (e - 1) + 1 = e
            BY <1>8, <5>2
          <6>2. elements'[m + (e - 1)] = elements[e] /\ m + (e - 1) \in DOMAIN elements'
            BY <1>14, <1>15, <6>1
          <6> QED BY <4>2, <6>2
        <5> QED BY <5>1, <5>2
      <4> QED BY <1>1, <3>1, <3>2, <4>3 DEF Waits
    <3>3. CASE k # 1
      BY <1>1, <3>1, <3>3 DEF Waits
    <3> QED BY <3>2, <3>3
  <2> QED BY <1>20, <2>1, <2>2 DEF Projecting, LeavesCovered
<1>21. LeavesCovered'
  BY <1>18, <1>20 DEF LeavesCovered
<1>22. ASSUME NEW d \in DOMAIN elements', NEW e \in DOMAIN elements', d < e
       PROVE  PathBefore(elements'[d].path, elements'[e].path)
  <2>1. CASE e \in 1 .. m
    <3>1. d \in 1 .. m
      BY <1>12, <1>14, <1>22, <2>1
    <3> QED BY <1>12, <1>14, <1>22, <2>1, <3>1 DEF InTurn
  <2>2. CASE d \in 1 .. m /\ e - m \in 1 .. l - 1 /\ e = m + (e - m)
    <3>1. elements'[d].path = Append(q, d) /\ elements'[e] = elements[(e - m) + 1] /\ d \in Nat
      BY <1>12, <1>14, <1>15, <2>2
    <3>2. PathBefore(q, elements[(e - m) + 1].path) /\ elements[(e - m) + 1].path \in Seq(Nat)
      <4>1. (e - m) + 1 \in DOMAIN elements /\ 1 < (e - m) + 1
        BY <1>15, <2>2
      <4> QED BY <1>5, <1>8, <1>15, <1>17, <4>1 DEF Projecting, InTurn
    <3> QED BY <1>11, <3>1, <3>2, BeforeExtended
  <2>3. CASE d - m \in 1 .. l - 1 /\ d = m + (d - m) /\ e - m \in 1 .. l - 1 /\ e = m + (e - m)
    <3>1. elements'[d] = elements[(d - m) + 1] /\ elements'[e] = elements[(e - m) + 1]
      BY <1>14, <2>3
    <3>2. (d - m) + 1 \in DOMAIN elements /\ (e - m) + 1 \in DOMAIN elements /\ (d - m) + 1 < (e - m) + 1
      BY <1>12, <1>15, <1>22, <2>3
    <3> QED BY <3>1, <3>2 DEF Projecting, InTurn
  <2>4. d \in 1 .. m \/ (d - m \in 1 .. l - 1 /\ d = m + (d - m))
    BY <1>14
  <2>5. e \in 1 .. m \/ (e - m \in 1 .. l - 1 /\ e = m + (e - m))
    BY <1>14
  <2> QED BY <2>1, <2>2, <2>3, <2>4, <2>5
<1>23. ASSUME NEW p \in Seq(Nat), \A d \in DOMAIN elements : PathBefore(p, elements[d].path)
       PROVE  \A d \in DOMAIN elements' : PathBefore(p, elements'[d].path)
  <2> TAKE d \in DOMAIN elements'
  <2>1. CASE d \in 1 .. m
    <3>1. elements'[d].path = Append(q, d) /\ PathBefore(p, q) /\ d \in Nat
      BY <1>5, <1>12, <1>14, <1>15, <1>23, <2>1
    <3> QED BY <1>11, <3>1, BeforeExtended
  <2>2. CASE d - m \in 1 .. l - 1 /\ d = m + (d - m)
    <3>1. elements'[d] = elements[(d - m) + 1] /\ (d - m) + 1 \in DOMAIN elements
      BY <1>14, <1>15, <2>2
    <3> QED BY <1>23, <3>1
  <2> QED BY <1>14, <2>1, <2>2
<1>24. \A j \in DOMAIN columns : columns[j].path \in Seq(Nat)
  <2> TAKE j \in DOMAIN columns
  <2>1. columns[j].field \in 1 .. Declared /\ columns[j].path \in LeafPaths(input.fields[columns[j].field])
    BY DEF Projecting, ColumnsFound
  <2>2. WellFormedField(input.fields[columns[j].field])
    BY <2>1, InputWritten DEF FieldInv, Source
  <2> QED BY <2>1, <2>2 DEF LeafPaths, WellFormedField
<1>25. ColumnsFirst'
  BY <1>1, <1>16, <1>23, <1>24 DEF Projecting, ColumnsFirst
<1>26. InTurn(elements')
  BY <1>22 DEF InTurn
<1> QED BY <1>19, <1>21, <1>25, <1>26 DEF Projecting

LEMMA ColumnsBegun ==
  ASSUME FieldInv, ProjectInv, PromiseInv, AllLowered
  PROVE  ColumnInv'
<1>1. stage = "fields" /\ stage' = "project" /\ UNCHANGED <<input, fields, elements, columns>>
  BY DEF AllLowered, projectVars
<1>2. columns = <<>> /\ elements = <<>> /\ IRsRead
  BY <1>1 DEF PromiseInv, FieldsInv, ProjectInv, Opened
<1>3. Done = Declared /\ Declared' = Declared
  BY <1>1, AllRead DEF PromiseInv, Declared
<1>4. DOMAIN columns' = {} /\ DOMAIN elements' = {}
  BY <1>1, <1>2
<1>5. IRsLeft'
  BY <1>1, <1>2, <1>3 DEF IRsRead, IRsLeft, IRFor, TreeOf
<1>6. ColumnsFound' /\ ColumnsInTurn' /\ ColumnsFirst' /\ InTurn(elements')
  BY <1>4 DEF ColumnsFound, ColumnsInTurn, ColumnsFirst, InTurn
<1>7. ASSUME NEW i \in 1 .. Declared, NEW p \in LeafPaths(input.fields[i]) PROVE Waits(i, p)'
  <2>1. Kept(input.fields[i])
    BY <1>7 DEF LeafPaths
  <2>2. \E k \in DOMAIN fields : fields[k].name = i
    BY <1>2, <1>3, <2>1 DEF IRsRead
  <2> QED BY <1>1, <1>2, <2>2 DEF Waits
<1>8. LeavesCovered'
  BY <1>1, <1>3, <1>7 DEF LeavesCovered
<1> QED BY <1>1, <1>5, <1>6, <1>8 DEF ColumnInv, Projecting

LEMMA ColumnsKept ==
  ASSUME ColumnInv, UNCHANGED <<input, fields, elements, columns>>,
         stage' \in {"project", "derived"} => stage \in {"project", "derived"},
         stage' = "derived" => fields = <<>>
  PROVE  ColumnInv'
<1>1. Declared' = Declared
  BY DEF Declared
<1>2. IRsLeft' = IRsLeft
  BY <1>1 DEF IRsLeft, IRFor, TreeOf
<1>3. ColumnsFound' = ColumnsFound /\ ColumnsInTurn' = ColumnsInTurn /\ ColumnsFirst' = ColumnsFirst
  BY <1>1 DEF ColumnsFound, ColumnsInTurn, ColumnsFirst
<1>4. \A i, p : HasColumn(i, p)' = HasColumn(i, p) /\ Waits(i, p)' = Waits(i, p)
  BY DEF HasColumn, Waits
<1>5. LeavesCovered' = LeavesCovered
  BY <1>1, <1>4 DEF LeavesCovered
<1> QED BY <1>2, <1>3, <1>5 DEF ColumnInv, Projecting

LEMMA NextColumns ==
  FieldInv /\ ContainerInv /\ ProjectInv /\ PromiseInv /\ ColumnInv /\ [Next]_vars => ColumnInv'
<1> SUFFICES ASSUME FieldInv, ContainerInv, ProjectInv, PromiseInv, ColumnInv, [Next]_vars PROVE ColumnInv'
  OBVIOUS
<1>1. CASE ConfigStep \/ ConfigRefused \/ ParseStruct \/ RefuseKind \/ StartField \/ FieldStep \/ KeepField
             \/ DropField \/ FieldRefused
  <2>1. stage' \in {"config", "fields", "failed"}
    BY <1>1 DEF ConfigStep, ConfigRefused, ParseStruct, RefuseKind, StartField, FieldStep, KeepField,
                DropField, FieldRefused
  <2> QED BY <2>1 DEF ColumnInv
<1>2. CASE AllLowered
  BY <1>2, ColumnsBegun
<1>3. CASE ProjectStep
  <2>1. stage = "project" /\ stage' = stage /\ input' = input /\ P!Next
    BY <1>3 DEF ProjectStep
  <2>2. Projecting'
    BY <2>1, FieldInTurn, TupleInTurn, ElementInTurn, NestedInTurn DEF P!Next, ColumnInv
  <2> QED BY <2>1, <2>2 DEF ColumnInv
<1>4. CASE AllProjected
  BY <1>4, ColumnsKept DEF AllProjected, projectVars
<1>5. CASE UNCHANGED vars
  BY <1>5, ColumnsKept DEF vars, projectVars, ColumnInv
<1> QED BY <1>1, <1>2, <1>3, <1>4, <1>5 DEF Next

LEMMA InitColumns == Init => ColumnInv
BY DEF Init, ColumnInv

LEMMA SpecColumns == Spec => []ColumnInv
BY InitColumns, NextColumns, ConfigFromOverrides, SpecProject, SpecPromise, PTL DEF Spec

(* Every leaf of every field that is not skipped has one column, and these *)
(* are in the order the leaves are written in, however many fields there   *)
(* are and however deep their tuples nest: no leaf is lost between the     *)
(* elements that wait, and no element is taken before its neighbours.      *)
THEOREM ColumnForEveryLeaf == Spec => []ColumnPerLeaf
<1>1. ASSUME FieldInv, ContainerInv, ColumnInv, stage = "derived"
      PROVE  /\ {<<columns[k].field, columns[k].path>> : k \in DOMAIN columns}
                  = UNION {{<<f.name, p>> : p \in LeafPaths(f)} : f \in {input.fields[i] : i \in DOMAIN input.fields}}
             /\ \A j, k \in DOMAIN columns : j < k => ColumnBefore(columns[j], columns[k])
  <2> DEFINE C0 == {<<columns[k].field, columns[k].path>> : k \in DOMAIN columns}
             L0 == UNION {{<<f.name, p>> : p \in LeafPaths(f)} : f \in {input.fields[i] : i \in DOMAIN input.fields}}
  <2>1. fields = <<>> /\ Projecting
    BY <1>1 DEF ColumnInv
  <2>2. /\ DOMAIN input.fields = 1 .. Declared
        /\ \A i \in 1 .. Declared : input.fields[i].name = i
    BY <1>1, InputWritten DEF FieldInv, Source
  <2>3. \A i \in 1 .. Declared : \A p \in LeafPaths(input.fields[i]) : HasColumn(i, p)
    <3>1. \A i, p : ~Waits(i, p)
      BY <2>1 DEF Waits
    <3> QED BY <2>1, <3>1 DEF Projecting, LeavesCovered
  <2>4. ASSUME NEW x \in C0 PROVE x \in L0
    <3>1. PICK k \in DOMAIN columns : x = <<columns[k].field, columns[k].path>>
      BY <2>4
    <3>2. columns[k].field \in 1 .. Declared /\ columns[k].path \in LeafPaths(input.fields[columns[k].field])
      BY <2>1 DEF Projecting, ColumnsFound
    <3> QED BY <2>2, <3>1, <3>2
  <2>5. ASSUME NEW x \in L0 PROVE x \in C0
    <3>1. PICK i \in 1 .. Declared : x \in {<<input.fields[i].name, p>> : p \in LeafPaths(input.fields[i])}
      BY <2>2, <2>5
    <3>2. PICK p \in LeafPaths(input.fields[i]) : x = <<i, p>>
      BY <2>2, <3>1
    <3>3. PICK k \in DOMAIN columns : columns[k].field = i /\ columns[k].path = p
      BY <2>3 DEF HasColumn
    <3> QED BY <3>2, <3>3
  <2>6. C0 = L0
    BY <2>4, <2>5
  <2> QED BY <2>1, <2>6 DEF Projecting, ColumnsInTurn
<1>2. FieldInv /\ ContainerInv /\ ColumnInv => ColumnPerLeaf
  BY <1>1 DEF ColumnPerLeaf
<1> QED BY <1>2, ConfigFromOverrides, SpecField, SpecColumns, PTL

-----------------------------------------------------------------------------
-----------------------------------------------------------------------------
(* What is around a leaf: the wrappers of at most two nodes count, since a *)
(* tuple in a tuple has none and neither has the tuple it is in.           *)

LEMMA OnOneNode ==
  ASSUME NEW A, IsFiniteSet(A), NEW n
  PROVE  IsFiniteSet({n} \X A) /\ Cardinality({n} \X A) = Cardinality(A)
<1>1. IsFiniteSet({n}) /\ Cardinality({n}) = 1
  BY FS_Singleton
<1>2. IsFiniteSet({n} \X A) /\ Cardinality({n} \X A) = 1 * Cardinality(A)
  BY <1>1, FS_Product
<1>3. Cardinality(A) \in Nat
  BY FS_CardinalityType
<1> QED BY <1>2, <1>3

LEMMA OnTwoNodes ==
  ASSUME NEW A, IsFiniteSet(A), NEW B, IsFiniteSet(B), NEW n, n # 0
  PROVE  Cardinality(({0} \X A) \union ({n} \X B)) = Cardinality(A) + Cardinality(B)
<1> DEFINE S == {0} \X A
           T == {n} \X B
<1>1. /\ IsFiniteSet(S) /\ Cardinality(S) = Cardinality(A)
      /\ IsFiniteSet(T) /\ Cardinality(T) = Cardinality(B)
  BY OnOneNode
<1>2. S \cap T = {}
  OBVIOUS
<1>3. Cardinality(A) \in Nat /\ Cardinality(B) \in Nat
  BY FS_CardinalityType
<1> HIDE DEF S, T
<1>4. Cardinality(S \union T) = Cardinality(S) + Cardinality(T) - Cardinality(S \cap T)
  BY <1>1, FS_Union
<1>5. Cardinality(S \cap T) = 0
  BY <1>2, FS_EmptySet
<1>6. Cardinality(S \union T) = Cardinality(A) + Cardinality(B)
  BY <1>1, <1>3, <1>4, <1>5
<1> QED BY <1>6 DEF S, T

(* A stack s at node 0 and a stack t at a node n below it.                 *)
Stacked(s, t, n, kind) == ({0} \X Places(s, kind)) \union ({n} \X Places(t, kind))
OutsideOf(V, w) == Cardinality({v \in V : Outside(v, w)})
NullBelow(V, W, k) == \E w \in W : OutsideOf(V, w) = k

LEMMA StackedLevels ==
  ASSUME NEW S, NEW s \in Seq(S), NEW t \in Seq(S), NEW n \in Nat \ {0}
  PROVE  /\ Cardinality(Stacked(s, t, n, "Vec")) = VecCount(s) + VecCount(t)
         /\ \A k : NullBelow(Stacked(s, t, n, "Vec"), Stacked(s, t, n, "Option"), k)
                     <=> k \in Levels(s) \union Below(VecCount(s), Levels(t))
<1> DEFINE V == Stacked(s, t, n, "Vec")
           W == Stacked(s, t, n, "Option")
<1>1. /\ IsFiniteSet(Places(s, "Vec")) /\ IsFiniteSet(Places(t, "Vec"))
      /\ \A i : IsFiniteSet(Above(s, i)) /\ Cardinality(Above(s, i)) \in Nat
      /\ \A i : IsFiniteSet(Above(t, i)) /\ Cardinality(Above(t, i)) \in Nat
  BY PlacesFinite
<1>2. Cardinality(V) = VecCount(s) + VecCount(t)
  BY <1>1, OnTwoNodes DEF Stacked, VecCount
<1>3. \A kind : \A i \in Places(s, kind) : i \in Nat
  BY DEF Places
<1>4. \A kind : \A i \in Places(t, kind) : i \in Nat
  BY DEF Places
<1>5. ASSUME NEW i \in Places(s, "Option")
      PROVE  OutsideOf(V, <<0, i>>) = Cardinality(Above(s, i))
  <2>1. {v \in V : Outside(v, <<0, i>>)} = {0} \X Above(s, i)
    BY DEF Stacked, Outside, Above
  <2> QED BY <1>1, <2>1, OnOneNode DEF OutsideOf
<1>6. ASSUME NEW i \in Places(t, "Option")
      PROVE  OutsideOf(V, <<n, i>>) = VecCount(s) + Cardinality(Above(t, i))
  <2>1. PICK X : X = ({0} \X Places(s, "Vec")) \union ({n} \X Above(t, i))
    OBVIOUS
  <2>2. ASSUME NEW v
        PROVE  v \in V /\ Outside(v, <<n, i>>) <=> v \in X
    <3>0. v \in X <=> v \in ({0} \X Places(s, "Vec")) \union ({n} \X Above(t, i))
      BY <2>1
    <3>1. CASE v \in {0} \X Places(s, "Vec")
      <4>1. v[1] = 0 /\ Outside(v, <<n, i>>)
        BY <3>1 DEF Outside
      <4> QED BY <3>0, <3>1, <4>1 DEF Stacked
    <3>2. CASE v \in {n} \X Places(t, "Vec")
      <4>1. v[1] = n /\ v[2] \in Places(t, "Vec") /\ v = <<n, v[2]>>
        BY <3>2
      <4>2. Outside(v, <<n, i>>) <=> v[2] < i
        BY <4>1 DEF Outside
      <4> QED BY <3>0, <3>2, <4>1, <4>2 DEF Stacked, Above
    <3>3. CASE v \notin {0} \X Places(s, "Vec") /\ v \notin {n} \X Places(t, "Vec")
      BY <3>0, <3>3 DEF Stacked, Above
    <3> QED BY <3>1, <3>2, <3>3
  <2>3. OutsideOf(V, <<n, i>>) = Cardinality(X)
    <3> HIDE DEF V
    <3>1. {v \in V : Outside(v, <<n, i>>)} = X
      BY <2>2
    <3> QED BY <3>1 DEF OutsideOf
  <2>4. Cardinality(X) = Cardinality(Places(s, "Vec")) + Cardinality(Above(t, i))
    BY <1>1, <2>1, OnTwoNodes
  <2> HIDE DEF V
  <2> QED BY <2>3, <2>4 DEF VecCount
<1>7. /\ \A k : k \in Levels(s) <=> NullAt(s, k)
      /\ \A k : k \in Levels(t) <=> NullAt(t, k)
  BY LevelsOf
<1>8. \A w : w \in W <=> \/ \E i \in Places(s, "Option") : w = <<0, i>>
                         \/ \E i \in Places(t, "Option") : w = <<n, i>>
  BY DEF Stacked
<1> HIDE DEF V, W
<1>9. ASSUME NEW k
      PROVE  NullBelow(V, W, k) <=> k \in Levels(s) \union Below(VecCount(s), Levels(t))
  <2>1. NullBelow(V, W, k) <=> \/ \E i \in Places(s, "Option") : Cardinality(Above(s, i)) = k
                               \/ \E i \in Places(t, "Option") : VecCount(s) + Cardinality(Above(t, i)) = k
    <3>1. NullBelow(V, W, k) <=> \/ \E i \in Places(s, "Option") : OutsideOf(V, <<0, i>>) = k
                                 \/ \E i \in Places(t, "Option") : OutsideOf(V, <<n, i>>) = k
      BY <1>8, Zenon DEF NullBelow
    <3> QED BY <1>5, <1>6, <3>1
  <2>2. k \in Levels(s) <=> \E i \in Places(s, "Option") : Cardinality(Above(s, i)) = k
    BY <1>7 DEF NullAt
  <2>3. k \in Below(VecCount(s), Levels(t))
          <=> \E i \in Places(t, "Option") : VecCount(s) + Cardinality(Above(t, i)) = k
    <3>1. k \in Below(VecCount(s), Levels(t)) <=> \E j \in Levels(t) : k = VecCount(s) + j
      BY DEF Below
    <3>2. \A j : j \in Levels(t) <=> \E i \in Places(t, "Option") : Cardinality(Above(t, i)) = j
      BY <1>7 DEF NullAt
    <3> QED BY <3>1, <3>2
  <2> QED BY <2>1, <2>2, <2>3
<1> QED BY <1>2, <1>9 DEF V, W

-----------------------------------------------------------------------------
LaidOut(shape, f, p) ==
  /\ Depth(shape) = Cardinality(Around(f, p, "Vec"))
  /\ \A l \in DOMAIN shape.layers : HasOuterValidity(shape.layers[l]) <=> NullableBelow(f, p, l - 1)
  /\ HasInnerOption(shape) <=> NullableBelow(f, p, Depth(shape))

LEMMA NestedAround ==
  ASSUME NEW f, NEW p, NEW shape, GoodShape(shape), NEW d, NEW N, Nested(shape, d, N),
         Cardinality(Around(f, p, "Vec")) = d, \A k : NullableBelow(f, p, k) <=> k \in N
  PROVE  LaidOut(shape, f, p)
<1>1. DOMAIN shape.layers = 1 .. d
  BY DEF GoodShape, Shapes, Nested, Depth
<1> QED BY <1>1 DEF LaidOut, Nested

(* The wrappers around a node are the stack s and its own.                 *)
OnStack(f, p, s) ==
  \A kind \in {"Vec", "Option"} : Around(f, p, kind) = Stacked(s, SpineOf(f, p), Len(p), kind)

LEMMA AroundStacked ==
  ASSUME NEW f, NEW p, NEW s \in Seq(SpineSteps), OnStack(f, p, s), SpineOf(f, p) \in Seq(SpineSteps),
         Len(p) \in Nat \ {0}
  PROVE  /\ Cardinality(Around(f, p, "Vec")) = VecCount(s) + VecCount(SpineOf(f, p))
         /\ \A k : NullableBelow(f, p, k) <=> k \in Levels(s) \union Below(VecCount(s), Levels(SpineOf(f, p)))
<1>1. PICK t : t = SpineOf(f, p)
  OBVIOUS
<1>2. PICK V : V = Stacked(s, t, Len(p), "Vec")
  OBVIOUS
<1>3. PICK W : W = Stacked(s, t, Len(p), "Option")
  OBVIOUS
<1>4. Around(f, p, "Vec") = V /\ Around(f, p, "Option") = W
  BY <1>1, <1>2, <1>3 DEF OnStack
<1>5. /\ Cardinality(V) = VecCount(s) + VecCount(t)
      /\ \A k : NullBelow(V, W, k) <=> k \in Levels(s) \union Below(VecCount(s), Levels(t))
  <2> HIDE DEF SpineSteps
  <2> QED BY <1>1, <1>2, <1>3, StackedLevels
<1>6. \A k : NullableBelow(f, p, k) <=> NullBelow(V, W, k)
  BY <1>4, Zenon DEF NullableBelow, NullBelow, OutsideOf
<1> QED BY <1>1, <1>4, <1>5, <1>6

LEMMA ElementLaidOut ==
  ASSUME NEW f, NEW p, Len(p) \in Nat \ {0}, NEW s \in Seq(SpineSteps), OnStack(f, p, s),
         SpineOf(f, p) \in Seq(SpineSteps),
         NEW parent, GoodShape(parent), ShapedBy(parent, s),
         NEW shape, GoodShape(shape), ShapedBy(shape, SpineOf(f, p))
  PROVE  LaidOut(Compose(parent, shape), f, p)
<1>1. PICK t : t = SpineOf(f, p)
  OBVIOUS
<1>2. PICK d : d = VecCount(s)
  OBVIOUS
<1>3. PICK e : e = VecCount(t)
  OBVIOUS
<1>4. PICK N : N = Levels(s)
  OBVIOUS
<1>5. PICK M : M = Levels(t)
  OBVIOUS
<1>6. /\ d \in Nat /\ N \in SUBSET (0 .. d)
      /\ e \in Nat /\ M \in SUBSET (0 .. e)
  <2> HIDE DEF SpineSteps
  <2> QED BY <1>1, <1>2, <1>3, <1>4, <1>5, LevelsOf
<1>7. Nested(parent, d, N) /\ Nested(shape, e, M)
  BY <1>1, <1>2, <1>3, <1>4, <1>5 DEF ShapedBy
<1>8. Nested(Compose(parent, shape), d + e, N \union Below(d, M))
  BY <1>6, <1>7, NestedComposed
<1>9. GoodShape(Compose(parent, shape))
  BY ComposeGood
<1>10. /\ Cardinality(Around(f, p, "Vec")) = d + e
       /\ \A k : NullableBelow(f, p, k) <=> k \in N \union Below(d, M)
  BY <1>1, <1>2, <1>3, <1>4, <1>5, AroundStacked
<1> QED BY <1>8, <1>9, <1>10, NestedAround

LEMMA NoneBelow == \A d : Below(d, {}) = {}
BY DEF Below

LEMMA FieldLaidOut ==
  ASSUME NEW f, SpineOf(f, Root) \in Seq(SpineSteps),
         NEW shape, GoodShape(shape), ShapedBy(shape, SpineOf(f, Root))
  PROVE  LaidOut(shape, f, Root)
<1>1. PICK s : s = SpineOf(f, Root)
  OBVIOUS
<1>2. PICK V : V = Around(f, Root, "Vec")
  OBVIOUS
<1>3. PICK W : W = Around(f, Root, "Option")
  OBVIOUS
<1>4. \A kind : Around(f, Root, kind) = {0} \X Places(s, kind)
  <2>1. SubSeq(Root, 1, 0) = Root /\ 0 .. Len(Root) = {0}
    BY DEF Root
  <2> QED BY <1>1, <2>1 DEF Around
<1>5. \A kind : Places(<<>>, kind) = {}
  BY DEF Places
<1>6. V = Stacked(s, <<>>, 1, "Vec") /\ W = Stacked(s, <<>>, 1, "Option")
  BY <1>2, <1>3, <1>4, <1>5 DEF Stacked
<1>7. VecCount(<<>>) = 0 /\ Levels(<<>>) = {}
  BY StackEmpty DEF Levels
<1>8. /\ VecCount(s) \in Nat /\ Cardinality(V) = VecCount(s)
      /\ \A k : NullBelow(V, W, k) <=> k \in Levels(s)
  <2> HIDE DEF SpineSteps
  <2>1. <<>> \in Seq(SpineSteps) /\ s \in Seq(SpineSteps) /\ 1 \in Nat \ {0}
    BY <1>1
  <2>2. /\ Cardinality(V) = VecCount(s) + 0
        /\ \A k : NullBelow(V, W, k) <=> k \in Levels(s) \union {}
    BY <1>6, <1>7, <2>1, StackedLevels, NoneBelow
  <2>3. VecCount(s) \in Nat
    BY <2>1, PlacesFinite
  <2> QED BY <2>2, <2>3
<1>9. \A k : NullableBelow(f, Root, k) <=> NullBelow(V, W, k)
  BY <1>2, <1>3, Zenon DEF NullableBelow, NullBelow, OutsideOf
<1>10. Nested(shape, VecCount(s), Levels(s))
  BY <1>1 DEF ShapedBy
<1> QED BY <1>2, <1>8, <1>9, <1>10, NestedAround

-----------------------------------------------------------------------------
LEMMA StartOfStart ==
  ASSUME NEW S, NEW q \in Seq(S), NEW n \in 1 .. Len(q)
  PROVE  SubSeq(SubSeq(q, 1, n), 1, n - 1) = SubSeq(q, 1, n - 1)
<1>1. PICK r : r = SubSeq(q, 1, n)
  OBVIOUS
<1>2. n \in 0 .. Len(q) /\ n - 1 \in 0 .. Len(q)
  OBVIOUS
<1>3. r \in Seq(S) /\ Len(r) = n /\ \A i \in 1 .. n : r[i] = q[i]
  BY <1>1, <1>2, StartOf
<1>4. PICK s : s = SubSeq(r, 1, n - 1)
  OBVIOUS
<1>5. n - 1 \in 0 .. Len(r)
  BY <1>3
<1>6. s \in Seq(S) /\ Len(s) = n - 1 /\ \A i \in 1 .. n - 1 : s[i] = r[i]
  BY <1>3, <1>4, <1>5, StartOf
<1>7. PICK t : t = SubSeq(q, 1, n - 1)
  OBVIOUS
<1>8. t \in Seq(S) /\ Len(t) = n - 1 /\ \A i \in 1 .. n - 1 : t[i] = q[i]
  BY <1>2, <1>7, StartOf
<1>9. s = t
  BY <1>3, <1>6, <1>8
<1> QED BY <1>1, <1>4, <1>7, <1>9

LEMMA SameSteps ==
  ASSUME NEW S, NEW r \in Seq(S), NEW s \in Seq(S), Len(r) = Len(s), \A j \in 1 .. Len(r) : r[j] = s[j]
  PROVE  r = s
OBVIOUS

LEMMA StepDown ==
  ASSUME NEW f, WellFormedField(f), NEW q \in DOMAIN f.ty, NEW n \in 1 .. Len(q)
  PROVE  SubSeq(q, 1, n) \in Elements(f.ty, SubSeq(q, 1, n - 1)) /\ SubSeq(q, 1, n - 1) \in DOMAIN f.ty
<1>1. q \in Seq(Nat) /\ n \in 0 .. Len(q) /\ n - 1 \in 0 .. Len(q)
  BY DEF WellFormedField
<1>2. PICK r : r = SubSeq(q, 1, n)
  OBVIOUS
<1>3. r \in DOMAIN f.ty /\ SubSeq(q, 1, n - 1) \in DOMAIN f.ty
  BY <1>1, <1>2 DEF WellFormedField
<1>4. Len(r) = n /\ r # Root
  <2>1. Len(r) = n
    BY <1>1, <1>2, StartOf
  <2>2. Len(Root) = 0
    BY DEF Root
  <2> QED BY <1>1, <2>1, <2>2
<1>5. Front(r) = SubSeq(q, 1, n - 1)
  <2>1. Front(r) = SubSeq(r, 1, n - 1)
    BY <1>4, Zenon DEF Front
  <2> QED BY <1>1, <1>2, <2>1, StartOfStart
<1> QED BY <1>2, <1>3, <1>4, <1>5 DEF Elements

LEMMA TuplesBare ==
  ASSUME NEW f, WellFormedField(f), NodesFit(f.ty), NEW q \in DOMAIN f.ty, q # Root,
         f.ty[q].base = "Tuple", NEW kind \in {"Vec", "Option"}
  PROVE  Around(f, q, kind) = {}
<1>1. q \in Seq(Nat) /\ Len(q) \in Nat \ {0} /\ SubSeq(q, 1, Len(q)) = q
  <2>1. q \in Seq(Nat)
    BY DEF WellFormedField
  <2> QED BY <2>1 DEF Root
<1>2. \A n \in 1 .. Len(q) : /\ SubSeq(q, 1, n) \in Elements(f.ty, SubSeq(q, 1, n - 1))
                             /\ SubSeq(q, 1, n - 1) \in DOMAIN f.ty
  BY StepDown
<1>3. \A n \in 0 .. Len(q) : SubSeq(q, 1, n) \in DOMAIN f.ty
  BY DEF WellFormedField
<1>4. ASSUME NEW n \in 0 .. Len(q) PROVE f.ty[SubSeq(q, 1, n)].base = "Tuple"
  <2>1. CASE n = Len(q)
    BY <1>1, <2>1
  <2>2. CASE n # Len(q)
    <3>1. n + 1 \in 1 .. Len(q) /\ (n + 1) - 1 = n
      <4>1. PICK m : m = Len(q)
        OBVIOUS
      <4>2. n \in 0 .. m /\ m \in Nat /\ n # m
        BY <1>1, <2>2, <4>1
      <4>3. n + 1 \in 1 .. m /\ (n + 1) - 1 = n
        BY <4>2
      <4> QED BY <4>1, <4>3
    <3>2. Elements(f.ty, SubSeq(q, 1, n)) # {}
      BY <1>2, <3>1
    <3> QED BY <1>3, <3>2 DEF WellFormedField
  <2> QED BY <2>1, <2>2
<1>5. ASSUME NEW n \in 1 .. Len(q)
      PROVE  NotListed(f.ty[SubSeq(q, 1, n - 1)].spine) /\ NotListed(f.ty[SubSeq(q, 1, n)].spine)
  <2>1. n \in 0 .. Len(q) /\ n - 1 \in 0 .. Len(q)
    BY <1>1
  <2>2. f.ty[SubSeq(q, 1, n)].base = "Tuple" /\ f.ty[SubSeq(q, 1, n - 1)].base = "Tuple"
    BY <1>4, <2>1
  <2>3. NestedTupleAccepted(f.ty)
    BY DEF NodesFit
  <2> QED BY <1>2, <2>2, <2>3 DEF NestedTupleAccepted
<1>6. ASSUME NEW n \in 0 .. Len(q) PROVE Places(SpineOf(f, SubSeq(q, 1, n)), kind) = {}
  <2>1. PICK r : r = SubSeq(q, 1, n)
    OBVIOUS
  <2>2. NotListed(f.ty[r].spine)
    <3>1. CASE n = 0
      <4>1. 1 \in 1 .. Len(q) /\ 1 - 1 = n
        BY <1>1, <3>1
      <4> QED BY <1>5, <2>1, <4>1
    <3>2. CASE n # 0
      <4>1. n \in 1 .. Len(q)
        BY <3>2
      <4> QED BY <1>5, <2>1, <4>1
    <3> QED BY <3>1, <3>2
  <2>3. SpineOf(f, r) = f.ty[r].spine
    BY <1>4, <2>1 DEF SpineOf
  <2> QED BY <2>1, <2>2, <2>3 DEF NotListed, Places
<1> QED BY <1>6 DEF Around

LEMMA AroundElement ==
  ASSUME NEW f, NEW q \in Seq(Nat), NEW i \in Nat, NEW kind
  PROVE  Around(f, Append(q, i), kind)
           = Around(f, q, kind) \union ({Len(q) + 1} \X Places(SpineOf(f, Append(q, i)), kind))
<1>1. PICK p : p = Append(q, i)
  OBVIOUS
<1>2. p \in Seq(Nat) /\ Len(p) = Len(q) + 1 /\ Len(q) \in Nat /\ SubSeq(p, 1, Len(p)) = p
  BY <1>1
<1>3. ASSUME NEW n \in 0 .. Len(q) PROVE SubSeq(p, 1, n) = SubSeq(q, 1, n)
  <2>1. n \in 0 .. Len(p) /\ \A j \in 1 .. n : j \in 1 .. Len(q)
    BY <1>2
  <2>2. PICK r : r = SubSeq(p, 1, n)
    OBVIOUS
  <2>3. PICK s : s = SubSeq(q, 1, n)
    OBVIOUS
  <2>4. r \in Seq(Nat) /\ Len(r) = n /\ \A j \in 1 .. n : r[j] = p[j]
    BY <1>2, <2>1, <2>2, StartOf
  <2>5. s \in Seq(Nat) /\ Len(s) = n /\ \A j \in 1 .. n : s[j] = q[j]
    BY <2>3, StartOf
  <2>6. \A j \in 1 .. n : p[j] = q[j]
    <3>1. \A j \in 1 .. Len(q) : p[j] = q[j]
      BY <1>1, PathExtended
    <3> QED BY <2>1, <3>1
  <2>7. r = s
    <3>1. Len(r) = Len(s) /\ r \in Seq(Nat) /\ s \in Seq(Nat)
      BY <2>4, <2>5
    <3>2. \A j \in 1 .. Len(r) : r[j] = s[j]
      BY <2>4, <2>5, <2>6
    <3> QED BY <3>1, <3>2, SameSteps
  <2> QED BY <2>2, <2>3, <2>7
<1>4. PICK m : m = Len(q)
  OBVIOUS
<1>5. 0 .. m + 1 = (0 .. m) \union {m + 1}
  BY <1>2, <1>4
<1>6. Around(f, p, kind) = UNION {{n} \X Places(SpineOf(f, SubSeq(p, 1, n)), kind) : n \in 0 .. m + 1}
  BY <1>2, <1>4 DEF Around
<1>7. \A x : x \in Around(f, p, kind) <=>
        \/ \E n \in 0 .. m : x \in {n} \X Places(SpineOf(f, SubSeq(p, 1, n)), kind)
        \/ x \in {m + 1} \X Places(SpineOf(f, SubSeq(p, 1, m + 1)), kind)
  BY <1>5, <1>6
<1>8. \A x : x \in Around(f, q, kind) <=> \E n \in 0 .. m : x \in {n} \X Places(SpineOf(f, SubSeq(q, 1, n)), kind)
  BY <1>4 DEF Around
<1>9. \A x : x \in Around(f, p, kind) <=>
        x \in Around(f, q, kind) \/ x \in {m + 1} \X Places(SpineOf(f, p), kind)
  BY <1>2, <1>3, <1>4, <1>7, <1>8
<1>10. Around(f, p, kind) = Around(f, q, kind) \union ({m + 1} \X Places(SpineOf(f, p), kind))
  BY <1>9
<1> QED BY <1>1, <1>4, <1>10

LEMMA RootElement ==
  ASSUME NEW f, NEW i \in Nat
  PROVE  OnStack(f, Append(Root, i), SpineOf(f, Root)) /\ Len(Append(Root, i)) \in Nat \ {0}
<1>1. PICK p : p = Append(Root, i)
  OBVIOUS
<1>2. Root \in Seq(Nat) /\ Len(Root) = 0 /\ Len(p) = 1 /\ 0 + 1 = 1
  BY <1>1 DEF Root
<1>3. \A kind : Around(f, Root, kind) = {0} \X Places(SpineOf(f, Root), kind)
  <2>1. SubSeq(Root, 1, 0) = Root /\ 0 .. Len(Root) = {0}
    BY DEF Root
  <2> QED BY <2>1 DEF Around
<1>4. PICK q : q = Root
  OBVIOUS
<1>5. q \in Seq(Nat) /\ p = Append(q, i) /\ Len(q) + 1 = Len(p)
  BY <1>1, <1>2, <1>4
<1>6. \A kind : Around(f, p, kind) = Around(f, q, kind) \union ({Len(p)} \X Places(SpineOf(f, p), kind))
  BY <1>5, AroundElement
<1>7. OnStack(f, p, SpineOf(f, Root))
  BY <1>3, <1>4, <1>6, Zenon DEF OnStack, Stacked
<1>8. Len(p) \in Nat \ {0}
  BY <1>2
<1> QED BY <1>1, <1>7, <1>8

LEMMA InnerElement ==
  ASSUME NEW f, WellFormedField(f), NodesFit(f.ty), NEW q \in DOMAIN f.ty, q # Root,
         f.ty[q].base = "Tuple", NEW i \in Nat
  PROVE  OnStack(f, Append(q, i), <<>>) /\ Len(Append(q, i)) \in Nat \ {0}
<1>1. PICK p : p = Append(q, i)
  OBVIOUS
<1>2. q \in Seq(Nat) /\ Len(p) = Len(q) + 1 /\ Len(p) \in Nat \ {0}
  <2>1. q \in Seq(Nat)
    BY DEF WellFormedField
  <2> QED BY <1>1, <2>1
<1>3. \A kind \in {"Vec", "Option"} : Around(f, q, kind) = {}
  BY TuplesBare
<1>4. \A kind : Around(f, p, kind) = Around(f, q, kind) \union ({Len(p)} \X Places(SpineOf(f, p), kind))
  BY <1>1, <1>2, AroundElement
<1>5. \A kind : {0} \X Places(<<>>, kind) = {}
  BY DEF Places
<1> QED BY <1>1, <1>2, <1>3, <1>4, <1>5, Zenon DEF OnStack, Stacked

-----------------------------------------------------------------------------
LEMMA SpineTyped ==
  ASSUME NEW f, WellFormedField(f), NEW p \in DOMAIN f.ty
  PROVE  SpineOf(f, p) \in Seq(SpineSteps)
<1>1. f.ty[p].spine \in Seq(SpineSteps)
  BY DEF WellFormedField
<1>2. Front(f.ty[p].spine) \in Seq(SpineSteps)
  <2> HIDE DEF SpineSteps
  <2> QED BY <1>1, FrontTyped
<1> QED BY <1>1, <1>2 DEF SpineOf

(* The columns have the wrappers around their leaves, and what waits has   *)
(* with its tuple's shape those around the tuple.                          *)
Wraps(e, f) ==
  /\ Len(e.path) \in Nat \ {0} /\ GoodShape(e.parent)
  /\ \E s \in Seq(SpineSteps) : OnStack(f, e.path, s) /\ ShapedBy(e.parent, s)
ColumnsLaidOut  == \A k \in DOMAIN columns :
                     LaidOut(columns[k].shape, input.fields[columns[k].field], columns[k].path)
ElementsWrapped == \A k \in DOMAIN elements : Wraps(elements[k], input.fields[Head(fields).name])
ShapeInv == ColumnsLaidOut /\ ElementsWrapped

(* A node of the tree that is projected, its shape from its own wrappers.  *)
LEMMA NodeShaped ==
  ASSUME ProjectInv, fields # <<>>, NEW f, WellFormedField(f), TreeOf(f, P!Tree), NEW p \in DOMAIN P!Tree
  PROVE  /\ p \in DOMAIN f.ty /\ GoodShape(P!Tree[p].shape)
         /\ SpineOf(f, p) \in Seq(SpineSteps) /\ ShapedBy(P!Tree[p].shape, SpineOf(f, p))
<1>1. GoodTree(P!Tree)
  BY CurrentTree DEF ProjectInv
<1>2. GoodShape(P!Tree[p].shape)
  BY <1>1 DEF GoodTree, GoodNodes, GoodShape
<1>3. p \in DOMAIN f.ty /\ ShapedBy(P!Tree[p].shape, SpineOf(f, p))
  BY DEF TreeOf, LoweredFrom
<1> QED BY <1>2, <1>3, SpineTyped

LEMMA ColumnLaidOut ==
  ASSUME ProjectInv, ColumnsLaidOut, NEW c, columns' = Append(columns, c), input' = input,
         LaidOut(c.shape, input.fields[c.field], c.path)
  PROVE  ColumnsLaidOut'
<1>1. PICK n : n = Len(columns)
  OBVIOUS
<1>2. /\ n \in Nat /\ DOMAIN columns = 1 .. n /\ DOMAIN columns' = 1 .. n + 1
      /\ \A j \in 1 .. n : columns'[j] = columns[j]
      /\ columns'[n + 1] = c
  BY <1>1, Appended DEF ProjectInv, Projected
<1>3. ASSUME NEW k \in DOMAIN columns'
      PROVE  LaidOut(columns'[k].shape, input.fields[columns'[k].field], columns'[k].path)
  <2>1. k \in 1 .. n \/ k = n + 1
    BY <1>2
  <2> QED BY <1>2, <2>1 DEF ColumnsLaidOut
<1> QED BY <1>3 DEF ColumnsLaidOut

LEMMA FieldShaped ==
  ASSUME FieldInv, ContainerInv, PromiseInv, ProjectInv, stage = "project", Projecting, ShapeInv,
         P!ProjectField, input' = input
  PROVE  ShapeInv'
<1>1. fields # <<>> /\ columns' = Append(columns, P!FieldColumn) /\ elements' = <<>>
  BY DEF P!ProjectField
<1>2. PICK n : n = Head(fields).name
  OBVIOUS
<1>3. PICK f : f = input.fields[n]
  OBVIOUS
<1>4. WellFormedField(f) /\ TreeOf(f, P!Tree)
  BY <1>1, <1>2, <1>3, CurrentKept DEF Projecting
<1>5. Root \in DOMAIN P!Tree
  BY <1>4 DEF TreeOf, WellFormedField
<1>6. /\ GoodShape(P!Tree[Root].shape) /\ SpineOf(f, Root) \in Seq(SpineSteps)
      /\ ShapedBy(P!Tree[Root].shape, SpineOf(f, Root))
  BY <1>1, <1>4, <1>5, NodeShaped
<1>7. LaidOut(P!Tree[Root].shape, f, Root)
  BY <1>6, FieldLaidOut
<1>8. PICK c : c = P!FieldColumn
  OBVIOUS
<1>9. c.field = n /\ c.path = Root /\ c.shape = P!Tree[Root].shape
  BY <1>2, <1>8 DEF P!FieldColumn, P!Column, Root
<1>10. ColumnsLaidOut'
  BY <1>1, <1>3, <1>7, <1>8, <1>9, ColumnLaidOut DEF ShapeInv
<1>11. ElementsWrapped'
  <2>1. DOMAIN elements' = {}
    BY <1>1
  <2> QED BY <2>1 DEF ElementsWrapped
<1> QED BY <1>10, <1>11 DEF ShapeInv

LEMMA TupleShaped ==
  ASSUME FieldInv, ContainerInv, PromiseInv, ProjectInv, stage = "project", Projecting, ShapeInv,
         P!OpenTuple, input' = input
  PROVE  ShapeInv'
<1>1. /\ fields # <<>> /\ P!IsTuple(Root) /\ fields' = fields /\ columns' = columns
      /\ elements' = P!ElementsOf(Root, P!Tree[Root].shape)
  BY DEF P!OpenTuple, Root
<1>2. PICK n : n = Head(fields).name
  OBVIOUS
<1>3. PICK f : f = input.fields[n]
  OBVIOUS
<1>4. WellFormedField(f) /\ NodesFit(f.ty) /\ TreeOf(f, P!Tree)
  BY <1>1, <1>2, <1>3, CurrentKept DEF Projecting
<1>5. Root \in DOMAIN P!Tree
  BY <1>4 DEF TreeOf, WellFormedField
<1>6. /\ GoodShape(P!Tree[Root].shape) /\ SpineOf(f, Root) \in Seq(SpineSteps)
      /\ ShapedBy(P!Tree[Root].shape, SpineOf(f, Root))
  BY <1>1, <1>4, <1>5, NodeShaped
<1>7. /\ DOMAIN elements' = 1 .. Len(elements')
      /\ \A i \in 1 .. Len(elements') : elements'[i].path = Append(Root, i) /\ elements'[i].parent = P!Tree[Root].shape
  BY <1>1, <1>4, <1>5, ElementsOpened DEF OpenedFrom
<1>8. ASSUME NEW i \in DOMAIN elements' PROVE Wraps(elements'[i], f)
  <2>1. elements'[i].path = Append(Root, i) /\ elements'[i].parent = P!Tree[Root].shape /\ i \in Nat
    BY <1>7
  <2>2. OnStack(f, Append(Root, i), SpineOf(f, Root)) /\ Len(Append(Root, i)) \in Nat \ {0}
    BY <2>1, RootElement
  <2> QED BY <1>6, <2>1, <2>2 DEF Wraps
<1>9. ElementsWrapped'
  BY <1>1, <1>2, <1>3, <1>8 DEF ElementsWrapped
<1>10. ColumnsLaidOut'
  BY <1>1 DEF ShapeInv, ColumnsLaidOut
<1> QED BY <1>9, <1>10 DEF ShapeInv

LEMMA ElementShaped ==
  ASSUME FieldInv, ContainerInv, PromiseInv, ProjectInv, stage = "project", Projecting, ShapeInv,
         P!ProjectElement, input' = input
  PROVE  ShapeInv'
<1>1. /\ elements # <<>> /\ columns' = Append(columns, P!ElementColumn(Head(elements)))
      /\ elements' = Tail(elements) /\ fields' = IF elements' = <<>> THEN Tail(fields) ELSE fields
  BY DEF P!ProjectElement
<1>2. PICK n : n = Head(fields).name
  OBVIOUS
<1>3. PICK f : f = input.fields[n]
  OBVIOUS
<1>4. PICK e : e = Head(elements)
  OBVIOUS
<1>5. PICK l : l = Len(elements)
  OBVIOUS
<1>6. /\ fields # <<>> /\ e = elements[1] /\ l \in Nat \ {0} /\ DOMAIN elements = 1 .. l
      /\ DOMAIN elements' = 1 .. l - 1
      /\ \A k \in 1 .. l - 1 : elements'[k] = elements[k + 1]
      /\ \A k \in 1 .. l : elements[k].path \in DOMAIN P!Tree
  BY <1>1, <1>4, <1>5, WaitingElements
<1>7. WellFormedField(f) /\ TreeOf(f, P!Tree)
  BY <1>2, <1>3, <1>6, CurrentKept DEF Projecting
<1>8. 1 \in 1 .. l /\ \A k \in 1 .. l - 1 : k + 1 \in 1 .. l
  BY <1>6
<1>9. e.path \in DOMAIN P!Tree /\ Wraps(e, f)
  BY <1>2, <1>3, <1>6, <1>8 DEF ShapeInv, ElementsWrapped
<1>10. /\ GoodShape(P!Tree[e.path].shape) /\ SpineOf(f, e.path) \in Seq(SpineSteps)
       /\ ShapedBy(P!Tree[e.path].shape, SpineOf(f, e.path))
  BY <1>6, <1>7, <1>9, NodeShaped
<1>11. PICK s \in Seq(SpineSteps) : OnStack(f, e.path, s) /\ ShapedBy(e.parent, s)
  BY <1>9 DEF Wraps
<1>12. Len(e.path) \in Nat \ {0} /\ GoodShape(e.parent)
  BY <1>9 DEF Wraps
<1>13. LaidOut(Compose(e.parent, P!Tree[e.path].shape), f, e.path)
  BY <1>10, <1>11, <1>12, ElementLaidOut
<1>14. PICK c : c = P!ElementColumn(e)
  OBVIOUS
<1>15. c.field = n /\ c.path = e.path /\ c.shape = Compose(e.parent, P!Tree[e.path].shape)
  BY <1>2, <1>14, SameCompose DEF P!ElementColumn, P!Column
<1>16. ColumnsLaidOut'
  BY <1>1, <1>3, <1>4, <1>13, <1>14, <1>15, ColumnLaidOut DEF ShapeInv
<1>17. ElementsWrapped'
  <2>1. CASE elements' = <<>>
    <3>1. DOMAIN elements' = {}
      BY <2>1
    <3> QED BY <3>1 DEF ElementsWrapped
  <2>2. CASE elements' # <<>>
    <3>1. fields' = fields
      BY <1>1, <2>2
    <3>2. ASSUME NEW k \in DOMAIN elements' PROVE Wraps(elements'[k], f)
      BY <1>2, <1>3, <1>6, <1>8 DEF ShapeInv, ElementsWrapped
    <3> QED BY <1>2, <1>3, <3>1, <3>2 DEF ElementsWrapped
  <2> QED BY <2>1, <2>2
<1> QED BY <1>16, <1>17 DEF ShapeInv

LEMMA BareShaped == ShapedBy(Bare, <<>>)
<1>1. NotListed(<<>>) /\ <<>> \in Seq(RawWrappers)
  BY DEF NotListed
<1> QED BY <1>1, ShapedStart, ShapedEnd, NormalStartGood

LEMMA NestedShaped ==
  ASSUME FieldInv, ContainerInv, PromiseInv, ProjectInv, stage = "project", Projecting, ShapeInv,
         P!OpenNestedTuple, input' = input
  PROVE  ShapeInv'
<1>1. /\ elements # <<>> /\ P!IsTuple(Head(elements).path) /\ columns' = columns /\ fields' = fields
      /\ elements' = P!ElementsOf(Head(elements).path, P!Bare) \o Tail(elements)
  BY DEF P!OpenNestedTuple
<1>2. PICK n : n = Head(fields).name
  OBVIOUS
<1>3. PICK f : f = input.fields[n]
  OBVIOUS
<1>4. PICK l : l = Len(elements)
  OBVIOUS
<1>5. PICK q : q = elements[1].path
  OBVIOUS
<1>6. PICK es : es = P!ElementsOf(q, P!Bare)
  OBVIOUS
<1>7. PICK m : m = Len(es)
  OBVIOUS
<1>8. /\ fields # <<>> /\ elements \in Seq(TupleElements) /\ Head(elements) = elements[1] /\ l \in Nat \ {0}
      /\ DOMAIN elements = 1 .. l /\ DOMAIN Tail(elements) = 1 .. l - 1
      /\ \A k \in 1 .. l - 1 : Tail(elements)[k] = elements[k + 1]
      /\ \A k \in 1 .. l : elements[k].path \in DOMAIN P!Tree
  BY <1>1, <1>4, WaitingElements
<1>9. WellFormedField(f) /\ NodesFit(f.ty) /\ TreeOf(f, P!Tree)
  BY <1>2, <1>3, <1>8, CurrentKept DEF Projecting
<1>10. 1 \in 1 .. l /\ \A k \in 1 .. l - 1 : k + 1 \in 1 .. l
  BY <1>8
<1>11. Wraps(elements[1], f)
  BY <1>2, <1>3, <1>8, <1>10 DEF ShapeInv, ElementsWrapped
<1>12. q \in DOMAIN P!Tree /\ P!IsTuple(q) /\ q # Root
  <2>1. Len(q) # 0
    BY <1>5, <1>11 DEF Wraps
  <2>2. Len(Root) = 0
    BY DEF Root
  <2> QED BY <1>1, <1>5, <1>8, <1>10, <2>1, <2>2
<1>13. q \in DOMAIN f.ty /\ f.ty[q].base = "Tuple"
  BY <1>9, <1>12, NodesOfTree
<1>14. P!Bare = Bare
  BY DEF P!Bare, Bare, P!LeafShape, LeafShape
<1>15. OpenedFrom(es, f, q, P!Bare)
  <2>1. P!IsTuple(q) /\ q \in DOMAIN P!Tree
    BY <1>12
  <2>2. WellFormedField(f) /\ NodesFit(f.ty) /\ TreeOf(f, P!Tree)
    BY <1>9
  <2> QED BY <1>6, <2>1, <2>2, ElementsOpened
<1>16. /\ m \in Nat \ {0} /\ es \in Seq(RangeOf(es)) /\ DOMAIN es = 1 .. m
       /\ \A i \in 1 .. m : es[i].path = Append(q, i) /\ es[i].parent = Bare
  BY <1>7, <1>14, <1>15 DEF OpenedFrom
<1>17. ASSUME NEW i \in 1 .. m PROVE Wraps(es[i], f)
  <2>1. OnStack(f, Append(q, i), <<>>) /\ Len(Append(q, i)) \in Nat \ {0}
    <3>1. i \in Nat /\ WellFormedField(f) /\ NodesFit(f.ty)
      BY <1>9
    <3> QED BY <1>12, <1>13, <3>1, InnerElement
  <2>2. <<>> \in Seq(SpineSteps) /\ GoodShape(Bare)
    BY BareGood
  <2> QED BY <1>16, <2>1, <2>2, BareShaped DEF Wraps
<1>18. /\ DOMAIN elements' = 1 .. m + (l - 1)
       /\ \A i \in 1 .. m : elements'[i] = es[i]
       /\ \A i \in 1 .. l - 1 : elements'[m + i] = elements[i + 1]
       /\ \A i \in 1 .. m + (l - 1) : i \in 1 .. m \/ (i - m \in 1 .. l - 1 /\ i = m + (i - m))
  <2>1. Tail(elements) \in Seq(TupleElements) /\ Len(Tail(elements)) = l - 1
    BY <1>1, <1>4, <1>8, HeadAndTail
  <2>2. Joined(es \o Tail(elements), es, Tail(elements))
    <3> HIDE DEF TupleElements
    <3> QED BY <1>16, <2>1, Concatenated
  <2>3. elements' = es \o Tail(elements)
    BY <1>1, <1>5, <1>6, <1>8
  <2> QED BY <1>7, <1>8, <2>1, <2>2, <2>3 DEF Joined
<1>19. ASSUME NEW d \in DOMAIN elements' PROVE Wraps(elements'[d], f)
  <2>1. CASE d \in 1 .. m
    BY <1>17, <1>18, <2>1
  <2>2. CASE d - m \in 1 .. l - 1 /\ d = m + (d - m)
    <3>1. elements'[d] = elements[(d - m) + 1] /\ (d - m) + 1 \in DOMAIN elements
      BY <1>8, <1>10, <1>18, <2>2
    <3> QED BY <1>2, <1>3, <3>1 DEF ShapeInv, ElementsWrapped
  <2> QED BY <1>18, <2>1, <2>2
<1>20. ElementsWrapped'
  BY <1>1, <1>2, <1>3, <1>19 DEF ElementsWrapped
<1>21. ColumnsLaidOut'
  BY <1>1 DEF ShapeInv, ColumnsLaidOut
<1> QED BY <1>20, <1>21 DEF ShapeInv

LEMMA ShapesKept == ASSUME ShapeInv, UNCHANGED <<input, fields, elements, columns>> PROVE ShapeInv'
BY DEF ShapeInv, ColumnsLaidOut, ElementsWrapped

(* Nothing is projected yet while the attributes or the fields are read.   *)
LEMMA NoneShaped ==
  ASSUME ProjectInv, PromiseInv, stage \in {"config", "fields"}, UNCHANGED <<elements, columns>>
  PROVE  ShapeInv'
<1>1. elements' = <<>> /\ columns' = <<>>
  BY DEF ProjectInv, Opened, PromiseInv, FieldsInv
<1>2. DOMAIN elements' = {} /\ DOMAIN columns' = {}
  BY <1>1
<1> QED BY <1>2 DEF ShapeInv, ColumnsLaidOut, ElementsWrapped

LEMMA NextShapes ==
  FieldInv /\ ContainerInv /\ ProjectInv /\ PromiseInv /\ ColumnInv /\ ShapeInv /\ [Next]_vars => ShapeInv'
<1> SUFFICES ASSUME FieldInv, ContainerInv, ProjectInv, PromiseInv, ColumnInv, ShapeInv, [Next]_vars
             PROVE  ShapeInv'
  OBVIOUS
<1>1. CASE ConfigStep \/ ConfigRefused \/ ParseStruct \/ RefuseKind \/ StartField \/ FieldStep \/ KeepField
             \/ DropField \/ FieldRefused \/ AllLowered
  <2>1. stage \in {"config", "fields"} /\ UNCHANGED <<elements, columns>>
    BY <1>1 DEF ConfigStep, ConfigRefused, ParseStruct, RefuseKind, StartField, FieldStep, KeepField,
                DropField, FieldRefused, AllLowered, projectVars
  <2> QED BY <2>1, NoneShaped
<1>2. CASE ProjectStep
  <2>1. stage = "project" /\ input' = input /\ P!Next /\ Projecting
    BY <1>2 DEF ProjectStep, ColumnInv
  <2> QED BY <2>1, FieldShaped, TupleShaped, ElementShaped, NestedShaped DEF P!Next
<1>3. CASE AllProjected
  BY <1>3, ShapesKept DEF AllProjected, projectVars
<1>4. CASE UNCHANGED vars
  BY <1>4, ShapesKept DEF vars, projectVars
<1> QED BY <1>1, <1>2, <1>3, <1>4 DEF Next

LEMMA InitShapes == Init => ShapeInv
<1> SUFFICES ASSUME Init PROVE ShapeInv
  OBVIOUS
<1>1. DOMAIN elements = {} /\ DOMAIN columns = {}
  BY DEF Init
<1> QED BY <1>1 DEF ShapeInv, ColumnsLaidOut, ElementsWrapped

(* A column is nested as deep as the lists its leaf is in, and is nullable *)
(* exactly at the levels where the type has an Option: whatever its tuples *)
(* and its leaf have around them, no list and no null is lost or counted   *)
(* twice when their shapes are composed.                                   *)
THEOREM ShapesFollowTypes == Spec => []ShapeMatchesPath
<1>1. ShapeInv => ShapeMatchesPath
  BY DEF ShapeInv, ColumnsLaidOut, LaidOut, ShapeMatchesPath
<1> QED BY <1>1, InitShapes, NextShapes, ConfigFromOverrides, SpecProject, SpecPromise, SpecColumns, PTL DEF Spec
=============================================================================
