-------------------------- MODULE ContainerConfig --------------------------
(***************************************************************************)
(* The runtime a derive is generated for: the struct's own                 *)
(* `#[df_derive(...)]` attributes are read into override slots, checked,   *)
(* and completed into the trait paths and the dependency roots that the    *)
(* generated code uses.                                                    *)
(*                                                                         *)
(* A path is the module it names a trait in, the trait, and whether it is  *)
(* plain, that is without generic arguments.  An override that cannot be   *)
(* parsed as a path has the path `NoPath`.                                 *)
(***************************************************************************)
EXTENDS Integers, Sequences

LOCAL INSTANCE FiniteSetsExt

OverrideKeys == {"trait", "columnar", "decimal128_encode"}
NoPath       == [mod |-> <<>>, name |-> "none", plain |-> FALSE]

Packages == <<"df-derive", "df-derive-core", "paft-utils", "paft">>
Builtins == {"df-derive", "df-derive-core"}
LibCrate ==
  [p \in {Packages[i] : i \in DOMAIN Packages} |->
     CASE p = "df-derive" -> "df_derive" [] p = "df-derive-core" -> "df_derive_core"
       [] p = "paft-utils" -> "paft_utils" [] p = "paft" -> "paft"]

VARIABLES
  container,  (* What is written on the struct, what its package calls     *)
              (* each crate, and the target being compiled.                *)
  unread,     (* The items still to be read.                               *)
  slots,      (* The overrides so far.                                     *)
  config,     (* The configuration, once it is built.                      *)
  refusal     (* Why the attributes were refused.                          *)

containerVars == <<container, unread, slots, config, refusal>>

NoConfig == [external |-> <<>>]

-----------------------------------------------------------------------------
(* Discovery.  `Itself` stands for every target of the package, of which   *)
(* only the library has a `crate::dataframe`.                              *)

Root(package) ==
  LET found == container.crates[package]
  IN CASE found = "itself" /\ container.target = LibCrate[package] -> "crate"
       [] found = "itself" /\ container.target # LibCrate[package] -> LibCrate[package]
       [] OTHER -> found

DataframeMod(package) == <<Root(package), "dataframe">>
Depends(package)      == container.crates[package] # "missing"

DefaultMod ==
  LET found == {i \in DOMAIN Packages : Depends(Packages[i])}
  IN IF found = {} THEN <<"crate", "core", "dataframe">>
     ELSE DataframeMod(Packages[Min(found)])

BuiltinMods == {DataframeMod(p) : p \in {b \in Builtins : Depends(b)}}

-----------------------------------------------------------------------------
(* The overrides.                                                          *)

ItemRefused(item) ==
  CASE item.key \notin OverrideKeys -> "unknown_key"
    [] item.key \in OverrideKeys /\ item.path = NoPath -> "invalid_path"
    [] item.key \in OverrideKeys /\ item.path # NoPath ->
         IF item.key \in DOMAIN slots THEN "duplicate_override" ELSE "none"

(* The module a path names the given trait in, <<>> if it does not.        *)
TraitModule(path, name) ==
  IF path.plain /\ path.name = name THEN path.mod ELSE <<>>

Overridden(key) == key \in DOMAIN slots

MixedRuntimeOfTrait ==
  /\ Overridden("trait") /\ Overridden("columnar")
  /\ LET to_df == TraitModule(slots["trait"], "ToDataFrame")
     IN to_df \in BuiltinMods /\ to_df # TraitModule(slots["columnar"], "Columnar")

MixedRuntime ==
  /\ Overridden("trait") /\ Overridden("columnar")
  /\ LET to_df    == TraitModule(slots["trait"], "ToDataFrame")
         columnar == TraitModule(slots["columnar"], "Columnar")
     IN {to_df, columnar} \cap BuiltinMods # {} /\ to_df # columnar

OverridesRefused ==
  CASE Overridden("columnar") /\ ~Overridden("trait") -> "columnar_without_trait"
    [] MixedRuntime -> "mixed_runtime"
    [] OTHER -> "none"

-----------------------------------------------------------------------------
(* The configuration.                                                      *)

Rebase(path, name)       == [path EXCEPT !.name = name]
RuntimeTrait(mod, name)  == [mod |-> mod, name |-> name, plain |-> TRUE]

TraitPath(key, name) ==
  CASE Overridden(key) -> slots[key]
    [] ~Overridden(key) /\ Overridden("trait") -> Rebase(slots["trait"], name)
    [] OTHER -> RuntimeTrait(DefaultMod, name)

ExplicitDefaultDiscovered ==
  IF Overridden("trait") /\ TraitModule(slots["trait"], "ToDataFrame") \in BuiltinMods
  THEN DefaultMod ELSE <<>>

(* The built-in module of an explicit `trait`, <<>> if it has none.        *)
ExplicitDefault ==
  IF Overridden("trait")
  THEN LET mod == TraitModule(slots["trait"], "ToDataFrame")
       IN IF /\ mod \in BuiltinMods
             /\ Overridden("columnar") => TraitModule(slots["columnar"], "Columnar") = mod
          THEN mod ELSE <<>>
  ELSE <<>>

(* Where Polars is taken from: what a dataframe module re-exports, or the  *)
(* dependencies of the deriving crate.                                     *)
Direct == <<"direct">>
External ==
  CASE ExplicitDefault # <<>> -> ExplicitDefault
    [] ExplicitDefault = <<>> /\ ~Overridden("trait") /\ ~Overridden("columnar") -> DefaultMod
    [] OTHER -> Direct

Config ==
  [to_dataframe      |-> TraitPath("trait", "ToDataFrame"),
   columnar          |-> TraitPath("columnar", "Columnar"),
   decimal128_encode |-> TraitPath("decimal128_encode", "Decimal128Encode"),
   external          |-> External]

-----------------------------------------------------------------------------
ContainerLoaded(c) ==
  /\ container = c
  /\ unread = c.items
  /\ slots = <<>>
  /\ config = NoConfig
  /\ refusal = "none"

Reading == refusal = "none" /\ config = NoConfig

Refuse(why) ==
  /\ refusal' = why
  /\ UNCHANGED <<container, unread, slots, config>>

ReadOverride ==
  /\ Reading /\ unread # <<>>
  /\ ItemRefused(Head(unread)) = "none"
  /\ slots' = [k \in DOMAIN slots \union {Head(unread).key} |->
                 IF k = Head(unread).key THEN Head(unread).path ELSE slots[k]]
  /\ unread' = Tail(unread)
  /\ UNCHANGED <<container, config, refusal>>

RefuseOverride ==
  /\ Reading /\ unread # <<>>
  /\ ItemRefused(Head(unread)) # "none"
  /\ Refuse(ItemRefused(Head(unread)))

BuildConfig ==
  /\ Reading /\ unread = <<>>
  /\ OverridesRefused = "none"
  /\ config' = Config
  /\ UNCHANGED <<container, unread, slots, refusal>>

RefuseOverrides ==
  /\ Reading /\ unread = <<>>
  /\ OverridesRefused # "none"
  /\ Refuse(OverridesRefused)

ContainerNext == ReadOverride \/ RefuseOverride \/ BuildConfig \/ RefuseOverrides

-----------------------------------------------------------------------------
(* What an override may say to compile at all: a built-in dataframe module *)
(* has one trait for each of the three roles.                              *)
RoleOf == [trait |-> "ToDataFrame", columnar |-> "Columnar",
           decimal128_encode |-> "Decimal128Encode"]
RolesKept ==
  \A i \in DOMAIN container.items :
    LET item == container.items[i]
    IN item.key \in OverrideKeys /\ item.path.mod \in BuiltinMods =>
         item.path.plain /\ item.path.name = RoleOf[item.key]

(* The generated impls never pair one runtime's `ToDataFrame` with another *)
(* one's `Columnar` when either is built in: neither trait pair would be   *)
(* satisfied.                                                              *)
RuntimesNotMixed ==
  config # NoConfig /\ RolesKept =>
    \A mod \in BuiltinMods :
      config.to_dataframe.mod = mod <=> config.columnar.mod = mod

(* Polars comes from the module the traits come from, or from the deriving *)
(* crate's own dependencies when the traits are not built in: otherwise    *)
(* the generated code would mix the types of two builds of Polars.         *)
OnePolars ==
  config # NoConfig /\ RolesKept =>
    /\ config.external # Direct =>
         {config.to_dataframe.mod, config.columnar.mod} = {config.external}
    /\ config.to_dataframe.mod \in BuiltinMods =>
         config.external = config.to_dataframe.mod
=============================================================================
