---------------------------- MODULE DeriveInput ----------------------------
(***************************************************************************)
(* Expanding `#[derive(ToDataFrame)]` up to the generated code: the        *)
(* configuration of the runtime is built from the struct's attributes, its *)
(* fields are lowered one after the other, and the lowered fields are      *)
(* projected to columns.  The first thing that is refused ends the derive. *)
(*                                                                         *)
(* The three parts share the derive's progress: ContainerConfig runs while *)
(* `stage` is "config", FieldLowering while it is "fields", and            *)
(* TupleProjection while it is "project".                                  *)
(***************************************************************************)
EXTENDS FieldLowering

CONSTANT
  Inputs        (* The items that are derived on: their kind (struct, enum *)
                (* or union), what is written on them, and their fields.   *)

ASSUME InputAssumption == \A i \in Inputs :
  /\ i.kind \in {"struct", "enum", "union"}
  /\ i.container.items \in Seq({i.container.items[k] : k \in DOMAIN i.container.items})
  /\ \A k \in DOMAIN i.container.items :
       DOMAIN i.container.items[k].path = {"mod", "name", "plain"}
  /\ i.fields \in Seq({i.fields[k] : k \in DOMAIN i.fields})
  /\ \A k \in DOMAIN i.fields : WellFormedField(i.fields[k]) /\ i.fields[k].name = k

VARIABLES
  input,        (* The item derived on.                                    *)
  stage,        (* The part of the derive that runs, or how it ended.      *)
  container, unread, slots, config, refusal,
  todo,         (* The fields to be lowered, the current one first.        *)
  fields,       (* The fields lowered, then those still to be projected.   *)
  elements, columns

C == INSTANCE ContainerConfig
P == INSTANCE TupleProjection

containerVars == <<container, unread, slots, config, refusal>>
projectVars   == <<fields, elements, columns>>
vars == <<input, stage, containerVars, todo, fieldVars, projectVars>>

Ended == {"derived", "failed"}

-----------------------------------------------------------------------------
ConfigStep ==
  /\ stage = "config"
  /\ C!ContainerNext
  /\ UNCHANGED <<input, stage, todo, fieldVars, projectVars>>

ConfigRefused ==
  /\ stage = "config" /\ refusal # "none"
  /\ stage' = "failed"
  /\ UNCHANGED <<input, containerVars, todo, fieldVars, projectVars>>

(* The fields are turned to only of a struct.                              *)
ParseStruct ==
  /\ stage = "config" /\ config # C!NoConfig
  /\ input.kind = "struct"
  /\ stage' = "fields"
  /\ todo' = input.fields
  /\ UNCHANGED <<input, containerVars, fieldVars, projectVars>>

RefuseKind ==
  /\ stage = "config" /\ config # C!NoConfig
  /\ input.kind # "struct"
  /\ stage' = "failed"
  /\ UNCHANGED <<input, containerVars, todo, fieldVars, projectVars>>

-----------------------------------------------------------------------------
(* `phase` is "none" between two fields.                                   *)
StartField ==
  /\ stage = "fields" /\ todo # <<>> /\ phase = "none"
  /\ LoadField(Head(todo))
  /\ UNCHANGED <<input, stage, containerVars, todo, projectVars>>

FieldStep ==
  /\ stage = "fields"
  /\ FieldNext
  /\ UNCHANGED <<input, stage, containerVars, todo, projectVars>>

(* A field that was skipped gives nothing to project.                      *)
KeepField ==
  /\ stage = "fields" /\ phase = "lowered"
  /\ fields' = Append(fields, FieldIR)
  /\ todo' = Tail(todo)
  /\ phase' = "none"
  /\ UNCHANGED <<input, stage, containerVars, field, items, override, work,
                 analysis, lowering, error, elements, columns>>

DropFieldAgain ==
  /\ stage = "fields" /\ phase = "skipped"
  /\ phase' = "none"
  /\ UNCHANGED <<input, stage, containerVars, todo, field, items, override, work,
                 analysis, lowering, error, projectVars>>

DropField ==
  /\ stage = "fields" /\ phase = "skipped"
  /\ todo' = Tail(todo)
  /\ phase' = "none"
  /\ UNCHANGED <<input, stage, containerVars, field, items, override, work,
                 analysis, lowering, error, projectVars>>

FieldRefused ==
  /\ stage = "fields" /\ phase = "error"
  /\ stage' = "failed"
  /\ UNCHANGED <<input, containerVars, todo, fieldVars, projectVars>>

AllLowered ==
  /\ stage = "fields" /\ todo = <<>>
  /\ stage' = "project"
  /\ UNCHANGED <<input, containerVars, todo, fieldVars, projectVars>>

-----------------------------------------------------------------------------
ProjectStep ==
  /\ stage = "project"
  /\ P!Next
  /\ UNCHANGED <<input, stage, containerVars, todo, fieldVars>>

AllProjected ==
  /\ stage = "project" /\ fields = <<>>
  /\ stage' = "derived"
  /\ UNCHANGED <<input, containerVars, todo, fieldVars, projectVars>>

-----------------------------------------------------------------------------
Init ==
  /\ input \in Inputs
  /\ stage = "config"
  /\ C!ContainerLoaded(input.container)
  /\ todo = <<>>
  /\ NothingLoaded
  /\ fields = <<>> /\ elements = <<>> /\ columns = <<>>

Next ==
  \/ ConfigStep \/ ConfigRefused \/ ParseStruct \/ RefuseKind
  \/ StartField \/ FieldStep \/ KeepField \/ DropField \/ FieldRefused \/ AllLowered
  \/ ProjectStep \/ AllProjected

(* A derive is expanded by one thread of the compiler, which runs as long  *)
(* as there is something left to do.                                       *)
Spec == Init /\ [][Next]_vars /\ WF_vars(Next)
=============================================================================
