---------------------------- MODULE PulumiEngine ----------------------------
(***************************************************************************)
(* The Pulumi engine, as the program relies on it.  It is not part of the  *)
(* repository: what is modelled is how the resources that the program      *)
(* registers are executed.                                                 *)
(*                                                                         *)
(* Each run of the program (an update) registers a set of resources with   *)
(* their inputs.  The engine compares them with the checkpoint of the      *)
(* stack, and creates, updates or replaces a resource once the steps of    *)
(* all resources it depends on are over; steps that do not depend on each  *)
(* other run in any order.  What was replaced, and what is no longer       *)
(* registered, is deleted when all those steps are over, dependents first. *)
(* A resource marked DeleteBeforeReplace is deleted right before it is     *)
(* created again.  A step that fails ends the update.                      *)
(*                                                                         *)
(* The inputs of a command are a record with at least the field `triggers':*)
(* the values whose change replaces the command.  A change of any other    *)
(* field updates it in place.  A module that uses the engine conjoins each *)
(* of these actions with what the command does to the world.               *)
(***************************************************************************)
CONSTANTS
  Resource,     \* names of the resources a program may register
  DependsOn,    \* DependsOn[r]: what r waits for, if registered
  DeleteFirst,  \* resources registered with DeleteBeforeReplace(true)
  AlwaysNew,    \* resources some trigger of which differs in each update
  None          \* "not registered" and "not in the checkpoint"

VARIABLES
  phase,       \* "idle", "steps" or "deletes"
  goal,        \* the inputs the program registered in this update
  checkpoint,  \* the inputs of the resources the stack has
  stale,       \* <<resource, inputs>> replaced and still to be deleted
  done         \* the resources whose step of this update is over

engineVars == <<phase, goal, checkpoint, stale, done>>

EngineInit ==
  /\ phase = "idle"
  /\ goal = [r \in Resource |-> None]
  /\ checkpoint = [r \in Resource |-> None]
  /\ stale = {}
  /\ done = {}

Registered == {r \in Resource : goal[r] # None}

Begin(inputs) ==
  /\ phase = "idle"
  /\ phase' = "steps"
  /\ goal' = inputs
  /\ done' = {}
  /\ UNCHANGED <<checkpoint, stale>>

----------------------------------------------------------------------------
(* Creates, updates and replacements.                                      *)

Ready(r) ==
  /\ phase = "steps"
  /\ r \in Registered \ done
  /\ DependsOn[r] \cap Registered \subseteq done

MustReplace(r) ==
  /\ checkpoint[r] # None
  /\ r \in AlwaysNew \/ checkpoint[r].triggers # goal[r].triggers

MustUpdate(r) ==
  /\ checkpoint[r] # None
  /\ ~MustReplace(r)
  /\ checkpoint[r] # goal[r]

NewInState(r) ==
  /\ checkpoint' = [checkpoint EXCEPT ![r] = goal[r]]
  /\ done' = done \cup {r}
  /\ UNCHANGED <<phase, goal>>

Keep(r) ==
  /\ Ready(r) /\ checkpoint[r] # None /\ ~MustReplace(r) /\ ~MustUpdate(r)
  /\ done' = done \cup {r}
  /\ UNCHANGED <<phase, goal, checkpoint, stale>>

Create(r) ==
  /\ Ready(r) /\ checkpoint[r] = None
  /\ NewInState(r)
  /\ UNCHANGED stale

Update(r) ==
  /\ Ready(r) /\ MustUpdate(r)
  /\ NewInState(r)
  /\ UNCHANGED stale

Replace(r) ==
  /\ Ready(r) /\ MustReplace(r) /\ r \notin DeleteFirst
  /\ NewInState(r)
  /\ stale' = stale \cup {<<r, checkpoint[r]>>}

DeleteOld(r) ==
  /\ Ready(r) /\ MustReplace(r) /\ r \in DeleteFirst
  /\ checkpoint' = [checkpoint EXCEPT ![r] = None]
  /\ UNCHANGED <<phase, goal, stale, done>>

----------------------------------------------------------------------------
(* Deletions.                                                              *)

Condemned ==
  stale \cup {<<r, checkpoint[r]>> :
                r \in {s \in Resource : goal[s] = None /\ checkpoint[s] # None}}

StartDeletes ==
  /\ phase = "steps"
  /\ Registered \subseteq done
  /\ phase' = "deletes"
  /\ UNCHANGED <<goal, checkpoint, stale, done>>

Deletable(x) ==
  /\ phase = "deletes"
  /\ x \in Condemned
  /\ \A y \in Condemned : x[1] \notin DependsOn[y[1]]

Delete(x) ==
  /\ Deletable(x)
  /\ IF x \in stale
     THEN stale' = stale \ {x} /\ UNCHANGED checkpoint
     ELSE checkpoint' = [checkpoint EXCEPT ![x[1]] = None] /\ UNCHANGED stale
  /\ UNCHANGED <<phase, goal, done>>

EndUpdate ==
  /\ phase = "deletes"
  /\ Condemned = {}
  /\ phase' = "idle"
  /\ UNCHANGED <<goal, checkpoint, stale, done>>

----------------------------------------------------------------------------
(* A step fails, or the engine is stopped: no other step of this update    *)
(* runs.  Steps that were running in parallel and still end are steps that *)
(* ended before this one.                                                  *)
Abort ==
  /\ phase # "idle"
  /\ phase' = "idle"
  /\ UNCHANGED <<goal, checkpoint, stale, done>>
=============================================================================
