---------------------------- MODULE GenerateImports ----------------------------
(***************************************************************************)
(* generate-imports and the capture of the test-site reset: which of the   *)
(* objects a controller lists get a resource block.  What the block says   *)
(* is Generate of the resource kinds (see PlanRoundTrip).                  *)
(***************************************************************************)
CONSTANTS
    ByMac,      \* objects of the types matched by their MAC address as well
    BuiltIn,    \* default zones, which --exclude-default-zones leaves out, groups of users, ...
    Device,     \* adopted devices
    Clashing    \* sets of objects captureConfig refuses together

\* ReadStateIndex, ExcludeManaged: an object is managed if an entry of the state has
\* its id or, for clients, devices and their ports, its MAC.
Managed(o, id, state) == \E e \in state : e.object = o /\ (e.id = id \/ o \in ByMac)

\* Mutant: objects of the state are not left out.
ExcludeNothing(objects, id, state) == objects

ExcludeManaged(objects, id, state) == {o \in objects : ~Managed(o, id[o], state)}

\* runGenerateImports for all resource types.
Generated(objects, id, state) == ExcludeManaged(objects \ BuiltIn, id, state)

\* captureConfig: everything that is left, without the devices, whose deletion is a no-op.
CaptureConfig(objects) == objects \ Device

\* Its errors: an object without an import id or with references that cannot be decoded
\* (a set of one), two with one address or one id (a set of two).
CaptureRefused(objects) == \E S \in Clashing : S \subseteq CaptureConfig(objects)
=============================================================================
