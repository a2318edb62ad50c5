--------------------------- MODULE VulkanObjects ---------------------------
(***************************************************************************)
(* Creation, failure and destruction of the raw Vulkan handles behind the  *)
(* wrappers of har-vulkan/src/lib.rs.  A constructor creates its handles   *)
(* one by one, each call may fail, and the error path it then takes        *)
(* destroys what that line of the code destroys.  Every child wrapper      *)
(* holds the device; the device goes when the last holder does.            *)
(***************************************************************************)
EXTENDS Naturals, Sequences, FiniteSets, Functions

CONSTANT Wrappers   \* identities of the child wrappers (Buffer, Queue, ...)

Kinds == {"buffer", "queue", "pipeline", "query", "cache"}

(* The raw handles each constructor creates, in order.                      *)
Handles == [buffer |-> <<"buffer", "memory">>,
            queue |-> <<"command_pool", "descriptor_pool", "semaphore">>,
            pipeline |-> <<"set_layout", "pipeline_layout", "shader", "pipeline">>,
            query |-> <<"query_pool">>,
            cache |-> <<"pipeline_cache">>]

VARIABLES
    instance,  \* the VkInstance of an open or opening device exists
    leaked,    \* an earlier open failed and left its instance behind
    device,    \* the VkDevice exists
    deviceRef, \* the caller holds a Device
    phase,     \* [Wrappers -> "none" | "creating" | "live"]
    kind,      \* [Wrappers -> Kinds]
    raw        \* [Wrappers -> set of live raw handles]

OTypeOK ==
    /\ instance \in BOOLEAN /\ leaked \in BOOLEAN /\ device \in BOOLEAN /\ deviceRef \in BOOLEAN
    /\ phase \in [Wrappers -> {"none", "creating", "live"}]
    /\ kind \in [Wrappers -> Kinds]
    /\ raw \in [Wrappers -> SUBSET UNION {Range(Handles[k]) : k \in Kinds}]

OInit ==
    /\ instance = FALSE /\ leaked = FALSE /\ device = FALSE /\ deviceRef = FALSE
    /\ phase = [w \in Wrappers |-> "none"]
    /\ kind = [w \in Wrappers |-> "buffer"]
    /\ raw = [w \in Wrappers |-> {}]

(***************************************************************************)
(* Device::open once an instance exists: each of the later calls can fail. *)
(* Only some of the error paths destroy the instance: no physical device,  *)
(* missing features and create_device do, while a failed enumeration, no   *)
(* device that meets the options and no compute or transfer queue family   *)
(* return with the instance alive.                                         *)
(***************************************************************************)
CreateInstance ==
    /\ ~instance /\ ~device
    /\ instance' = TRUE
    /\ UNCHANGED <<leaked, device, deviceRef, phase, kind, raw>>

OpenFails(destroys) ==
    /\ instance /\ ~device
    /\ instance' = FALSE
    /\ leaked' = (leaked \/ ~destroys)
    /\ UNCHANGED <<device, deviceRef, phase, kind, raw>>

OpenSucceeds ==
    /\ instance /\ ~device
    /\ device' = TRUE /\ deviceRef' = TRUE
    /\ UNCHANGED <<instance, leaked, phase, kind, raw>>

(* The arguments pass: sizes, limits, SPIR-V magic, distinct bindings.      *)
Start(w, k) ==
    /\ deviceRef /\ phase[w] = "none"
    /\ phase' = [phase EXCEPT ![w] = "creating"]
    /\ kind' = [kind EXCEPT ![w] = k]
    /\ UNCHANGED <<instance, leaked, device, deviceRef, raw>>

(* The next create or allocate call of the constructor succeeds.            *)
NextHandle(w) == Handles[kind[w]][Cardinality(raw[w]) + 1]

CreateHandle(w) ==
    /\ phase[w] = "creating"
    /\ raw[w] # Range(Handles[kind[w]])
    /\ raw' = [raw EXCEPT ![w] = @ \cup {NextHandle(w)}]
    /\ UNCHANGED <<instance, leaked, device, deviceRef, phase, kind>>

\* Variant: a pipeline's error path forgets its layout.
ErrorPathShort(k, found) ==
    IF k = "pipeline" THEN {"shader", "set_layout"}
    ELSE IF k = "queue" THEN {"descriptor_pool", "command_pool"} ELSE found

(***************************************************************************)
(* What the error path of a failed call destroys, given the handles it     *)
(* finds: create_buffer at the memory type, allocation and bind;           *)
(* Queue::new at its two later handles; the pipeline constructor at each   *)
(* of its four.                                                            *)
(***************************************************************************)
ErrorPath(k, found) ==
    CASE k = "buffer" -> IF "memory" \in found THEN {"memory", "buffer"}
                         ELSE {"buffer"}
      [] k = "queue" -> IF "descriptor_pool" \in found
                        THEN {"descriptor_pool", "command_pool"}
                        ELSE {"command_pool"}
      [] k = "pipeline" -> IF "shader" \in found
                           THEN {"shader", "pipeline_layout", "set_layout"}
                           ELSE IF "pipeline_layout" \in found
                           THEN {"pipeline_layout", "set_layout"}
                           ELSE {"set_layout"}
      [] OTHER -> {}

CreateFails(w) ==
    /\ phase[w] = "creating"
    /\ kind[w] # "buffer" => raw[w] # Range(Handles[kind[w]])
    /\ raw' = [raw EXCEPT ![w] = @ \ ErrorPath(kind[w], @)]
    /\ phase' = [phase EXCEPT ![w] = "none"]
    /\ UNCHANGED <<instance, leaked, device, deviceRef, kind>>

(* The constructor returns its wrapper; a pipeline's shader module is gone. *)
Return(w) ==
    /\ phase[w] = "creating"
    /\ raw[w] = Range(Handles[kind[w]])
    /\ phase' = [phase EXCEPT ![w] = "live"]
    /\ raw' = [raw EXCEPT ![w] = @ \ {"shader"}]
    /\ UNCHANGED <<instance, leaked, device, deviceRef, kind>>

(* The Arc<DeviceInner> counts the caller's Device and every wrapper.       *)
LastHolder(w, ref) == ~ref /\ \A v \in Wrappers \ {w} : phase[v] # "live"

(* Drop of a child: its handles, then, as the last holder, the device.      *)
DropWrapper(w) ==
    /\ phase[w] = "live"
    /\ phase' = [phase EXCEPT ![w] = "none"]
    /\ raw' = [raw EXCEPT ![w] = {}]
    /\ device' = (device /\ ~LastHolder(w, deviceRef))
    /\ instance' = (instance /\ ~LastHolder(w, deviceRef))
    /\ UNCHANGED <<leaked, deviceRef, kind>>

(* Drop of the caller's Device (no constructor borrows it).                 *)
DropDevice ==
    /\ deviceRef /\ \A w \in Wrappers : phase[w] # "creating"
    /\ deviceRef' = FALSE
    /\ device' = (\E w \in Wrappers : phase[w] = "live")
    /\ instance' = (\E w \in Wrappers : phase[w] = "live")
    /\ UNCHANGED <<leaked, phase, kind, raw>>

ONext ==
    \/ CreateInstance \/ OpenSucceeds \/ DropDevice
    \/ \E d \in BOOLEAN : OpenFails(d)
    \/ \E w \in Wrappers :
         \/ \E k \in Kinds : Start(w, k)
         \/ CreateHandle(w) \/ CreateFails(w) \/ Return(w) \/ DropWrapper(w)

(***************************************************************************)
(* No raw child handle is left without an owner, whatever call of a        *)
(* constructor fails, and none outlives the device it was created on,      *)
(* whatever order the caller drops the wrappers in.                        *)
(***************************************************************************)
HandlesHaveOwners ==
    /\ \A w \in Wrappers : phase[w] = "none" => raw[w] = {}
    /\ \A w \in Wrappers : raw[w] # {} => device /\ instance
=============================================================================
