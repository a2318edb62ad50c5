------------------------------ MODULE DeviceProofs ------------------------------
(***************************************************************************)
(* The Vulkan side of MCDevice, for any number of wrappers, queues,        *)
(* commands, buffers and slots: the handles behind the wrappers, the       *)
(* submissions of the queues and the expert slots they fill and read.  And *)
(* its KV side, for any prefixes, pages, owners and payloads: the prefix   *)
(* graph, its leases, and the stores of ContextFold.                       *)
(***************************************************************************)
EXTENDS MCDevice, DataLemmas

-----------------------------------------------------------------------------
(* Handles and their owners                                                 *)

\* What a constructor of kind k may have created so far.
MadeSoFar(k) ==
    IF k = "buffer" THEN {{}, {"buffer"}, {"buffer", "memory"}}
    ELSE IF k = "queue"
    THEN {{}, {"command_pool"}, {"command_pool", "descriptor_pool"},
          {"command_pool", "descriptor_pool", "semaphore"}}
    ELSE IF k = "pipeline"
    THEN {{}, {"set_layout"}, {"set_layout", "pipeline_layout"},
          {"set_layout", "pipeline_layout", "shader"},
          {"set_layout", "pipeline_layout", "shader", "pipeline"}}
    ELSE IF k = "query" THEN {{}, {"query_pool"}} ELSE {{}, {"pipeline_cache"}}

AllOf(k) == O!Range(O!Handles[k])

ObjectInv ==
    /\ O!OTypeOK
    /\ \A w \in Wrappers :
          /\ phase[w] = "none" => raw[w] = {}
          /\ phase[w] = "creating" => raw[w] \in MadeSoFar(kind[w]) /\ deviceRef
          /\ phase[w] # "none" => device /\ instance
    /\ deviceRef => device /\ instance

LEMMA HandleLists ==
    /\ O!Handles["buffer"] = <<"buffer", "memory">>
    /\ O!Handles["queue"] = <<"command_pool", "descriptor_pool", "semaphore">>
    /\ O!Handles["pipeline"] = <<"set_layout", "pipeline_layout", "shader", "pipeline">>
    /\ O!Handles["query"] = <<"query_pool">>
    /\ O!Handles["cache"] = <<"pipeline_cache">>
  BY DEF O!Handles

LEMMA RangeOfOne == ASSUME NEW a PROVE O!Range(<<a>>) = {a}
  BY DEF O!Range
LEMMA RangeOfTwo == ASSUME NEW a, NEW b PROVE O!Range(<<a, b>>) = {a, b}
  BY DEF O!Range
LEMMA RangeOfThree == ASSUME NEW a, NEW b, NEW c PROVE O!Range(<<a, b, c>>) = {a, b, c}
  BY DEF O!Range
LEMMA RangeOfFour ==
    ASSUME NEW a, NEW b, NEW c, NEW d PROVE O!Range(<<a, b, c, d>>) = {a, b, c, d}
  BY DEF O!Range

LEMMA AllHandles ==
    /\ AllOf("buffer") = {"buffer", "memory"}
    /\ AllOf("queue") = {"command_pool", "descriptor_pool", "semaphore"}
    /\ AllOf("pipeline") = {"set_layout", "pipeline_layout", "shader", "pipeline"}
    /\ AllOf("query") = {"query_pool"}
    /\ AllOf("cache") = {"pipeline_cache"}
  BY HandleLists, RangeOfOne, RangeOfTwo, RangeOfThree, RangeOfFour DEF AllOf

LEMMA SmallSets ==
    /\ Cardinality({}) = 0
    /\ \A a : Cardinality({a}) = 1
    /\ \A a, b : a # b => Cardinality({a, b}) = 2
    /\ \A a, b, c : a # b /\ a # c /\ b # c => Cardinality({a, b, c}) = 3
  <1>1. IsFiniteSet({}) /\ Cardinality({}) = 0
    BY FS_EmptySet
  <1>2. \A a : IsFiniteSet({a}) /\ Cardinality({a}) = 1
    BY FS_Singleton
  <1>3. \A a, b : a # b => IsFiniteSet({a, b}) /\ Cardinality({a, b}) = 2
    <2> SUFFICES ASSUME NEW a, NEW b, a # b PROVE IsFiniteSet({a, b}) /\ Cardinality({a, b}) = 2
      OBVIOUS
    <2>1. {a, b} = {a} \cup {b} /\ b \notin {a}
      OBVIOUS
    <2>2. IsFiniteSet({a} \cup {b}) /\ Cardinality({a} \cup {b}) = Cardinality({a}) + 1
      BY <1>2, <2>1, FS_AddElement
    <2> QED
      BY <1>2, <2>1, <2>2
  <1>4. \A a, b, c : a # b /\ a # c /\ b # c => Cardinality({a, b, c}) = 3
    <2> SUFFICES ASSUME NEW a, NEW b, NEW c, a # b, a # c, b # c PROVE Cardinality({a, b, c}) = 3
      OBVIOUS
    <2>1. {a, b, c} = {a, b} \cup {c} /\ c \notin {a, b}
      OBVIOUS
    <2>3. IsFiniteSet({a, b}) /\ Cardinality({a, b}) = 2
      BY <1>3
    <2>4. Cardinality({a, b} \cup {c}) = 3
      BY <2>1, <2>3, FS_AddElement
    <2> QED
      BY <2>1, <2>4
  <1> QED
    BY <1>1, <1>2, <1>3, <1>4

LEMMA NextPrefix ==
    ASSUME NEW k \in O!Kinds, NEW s \in MadeSoFar(k), s # AllOf(k)
    PROVE  s \cup {O!Handles[k][Cardinality(s) + 1]} \in MadeSoFar(k)
  <1> DEFINE next == O!Handles[k][Cardinality(s) + 1]
  <1>1. CASE k = "buffer"
    <2> DEFINE list == <<"buffer", "memory">>
    <2>0. O!Handles[k] = list
      BY <1>1, HandleLists
    <2>1. CASE s = {}
      <3>1. Cardinality(s) = 0
        BY <2>1, SmallSets
      <3>2. next = "buffer"
        BY <2>0, <3>1
      <3>3. s \cup {next} = {"buffer"}
        BY <2>1, <3>2
      <3> QED
        BY <1>1, <3>3, Zenon DEF MadeSoFar
    <2>2. CASE s = {"buffer"}
      <3>1. Cardinality(s) = 1
        BY <2>2, SmallSets
      <3>2. next = "memory"
        BY <2>0, <3>1
      <3>3. s \cup {next} = {"buffer", "memory"}
        BY <2>2, <3>2
      <3> QED
        BY <1>1, <3>3, Zenon DEF MadeSoFar
    <2> QED
      BY <1>1, AllHandles, <2>1, <2>2 DEF MadeSoFar
  <1>2. CASE k = "queue"
    <2> DEFINE list == <<"command_pool", "descriptor_pool", "semaphore">>
    <2>0. O!Handles[k] = list
      BY <1>2, HandleLists
    <2>1. CASE s = {}
      <3>1. Cardinality(s) = 0
        BY <2>1, SmallSets
      <3>2. next = "command_pool"
        BY <2>0, <3>1
      <3>3. s \cup {next} = {"command_pool"}
        BY <2>1, <3>2
      <3> QED
        BY <1>2, <3>3, Zenon DEF MadeSoFar
    <2>2. CASE s = {"command_pool"}
      <3>1. Cardinality(s) = 1
        BY <2>2, SmallSets
      <3>2. next = "descriptor_pool"
        BY <2>0, <3>1
      <3>3. s \cup {next} = {"command_pool", "descriptor_pool"}
        BY <2>2, <3>2
      <3> QED
        BY <1>2, <3>3, Zenon DEF MadeSoFar
    <2>3. CASE s = {"command_pool", "descriptor_pool"}
      <3>1. Cardinality(s) = 2
        BY <2>3, SmallSets
      <3>2. next = "semaphore"
        BY <2>0, <3>1
      <3>3. s \cup {next} = {"command_pool", "descriptor_pool", "semaphore"}
        BY <2>3, <3>2
      <3> QED
        BY <1>2, <3>3, Zenon DEF MadeSoFar
    <2> QED
      BY <1>2, AllHandles, <2>1, <2>2, <2>3 DEF MadeSoFar
  <1>3. CASE k = "pipeline"
    <2> DEFINE list == <<"set_layout", "pipeline_layout", "shader", "pipeline">>
    <2>0. O!Handles[k] = list
      BY <1>3, HandleLists
    <2>1. CASE s = {}
      <3>1. Cardinality(s) = 0
        BY <2>1, SmallSets
      <3>2. next = "set_layout"
        BY <2>0, <3>1
      <3>3. s \cup {next} = {"set_layout"}
        BY <2>1, <3>2
      <3> QED
        BY <1>3, <3>3, Zenon DEF MadeSoFar
    <2>2. CASE s = {"set_layout"}
      <3>1. Cardinality(s) = 1
        BY <2>2, SmallSets
      <3>2. next = "pipeline_layout"
        BY <2>0, <3>1
      <3>3. s \cup {next} = {"set_layout", "pipeline_layout"}
        BY <2>2, <3>2
      <3> QED
        BY <1>3, <3>3, Zenon DEF MadeSoFar
    <2>3. CASE s = {"set_layout", "pipeline_layout"}
      <3>1. Cardinality(s) = 2
        BY <2>3, SmallSets
      <3>2. next = "shader"
        BY <2>0, <3>1
      <3>3. s \cup {next} = {"set_layout", "pipeline_layout", "shader"}
        BY <2>3, <3>2
      <3> QED
        BY <1>3, <3>3, Zenon DEF MadeSoFar
    <2>4. CASE s = {"set_layout", "pipeline_layout", "shader"}
      <3>0. /\ "set_layout" # "pipeline_layout" /\ "set_layout" # "shader"
            /\ "pipeline_layout" # "shader"
        OBVIOUS
      <3>4. \A a, b, c : a # b /\ a # c /\ b # c => Cardinality({a, b, c}) = 3
        BY SmallSets
      <3>5. Cardinality({"set_layout", "pipeline_layout", "shader"}) = 3
        BY <3>0, <3>4
      <3>1. Cardinality(s) = 3
        BY <2>4, <3>5
      <3>2. next = "pipeline"
        BY <2>0, <3>1
      <3>3. s \cup {next} = {"set_layout", "pipeline_layout", "shader", "pipeline"}
        BY <2>4, <3>2
      <3> QED
        BY <1>3, <3>3, Zenon DEF MadeSoFar
    <2> QED
      BY <1>3, AllHandles, <2>1, <2>2, <2>3, <2>4 DEF MadeSoFar
  <1>4. CASE k = "query"
    <2> DEFINE list == <<"query_pool">>
    <2>0. O!Handles[k] = list
      BY <1>4, HandleLists
    <2>1. CASE s = {}
      <3>1. Cardinality(s) = 0
        BY <2>1, SmallSets
      <3>2. next = "query_pool"
        BY <2>0, <3>1
      <3>3. s \cup {next} = {"query_pool"}
        BY <2>1, <3>2
      <3> QED
        BY <1>4, <3>3, Zenon DEF MadeSoFar
    <2> QED
      BY <1>4, AllHandles, <2>1 DEF MadeSoFar
  <1>5. CASE k = "cache"
    <2> DEFINE list == <<"pipeline_cache">>
    <2>0. O!Handles[k] = list
      BY <1>5, HandleLists
    <2>1. CASE s = {}
      <3>1. Cardinality(s) = 0
        BY <2>1, SmallSets
      <3>2. next = "pipeline_cache"
        BY <2>0, <3>1
      <3>3. s \cup {next} = {"pipeline_cache"}
        BY <2>1, <3>2
      <3> QED
        BY <1>5, <3>3, Zenon DEF MadeSoFar
    <2> QED
      BY <1>5, AllHandles, <2>1 DEF MadeSoFar
  <1> QED
    BY <1>1, <1>2, <1>3, <1>4, <1>5 DEF O!Kinds

LEMMA PrefixesAreHandles ==
    ASSUME NEW k \in O!Kinds
    PROVE  /\ {} \in MadeSoFar(k) /\ AllOf(k) \in MadeSoFar(k)
           /\ \A s \in MadeSoFar(k) : s \subseteq UNION {O!Range(O!Handles[j]) : j \in O!Kinds}
  <1>1. \A s \in MadeSoFar(k) : s \subseteq AllOf(k)
    BY AllHandles DEF MadeSoFar, O!Kinds
  <1>2. AllOf(k) \subseteq UNION {O!Range(O!Handles[j]) : j \in O!Kinds}
    BY DEF AllOf
  <1>3. {} \in MadeSoFar(k) /\ AllOf(k) \in MadeSoFar(k)
    BY AllHandles DEF MadeSoFar, O!Kinds
  <1> QED
    BY <1>1, <1>2, <1>3

\* What a failed call finds, its error path destroys.
LEMMA ErrorPathCleans ==
    ASSUME NEW k \in O!Kinds, NEW s \in MadeSoFar(k), k # "buffer" => s # AllOf(k)
    PROVE  s \ O!ErrorPath(k, s) = {}
  <1>1. CASE k = "buffer"
    <2>1. O!ErrorPath(k, s) = IF "memory" \in s THEN {"memory", "buffer"} ELSE {"buffer"}
      BY <1>1, Zenon DEF O!ErrorPath
    <2> QED
      BY <1>1, <2>1 DEF MadeSoFar
  <1>2. CASE k = "queue"
    <2>1. O!ErrorPath(k, s) = IF "descriptor_pool" \in s
                              THEN {"descriptor_pool", "command_pool"} ELSE {"command_pool"}
      BY <1>2, Zenon DEF O!ErrorPath
    <2> QED
      BY <1>2, <2>1, AllHandles DEF MadeSoFar
  <1>3. CASE k = "pipeline"
    <2>1. O!ErrorPath(k, s) = IF "shader" \in s
                              THEN {"shader", "pipeline_layout", "set_layout"}
                              ELSE IF "pipeline_layout" \in s
                              THEN {"pipeline_layout", "set_layout"} ELSE {"set_layout"}
      BY <1>3, Zenon DEF O!ErrorPath
    <2> QED
      BY <1>3, <2>1, AllHandles DEF MadeSoFar
  <1>4. CASE k = "query"
    BY <1>4, AllHandles DEF MadeSoFar
  <1>5. CASE k = "cache"
    BY <1>5, AllHandles DEF MadeSoFar
  <1> QED
    BY <1>1, <1>2, <1>3, <1>4, <1>5 DEF O!Kinds

LEMMA ObjectInit == O!OInit => ObjectInv
  <1> SUFFICES ASSUME O!OInit PROVE ObjectInv
    OBVIOUS
  <1>1. O!OTypeOK
    BY DEF O!OInit, O!OTypeOK, O!Kinds
  <1> QED
    BY <1>1 DEF O!OInit, ObjectInv

\* What a step that changes one wrapper must show of it.
LEMMA OneWrapper ==
    ASSUME ObjectInv, NEW w \in Wrappers,
           NEW p \in {"none", "creating", "live"}, NEW k \in O!Kinds,
           NEW h \in SUBSET UNION {O!Range(O!Handles[j]) : j \in O!Kinds},
           phase' = [phase EXCEPT ![w] = p], kind' = [kind EXCEPT ![w] = k],
           raw' = [raw EXCEPT ![w] = h],
           p = "none" => h = {},
           p = "creating" => h \in MadeSoFar(k) /\ deviceRef,
           device' \in BOOLEAN, instance' \in BOOLEAN, UNCHANGED <<leaked, deviceRef>>,
           p # "none" \/ deviceRef \/ (\E v \in Wrappers \ {w} : phase[v] # "none")
             => device' /\ instance'
    PROVE  ObjectInv'
  <1>1. O!OTypeOK /\ O!OTypeOK'
    BY DEF ObjectInv, O!OTypeOK
  <1>2. phase'[w] = p /\ kind'[w] = k /\ raw'[w] = h
    BY <1>1 DEF O!OTypeOK
  <1>3. ASSUME NEW v \in Wrappers, v # w
        PROVE  /\ phase'[v] = phase[v] /\ kind'[v] = kind[v] /\ raw'[v] = raw[v]
               /\ phase[v] # "none" => device' /\ instance'
    BY <1>1, <1>3 DEF O!OTypeOK
  <1> QED
    BY <1>1, <1>2, <1>3 DEF ObjectInv

LEMMA ObjectTypes ==
    ASSUME ObjectInv
    PROVE  /\ instance \in BOOLEAN /\ leaked \in BOOLEAN /\ device \in BOOLEAN
           /\ deviceRef \in BOOLEAN
           /\ phase \in [Wrappers -> {"none", "creating", "live"}]
           /\ kind \in [Wrappers -> O!Kinds]
           /\ raw \in [Wrappers -> SUBSET UNION {O!Range(O!Handles[k]) : k \in O!Kinds}]
           /\ deviceRef => device /\ instance
           /\ \A w \in Wrappers :
                 /\ phase[w] = "none" => raw[w] = {}
                 /\ phase[w] = "creating" => raw[w] \in MadeSoFar(kind[w]) /\ deviceRef
                 /\ phase[w] # "none" => device /\ instance
  BY DEF ObjectInv, O!OTypeOK

\* The instance brings its own copy of the standard operator.
LEMMA SameCardinality == ASSUME NEW S PROVE O!Cardinality(S) = Cardinality(S)
  BY DEF O!Cardinality, Cardinality

LEMMA ConstructorKeeps ==
    ASSUME ObjectInv, NEW w \in Wrappers,
           \/ \E k \in O!Kinds : O!Start(w, k)
           \/ O!CreateHandle(w) \/ O!CreateFails(w) \/ O!Return(w)
    PROVE  ObjectInv'
  <1> DEFINE h == raw'[w]
             k == kind'[w]
             p == phase'[w]
  <1>1. /\ phase \in [Wrappers -> {"none", "creating", "live"}] /\ kind \in [Wrappers -> O!Kinds]
        /\ raw \in [Wrappers -> SUBSET UNION {O!Range(O!Handles[j]) : j \in O!Kinds}]
        /\ device \in BOOLEAN /\ instance \in BOOLEAN
        /\ kind[w] \in O!Kinds
    BY ObjectTypes
  <1>2. UNCHANGED <<device, instance, leaked, deviceRef>>
    BY DEF O!Start, O!CreateHandle, O!CreateFails, O!Return
  <1>3. phase[w] = "creating" => raw[w] \in MadeSoFar(kind[w]) /\ deviceRef /\ device /\ instance
    BY ObjectTypes
  <1>4. /\ deviceRef => device /\ instance
        /\ \A v \in Wrappers : phase[v] # "none" => device /\ instance
    BY ObjectTypes
  <1>s. ASSUME NEW j \in O!Kinds, O!Start(w, j) PROVE ObjectInv'
    <2>1. deviceRef /\ phase[w] = "none" /\ raw[w] = {}
      BY <1>s, ObjectTypes DEF O!Start
    <2>2. /\ phase' = [phase EXCEPT ![w] = "creating"] /\ kind' = [kind EXCEPT ![w] = j]
          /\ raw' = [raw EXCEPT ![w] = {}]
      BY <1>1, <1>s, <2>1 DEF O!Start
    <2>3. {} \in MadeSoFar(j)
      BY PrefixesAreHandles
    <2> QED
      BY <1>1, <1>2, <1>4, <2>1, <2>2, <2>3, OneWrapper
  <1>c. CASE O!CreateHandle(w)
    <2> DEFINE more == raw[w] \cup {O!Handles[kind[w]][Cardinality(raw[w]) + 1]}
    <2>1. phase[w] = "creating" /\ raw[w] # AllOf(kind[w])
      BY <1>c DEF O!CreateHandle, AllOf
    <2>2. more \in MadeSoFar(kind[w])
      BY <1>1, <1>3, <2>1, NextPrefix
    <2>3. /\ phase' = [phase EXCEPT ![w] = "creating"] /\ kind' = [kind EXCEPT ![w] = kind[w]]
          /\ raw' = [raw EXCEPT ![w] = more]
      <3>1. UNCHANGED <<phase, kind>>
        BY <1>c DEF O!CreateHandle
      <3>2. raw' = [raw EXCEPT ![w] = raw[w] \cup {O!NextHandle(w)}]
        BY <1>c, Zenon DEF O!CreateHandle
      <3>3. raw[w] \cup {O!NextHandle(w)} = more
        <4>1. O!Cardinality(raw[w]) = Cardinality(raw[w])
          BY SameCardinality
        <4> QED
          BY <4>1 DEF O!NextHandle
      <3> HIDE DEF more
      <3> QED
        BY <1>1, <2>1, <3>1, <3>2, <3>3
    <2> HIDE DEF more
    <2>4. more \in SUBSET UNION {O!Range(O!Handles[j]) : j \in O!Kinds}
      BY <1>1, <2>2, PrefixesAreHandles
    <2> QED
      BY <1>1, <1>2, <1>3, <1>4, <2>1, <2>2, <2>3, <2>4, OneWrapper
  <1>f. CASE O!CreateFails(w)
    <2>1. /\ phase[w] = "creating" /\ (kind[w] # "buffer" => raw[w] # AllOf(kind[w]))
      BY <1>f DEF O!CreateFails, AllOf
    <2>2. raw[w] \ O!ErrorPath(kind[w], raw[w]) = {}
      BY <1>1, <1>3, <2>1, ErrorPathCleans
    <2>3. /\ phase' = [phase EXCEPT ![w] = "none"] /\ kind' = [kind EXCEPT ![w] = kind[w]]
          /\ raw' = [raw EXCEPT ![w] = {}]
      BY <1>1, <1>f, <2>2 DEF O!CreateFails
    <2> QED
      BY <1>1, <1>2, <1>3, <1>4, <2>1, <2>3, OneWrapper
  <1>r. CASE O!Return(w)
    <2> DEFINE kept == raw[w] \ {"shader"}
    <2>1. phase[w] = "creating"
      BY <1>r DEF O!Return
    <2>2. /\ phase' = [phase EXCEPT ![w] = "live"] /\ kind' = [kind EXCEPT ![w] = kind[w]]
          /\ raw' = [raw EXCEPT ![w] = kept]
      BY <1>1, <1>r DEF O!Return
    <2>3. kept \in SUBSET UNION {O!Range(O!Handles[j]) : j \in O!Kinds}
      BY <1>1
    <2> HIDE DEF kept
    <2> QED
      BY <1>1, <1>2, <1>3, <1>4, <2>1, <2>2, <2>3, OneWrapper
  <1> QED
    BY <1>s, <1>c, <1>f, <1>r

LEMMA ObjectStep ==
    ASSUME ObjectInv, O!ONext \/ UNCHANGED objectVars
    PROVE  ObjectInv'
  <1>1. CASE UNCHANGED objectVars
    BY <1>1 DEF objectVars, ObjectInv, O!OTypeOK
  <1>2. CASE O!CreateInstance
    BY <1>2, ObjectTypes DEF O!CreateInstance, ObjectInv, O!OTypeOK
  <1>3. CASE O!OpenSucceeds
    BY <1>3, ObjectTypes DEF O!OpenSucceeds, ObjectInv, O!OTypeOK
  <1>4. ASSUME NEW d \in BOOLEAN, O!OpenFails(d) PROVE ObjectInv'
    BY <1>4, ObjectTypes DEF O!OpenFails, ObjectInv, O!OTypeOK
  <1>5. CASE O!DropDevice
    BY <1>5, ObjectTypes DEF O!DropDevice, ObjectInv, O!OTypeOK
  <1>6. ASSUME NEW w \in Wrappers, O!DropWrapper(w) PROVE ObjectInv'
    <2>1. /\ phase[w] = "live" /\ phase' = [phase EXCEPT ![w] = "none"]
          /\ kind' = [kind EXCEPT ![w] = kind[w]] /\ raw' = [raw EXCEPT ![w] = {}]
          /\ UNCHANGED <<leaked, deviceRef>> /\ kind[w] \in O!Kinds
      BY <1>6, ObjectTypes DEF O!DropWrapper
    <2>2. device' \in BOOLEAN /\ instance' \in BOOLEAN
      BY <1>6, ObjectTypes DEF O!DropWrapper
    <2>3. device /\ instance
      BY <2>1, ObjectTypes
    <2>4. deviceRef \/ (\E v \in Wrappers \ {w} : phase[v] # "none") => device' /\ instance'
      <3>1. \A v \in Wrappers : phase[v] # "none" /\ phase[v] # "live" => deviceRef
        BY ObjectTypes
      <3> QED
        BY <1>6, <2>3, <3>1 DEF O!DropWrapper, O!LastHolder
    <2> QED
      BY <2>1, <2>2, <2>4, OneWrapper
  <1> QED
    BY <1>1, <1>2, <1>3, <1>4, <1>5, <1>6, ConstructorKeeps DEF O!ONext

LEMMA ObjectsImply == ObjectInv => HandlesHaveOwners
  <1> SUFFICES ASSUME ObjectInv PROVE HandlesHaveOwners
    OBVIOUS
  <1>1. O!HandlesHaveOwners
    BY ObjectTypes DEF O!HandlesHaveOwners
  <1> QED
    BY <1>1 DEF ObjectInv, HandlesHaveOwners

LEMMA ObjectsInMC ==
    ASSUME [MCNext]_mvars
    PROVE  O!ONext \/ UNCHANGED objectVars
  BY DEF MCNext, mvars

(***************************************************************************)
(* A constructor of lib.rs that fails at any of its calls destroys what it *)
(* created, and no raw handle outlives the device, in whatever order the   *)
(* caller drops its wrappers and the Device.                               *)
(***************************************************************************)
THEOREM HandlesAlwaysHaveOwners == MCSpec => []HandlesHaveOwners
  <1>1. MCInit => ObjectInv
    BY ObjectInit DEF MCInit
  <1>2. ASSUME ObjectInv, [MCNext]_mvars PROVE ObjectInv'
    BY <1>2, ObjectsInMC, ObjectStep
  <1> QED
    BY <1>1, <1>2, ObjectsImply, PTL DEF MCSpec

-----------------------------------------------------------------------------
(* Submissions                                                              *)

(***************************************************************************)
(* What makes an event mean execution: a queue's submissions stand in the  *)
(* order of the values they drew, above the semaphore's value, and the one *)
(* value drawn and not submitted yet is above them all.                    *)
(***************************************************************************)
Waits(q, c) == /\ cb[c].stage = "pending" /\ cb[c].home = q
               /\ counter[q] < cb[c].value /\ cb[c].value <= nextValue[q]

Ordered(q) == \A i, j \in 1..Len(running[q]) :
                 i < j => cb[running[q][i]].value < cb[running[q][j]].value

Drawn(c) == LET q == cb[c].home IN
            /\ cb[c].value = nextValue[q] /\ counter[q] < cb[c].value
            /\ \A i \in 1..Len(running[q]) : cb[running[q][i]].value < cb[c].value

InQueue(c) == \E i \in 1..Len(running[cb[c].home]) : running[cb[c].home][i] = c

Told(r) == r.ticket => r.stage \in {"pending", "done", "freed"} /\ r.value >= 1

QueueInv ==
    /\ QTypeOK
    /\ \A q \in Queues :
          /\ counter[q] <= nextValue[q] /\ Ordered(q)
          /\ \A i \in 1..Len(running[q]) : Waits(q, running[q][i])
    /\ \A c \in Commands :
          /\ cb[c].stage = "pending" => InQueue(c)
          /\ cb[c].stage = "taken" => Drawn(c)
          /\ Told(cb[c])
    /\ \A c, d \in Commands :
          cb[c].stage = "taken" /\ cb[d].stage = "taken" /\ cb[c].home = cb[d].home => c = d

LEMMA QueueTypes ==
    ASSUME QTypeOK
    PROVE  /\ nextValue \in [Queues -> 0..MaxValue] /\ counter \in [Queues -> 0..MaxValue]
           /\ running \in [Queues -> Seq(Commands)] /\ cb \in [Commands -> CommandBuffer]
           /\ owned \subseteq Buffers /\ MaxValue \in Nat
           /\ \A q \in Queues : /\ nextValue[q] \in Nat /\ counter[q] \in Nat
                                /\ running[q] \in Seq(Commands)
                                /\ \A i \in 1..Len(running[q]) : running[q][i] \in Commands
           /\ \A c \in Commands : cb[c] \in CommandBuffer
  BY QueueAssumption DEF QTypeOK

LEMMA RecordTypes ==
    ASSUME NEW r \in CommandBuffer
    PROVE  /\ r.stage \in Stages /\ r.home \in Queues /\ r.value \in 0..MaxValue
           /\ r.value \in Nat /\ r.waits \in SUBSET (Queues \X (1..MaxValue))
           /\ r.job \in Jobs \cup {NoJob} /\ r.uses \in Buffers \cup {None}
           /\ r.sets \in SetsOf /\ r.ticket \in BOOLEAN
  BY QueueAssumption DEF CommandBuffer

LEMMA UnallocatedTypes ==
    /\ Unallocated \in CommandBuffer /\ Unallocated.stage = "none" /\ Unallocated.job = NoJob
    /\ Unallocated.ticket = FALSE /\ Unallocated.value = 0
  <1> DEFINE h == CHOOSE q \in Queues : TRUE
  <1>1. h \in Queues
    BY QueueAssumption
  <1>2. 0 \in 0..MaxValue
    BY QueueAssumption
  <1> HIDE DEF h
  <1>3. Unallocated = [stage |-> "none", home |-> h, value |-> 0, waits |-> {}, job |-> NoJob,
                       uses |-> None, sets |-> "none", ticket |-> FALSE]
    BY DEF Unallocated, h
  <1> QED
    BY <1>1, <1>2, <1>3 DEF CommandBuffer, Stages, SetsOf

LEMMA QueueInitially == QInit => QueueInv
  <1> SUFFICES ASSUME QInit PROVE QueueInv
    OBVIOUS
  <1>1. /\ \A q \in Queues : nextValue[q] = 0 /\ counter[q] = 0 /\ running[q] = <<>>
        /\ \A c \in Commands : cb[c] = Unallocated
    BY DEF QInit
  <1>2. QTypeOK
    BY QueueAssumption, UnallocatedTypes DEF QInit, QTypeOK
  <1>3. \A c \in Commands : cb[c].stage = "none" /\ cb[c].ticket = FALSE
    BY <1>1, UnallocatedTypes
  <1> QED
    BY <1>1, <1>2, <1>3 DEF QueueInv, Ordered, Told

\* A step on one command that is not at the GPU and does not go there.
LEMMA OneCommand ==
    ASSUME QueueInv, NEW c \in Commands, NEW r \in CommandBuffer,
           cb' = [cb EXCEPT ![c] = r], UNCHANGED <<nextValue, counter, running>>,
           owned' \subseteq Buffers,
           cb[c].stage # "pending", r.stage \notin {"pending", "taken"}, Told(r)
    PROVE  QueueInv'
  <1>0. QTypeOK
    BY DEF QueueInv
  <1>1. QTypeOK'
    BY <1>0 DEF QTypeOK
  <1>2. cb'[c] = r /\ \A d \in Commands \ {c} : cb'[d] = cb[d]
    BY <1>0, QueueTypes
  <1>3. \A q \in Queues : \A i \in 1..Len(running[q]) :
          running[q][i] \in Commands \ {c} /\ Waits(q, running[q][i])
    BY <1>0, QueueTypes DEF QueueInv, Waits
  <1>4. \A q \in Queues : /\ (counter[q] <= nextValue[q])' /\ Ordered(q)'
                          /\ (\A i \in 1..Len(running[q]) : Waits(q, running[q][i]))'
    BY <1>2, <1>3 DEF QueueInv, Ordered, Waits
  <1>5. \A d \in Commands : cb[d].home \in Queues
    BY <1>0, QueueTypes, RecordTypes
  <1>6. ASSUME NEW d \in Commands
        PROVE  (/\ cb[d].stage = "pending" => InQueue(d)
                /\ cb[d].stage = "taken" => Drawn(d)
                /\ Told(cb[d]))'
    <2>1. CASE d = c
      BY <1>2, <2>1 DEF Told
    <2>2. CASE d # c
      <3>1. cb'[d] = cb[d]
        BY <1>2, <2>2
      <3>2. cb[d].stage = "pending" => InQueue(d)'
        BY <3>1 DEF QueueInv, InQueue
      <3>3. cb[d].stage = "taken" => Drawn(d)'
        BY <1>2, <1>3, <1>5, <3>1 DEF QueueInv, Drawn
      <3> QED
        BY <3>1, <3>2, <3>3 DEF QueueInv, Told
    <2> QED
      BY <2>1, <2>2
  <1>7. (\A e, d \in Commands :
           cb[e].stage = "taken" /\ cb[d].stage = "taken" /\ cb[e].home = cb[d].home => e = d)'
    BY <1>2 DEF QueueInv
  <1> QED
    BY <1>1, <1>4, <1>6, <1>7 DEF QueueInv

\* The commands a caller works on before they are submitted, and drops after.
LEMMA CallerKeeps ==
    ASSUME QueueInv, NEW c \in Commands,
           \/ \E q \in Queues : AllocateCommandBuffer(q, c)
           \/ Begin(c) \/ End(c) \/ DropCommandBuffer(c) \/ QueueSubmitFails(c)
           \/ \E j \in Jobs, b \in Buffers, copied \in BOOLEAN : Record(c, j, b, copied)
    PROVE  QueueInv'
  <1>0. QTypeOK /\ Told(cb[c])
    BY DEF QueueInv
  <1>1. cb[c] \in CommandBuffer /\ owned \subseteq Buffers /\ cb \in [Commands -> CommandBuffer]
    BY <1>0, QueueTypes
  <1> DEFINE old == cb[c]
  <1>2. /\ old.stage \in Stages /\ old.home \in Queues /\ old.value \in 0..MaxValue
        /\ old.waits \in SUBSET (Queues \X (1..MaxValue)) /\ old.job \in Jobs \cup {NoJob}
        /\ old.uses \in Buffers \cup {None} /\ old.sets \in SetsOf /\ old.ticket \in BOOLEAN
        /\ old \in CommandBuffer
    BY <1>1, RecordTypes
  <1>a. ASSUME NEW q \in Queues, AllocateCommandBuffer(q, c) PROVE QueueInv'
    <2> DEFINE r == [Unallocated EXCEPT !.stage = "initial", !.home = q]
    <2>1. r \in CommandBuffer /\ r.stage = "initial" /\ r.ticket = FALSE
      BY UnallocatedTypes DEF CommandBuffer, Stages
    <2>2. cb' = [cb EXCEPT ![c] = r] /\ UNCHANGED <<nextValue, counter, running, owned>>
          /\ cb[c].stage = "none"
      BY <1>a DEF AllocateCommandBuffer
    <2> HIDE DEF r
    <2>3. Told(r)
      BY <2>1 DEF Told
    <2> QED
      BY <1>1, <2>1, <2>2, <2>3, OneCommand
  <1>b. CASE Begin(c) \/ End(c)
    <2> DEFINE s == IF Begin(c) THEN "recording" ELSE "ended"
               r == [old EXCEPT !.stage = s]
    <2>1. /\ cb' = [cb EXCEPT ![c].stage = s] /\ UNCHANGED <<nextValue, counter, running, owned>>
          /\ cb[c].stage \in {"initial", "recording"} /\ s \in {"recording", "ended"}
      BY <1>b DEF Begin, End
    <2> HIDE DEF s
    <2>2. r \in CommandBuffer /\ r.stage = s /\ r.ticket = old.ticket
      BY <1>2, <2>1 DEF CommandBuffer, Stages
    <2>3. cb' = [cb EXCEPT ![c] = r]
      BY <1>1, <2>1
    <2>4. old.ticket = FALSE
      BY <1>0, <1>2, <2>1 DEF Told
    <2> HIDE DEF r
    <2>5. Told(r)
      BY <2>2, <2>4 DEF Told
    <2>6. cb[c].stage # "pending" /\ r.stage \notin {"pending", "taken"}
      BY <2>1, <2>2
    <2> QED
      BY <1>1, <2>1, <2>2, <2>3, <2>5, <2>6, OneCommand
  <1>c. CASE DropCommandBuffer(c) \/ QueueSubmitFails(c)
    <2>1. /\ cb' = [cb EXCEPT ![c] = Unallocated]
          /\ UNCHANGED <<nextValue, counter, running, owned>> /\ cb[c].stage # "pending"
      BY <1>c DEF DropCommandBuffer, QueueSubmitFails
    <2>2. Told(Unallocated) /\ Unallocated.stage \notin {"pending", "taken"}
      BY UnallocatedTypes DEF Told
    <2> QED
      BY <1>1, <2>1, <2>2, UnallocatedTypes, OneCommand
  <1>d. ASSUME NEW j \in Jobs, NEW b \in Buffers, NEW copied \in BOOLEAN, Record(c, j, b, copied)
        PROVE  QueueInv'
    <2> DEFINE s == IF copied THEN "none" ELSE "bound"
               r == [old EXCEPT !.job = j, !.uses = b, !.sets = s]
    <2>1. r \in CommandBuffer /\ r.stage = old.stage /\ r.ticket = old.ticket
      BY <1>2 DEF CommandBuffer, SetsOf
    <2>2. /\ cb' = [cb EXCEPT ![c] = r] /\ UNCHANGED <<nextValue, counter, running, owned>>
          /\ cb[c].stage = "recording"
      BY <1>1, <1>d DEF Record
    <2>3. old.ticket = FALSE
      BY <1>0, <1>2, <2>2 DEF Told
    <2> HIDE DEF r
    <2>4. Told(r)
      BY <2>1, <2>3 DEF Told
    <2>5. cb[c].stage # "pending" /\ r.stage \notin {"pending", "taken"}
      BY <2>1, <2>2
    <2> QED
      BY <1>1, <2>1, <2>2, <2>4, <2>5, OneCommand
  <1> QED
    BY <1>a, <1>b, <1>c, <1>d

\* An event that is complete is not the GPU's.
LEMMA CompleteIsOver ==
    ASSUME QueueInv, NEW c \in Commands, IsComplete(c)
    PROVE  cb[c].stage # "pending"
  <1>1. cb[c].home \in Queues /\ cb[c].value \in Nat
        /\ \A q \in Queues : counter[q] \in Nat
    BY QueueTypes, RecordTypes DEF QueueInv
  <1>2. ASSUME cb[c].stage = "pending" PROVE counter[cb[c].home] < cb[c].value
    BY <1>1, <1>2 DEF QueueInv, InQueue, Waits
  <1> QED
    BY <1>1, <1>2 DEF IsComplete

\* What a dropped event leaves of a command that is over.
AfterDrop(r, t, kept) == Settle([FreeCommand(r) EXCEPT !.ticket = t], kept)

LEMMA FreedCommand ==
    ASSUME NEW r \in CommandBuffer, NEW kept \in BOOLEAN, NEW t \in BOOLEAN,
           r.stage \in {"done", "freed"}, Told(r), t => r.ticket
    PROVE  /\ AfterDrop(r, t, kept) \in CommandBuffer /\ Told(AfterDrop(r, t, kept))
           /\ \/ AfterDrop(r, t, kept) = Unallocated
              \/ AfterDrop(r, t, kept).stage = "freed" /\ AfterDrop(r, t, kept).job = r.job
           /\ kept => AfterDrop(r, t, kept).stage = "freed" /\ AfterDrop(r, t, kept).job = r.job
  <1> DEFINE f == [FreeCommand(r) EXCEPT !.ticket = t]
             n == AfterDrop(r, t, kept)
  <1>1. /\ f \in CommandBuffer /\ f.stage = "freed" /\ f.job = r.job /\ f.value = r.value
        /\ f.ticket = t
    <2>1. /\ r.stage \in Stages /\ r.home \in Queues /\ r.value \in 0..MaxValue
          /\ r.waits \in SUBSET (Queues \X (1..MaxValue)) /\ r.job \in Jobs \cup {NoJob}
          /\ r.uses \in Buffers \cup {None} /\ r.sets \in SetsOf /\ r.ticket \in BOOLEAN
      BY RecordTypes
    <2> DEFINE g == FreeCommand(r)
    <2>2. /\ g \in CommandBuffer /\ g.stage = "freed" /\ g.job = r.job /\ g.value = r.value
      BY <2>1 DEF FreeCommand, CommandBuffer, Stages
    <2> HIDE DEF g
    <2>3. f = [g EXCEPT !.ticket = t]
      BY DEF g
    <2> HIDE DEF f
    <2> QED
      BY <2>2, <2>3 DEF CommandBuffer
  <1> HIDE DEF f
  <1>2. n = IF f.stage = "freed" /\ ~kept THEN Unallocated ELSE f
    BY Zenon DEF n, f, AfterDrop, Settle
  <1> HIDE DEF n
  <1>3. n = Unallocated \/ n = f
    BY <1>2
  <1>4. Told(f) /\ Told(Unallocated)
    BY <1>1, RecordTypes, UnallocatedTypes DEF Told
  <1>5. /\ n \in CommandBuffer /\ Told(n)
        /\ n = Unallocated \/ (n.stage = "freed" /\ n.job = r.job)
    BY <1>1, <1>3, <1>4, UnallocatedTypes
  <1>6. kept => n = f
    BY <1>2
  <1>7. kept => n.stage = "freed" /\ n.job = r.job
    BY <1>1, <1>6
  <1> QED
    BY <1>5, <1>7, Zenon DEF n

LEMMA DropKeeps ==
    ASSUME QueueInv, NEW c \in Commands, NEW kept \in BOOLEAN, DropTicket(c, kept)
    PROVE  /\ QueueInv' /\ cb[c].stage \in {"done", "freed"}
           /\ cb' = [cb EXCEPT ![c] = AfterDrop(cb[c], FALSE, kept)]
  <1>1. cb[c] \in CommandBuffer /\ owned \subseteq Buffers /\ cb \in [Commands -> CommandBuffer]
    BY QueueTypes DEF QueueInv
  <1>2. /\ cb[c].ticket /\ IsComplete(c) /\ UNCHANGED <<nextValue, counter, running, owned>>
        /\ cb' = [cb EXCEPT ![c] = AfterDrop(@, FALSE, kept)]
    BY DEF DropTicket, AfterDrop
  <1>3. cb[c].stage \in {"done", "freed"} /\ Told(cb[c])
    BY <1>2, CompleteIsOver DEF QueueInv, Told
  <1>4. cb' = [cb EXCEPT ![c] = AfterDrop(cb[c], FALSE, kept)]
    BY <1>1, <1>2
  <1> DEFINE n == AfterDrop(cb[c], FALSE, kept)
  <1>5. n \in CommandBuffer /\ Told(n) /\ (n = Unallocated \/ n.stage = "freed")
    BY <1>1, <1>3, FreedCommand
  <1>6. n.stage \notin {"pending", "taken"} /\ cb[c].stage # "pending"
    BY <1>3, <1>5, UnallocatedTypes
  <1> HIDE DEF n
  <1>7. QueueInv'
    BY <1>1, <1>2, <1>4, <1>5, <1>6, OneCommand DEF n
  <1> QED
    BY <1>3, <1>4, <1>7

Taken(r, v, w, k) == [r EXCEPT !.stage = "taken", !.value = v, !.waits = w, !.sets = k]

LEMMA TakenRecord ==
    ASSUME NEW r \in CommandBuffer, NEW v \in 0..MaxValue,
           NEW w \in SUBSET (Queues \X (1..MaxValue)), NEW k \in SetsOf
    PROVE  /\ Taken(r, v, w, k) \in CommandBuffer /\ Taken(r, v, w, k).stage = "taken"
           /\ Taken(r, v, w, k).value = v /\ Taken(r, v, w, k).home = r.home
           /\ Taken(r, v, w, k).job = r.job /\ Taken(r, v, w, k).ticket = r.ticket
  BY RecordTypes DEF Taken, CommandBuffer, Stages

LEMMA TakeKeeps ==
    ASSUME QueueInv, OneSubmitter, NEW c \in Commands, NEW ws \in SUBSET Events,
           NEW passed \in BOOLEAN, TakeValue(c, ws, passed)
    PROVE  /\ QueueInv' /\ cb[c].stage = "ended" /\ cb'[c].stage = "taken"
           /\ cb'[c].job = cb[c].job /\ \A d \in Commands \ {c} : cb'[d] = cb[d]
  <1> DEFINE old == cb[c]
             q == old.home
             v == nextValue[q] + 1
             w == {<<cb[d].home, cb[d].value>> : d \in ws}
             k == IF passed /\ old.sets = "bound" THEN "kept" ELSE old.sets
             r == Taken(old, v, w, k)
  <1>1. /\ old \in CommandBuffer /\ cb \in [Commands -> CommandBuffer] /\ q \in Queues
        /\ counter[q] \in Nat /\ nextValue[q] \in 0..MaxValue /\ MaxValue \in Nat
        /\ nextValue \in [Queues -> 0..MaxValue]
        /\ old.job \in Jobs \cup {NoJob} /\ old.uses \in Buffers \cup {None}
        /\ old.sets \in SetsOf /\ old.ticket \in BOOLEAN
    BY QueueTypes, RecordTypes DEF QueueInv
  <1>2. /\ old.stage = "ended" /\ nextValue[q] < MaxValue
        /\ nextValue' = [nextValue EXCEPT ![q] = nextValue[q] + 1]
        /\ UNCHANGED <<counter, running, owned>>
        /\ \A d \in Commands : cb[d].stage = "taken" => cb[d].home # q
    BY <1>1 DEF TakeValue
  <1>3. cb' = [cb EXCEPT ![c] = r]
    BY <1>1 DEF TakeValue, Taken
  <1>4. v \in 1..MaxValue /\ v \in Nat
    BY <1>1, <1>2
  <1>5. w \in SUBSET (Queues \X (1..MaxValue))
    <2> SUFFICES ASSUME NEW d \in ws PROVE <<cb[d].home, cb[d].value>> \in Queues \X (1..MaxValue)
      OBVIOUS
    <2>1. d \in Commands /\ cb[d].ticket
      BY DEF Events
    <2>2. cb[d].home \in Queues /\ cb[d].value \in 0..MaxValue /\ cb[d].value >= 1
      BY <2>1, QueueTypes, RecordTypes DEF QueueInv, Told
    <2> QED
      BY <1>1, <2>2
  <1> HIDE DEF w, v
  <1>6. /\ r \in CommandBuffer /\ r.stage = "taken" /\ r.value = v /\ r.home = q
        /\ r.job = old.job /\ r.ticket = old.ticket
    <2>1. v \in 0..MaxValue
      BY <1>1, <1>4
    <2>2. k \in SetsOf
      BY <1>1 DEF SetsOf
    <2> QED
      BY <1>1, <1>5, <2>1, <2>2, TakenRecord
  <1> HIDE DEF r
  <1>7. cb'[c] = r /\ \A d \in Commands \ {c} : cb'[d] = cb[d]
    BY <1>1, <1>3
  <1>8. /\ nextValue'[q] = v /\ v > nextValue[q] /\ nextValue[q] \in Nat
        /\ \A p \in Queues \ {q} : nextValue'[p] = nextValue[p]
        /\ nextValue' \in [Queues -> 0..MaxValue]
    BY <1>1, <1>2, <1>4 DEF v
  <1>9. QTypeOK'
    BY <1>2, <1>3, <1>6, <1>8 DEF QueueInv, QTypeOK
  <1> HIDE DEF q
  <1>10. ASSUME NEW p \in Queues
         PROVE  /\ counter[p] \in Nat /\ nextValue[p] \in Nat /\ nextValue'[p] \in Nat
                /\ nextValue[p] <= nextValue'[p]
    <2>1. counter[p] \in Nat /\ nextValue[p] \in Nat
      BY QueueTypes DEF QueueInv
    <2> QED
      BY <1>8, <2>1, <1>4
  <1>11. ASSUME NEW p \in Queues, NEW i \in 1..Len(running[p])
         PROVE  /\ running[p][i] \in Commands \ {c} /\ Waits(p, running[p][i])
                /\ cb[running[p][i]].value \in Nat
    <2>1. running[p][i] \in Commands
      BY QueueTypes DEF QueueInv
    <2>2. Waits(p, running[p][i])
      BY DEF QueueInv
    <2>3. cb[running[p][i]].value \in Nat
      BY <2>1, QueueTypes, RecordTypes DEF QueueInv
    <2> QED
      BY <1>2, <2>1, <2>2, <2>3 DEF Waits
  <1>12. ASSUME NEW p \in Queues
         PROVE  /\ (counter[p] <= nextValue[p])' /\ Ordered(p)'
                /\ (\A i \in 1..Len(running[p]) : Waits(p, running[p][i]))'
    <2>1. (counter[p] <= nextValue[p])'
      BY <1>2, <1>10 DEF QueueInv
    <2>2. Ordered(p)'
      BY <1>2, <1>7, <1>11 DEF QueueInv, Ordered
    <2>3. (\A i \in 1..Len(running[p]) : Waits(p, running[p][i]))'
      <3> SUFFICES ASSUME NEW i \in 1..Len(running[p]) PROVE Waits(p, running[p][i])'
        BY <1>2
      <3>1. /\ running[p][i] \in Commands \ {c} /\ Waits(p, running[p][i])
            /\ cb[running[p][i]].value \in Nat /\ running' = running /\ counter' = counter
        BY <1>2, <1>11
      <3>2. cb'[running'[p][i]] = cb[running[p][i]]
        BY <1>7, <3>1
      <3> QED
        BY <1>10, <3>1, <3>2 DEF Waits
    <2> QED
      BY <2>1, <2>2, <2>3
  <1>13. ASSUME NEW d \in Commands
         PROVE  (/\ cb[d].stage = "pending" => InQueue(d)
                 /\ cb[d].stage = "taken" => Drawn(d)
                 /\ Told(cb[d]))'
    <2>1. CASE d = c
      <3>1. old.ticket = FALSE
        BY <1>1, <1>2 DEF QueueInv, Told
      <3>2. Told(r)
        BY <1>6, <3>1 DEF Told
      <3>3. counter[q] < v
        BY <1>1, <1>8 DEF QueueInv, q
      <3>4. ASSUME NEW i \in 1..Len(running[q]) PROVE cb'[running[q][i]].value < v
        <4>1. q \in Queues
          BY <1>1
        <4>2. cb'[running[q][i]] = cb[running[q][i]] /\ cb[running[q][i]].value \in Nat
              /\ cb[running[q][i]].value <= nextValue[q]
          BY <1>7, <1>11, <4>1 DEF Waits
        <4> QED
          BY <1>4, <1>8, <4>2
      <3>5. cb'[d].home = q /\ cb'[d].value = v /\ cb'[d].stage = "taken"
        BY <1>6, <1>7, <2>1
      <3>6. Drawn(d)'
        BY <1>2, <1>8, <3>3, <3>4, <3>5 DEF Drawn
      <3> QED
        BY <1>7, <2>1, <3>2, <3>5, <3>6
    <2>2. CASE d # c
      <3>1. cb'[d] = cb[d] /\ cb[d].home \in Queues
        BY <1>7, <2>2, QueueTypes, RecordTypes DEF QueueInv
      <3>2. cb[d].stage = "pending" => InQueue(d)'
        BY <1>2, <3>1 DEF QueueInv, InQueue
      <3>3. cb[d].stage = "taken" => Drawn(d)'
        <4> SUFFICES ASSUME cb[d].stage = "taken" PROVE Drawn(d)'
          OBVIOUS
        <4> DEFINE p == cb[d].home
        <4>1. p # q /\ Drawn(d)
          BY <1>2 DEF QueueInv, q
        <4>2. nextValue'[p] = nextValue[p] /\ cb'[d].home = p
          BY <1>8, <3>1, <4>1
        <4>3. \A i \in 1..Len(running[p]) : cb'[running[p][i]] = cb[running[p][i]]
          BY <1>7, <1>11, <3>1
        <4> QED
          BY <1>2, <3>1, <4>1, <4>2, <4>3 DEF Drawn
      <3> QED
        BY <3>1, <3>2, <3>3 DEF QueueInv, Told
    <2> QED
      BY <2>1, <2>2
  <1>14. (\A e, d \in Commands :
            cb[e].stage = "taken" /\ cb[d].stage = "taken" /\ cb[e].home = cb[d].home => e = d)'
    <2>1. \A d \in Commands \ {c} : cb'[d].stage = "taken" => cb'[d].home # q
      BY <1>2, <1>7
    <2>2. cb'[c].home = q
      BY <1>6, <1>7
    <2> QED
      BY <1>7, <2>1, <2>2 DEF QueueInv
  <1>15. QueueInv'
    BY <1>9, <1>12, <1>13, <1>14 DEF QueueInv
  <1> QED
    BY <1>2, <1>6, <1>7, <1>15

LEMMA Joined ==
    ASSUME NEW S, NEW s \in Seq(S), NEW x \in S
    PROVE  /\ Append(s, x) \in Seq(S) /\ Len(Append(s, x)) = Len(s) + 1 /\ Len(s) \in Nat
           /\ \A i \in 1..Len(s) : Append(s, x)[i] = s[i]
           /\ Append(s, x)[Len(s) + 1] = x
  OBVIOUS

LEMMA Rest ==
    ASSUME NEW S, NEW s \in Seq(S), s # <<>>
    PROVE  /\ Tail(s) \in Seq(S) /\ Len(s) \in Nat \ {0} /\ Len(Tail(s)) = Len(s) - 1
           /\ Head(s) = s[1] /\ Head(s) \in S
           /\ \A i \in 1..(Len(s) - 1) : Tail(s)[i] = s[i + 1]
  OBVIOUS

SubmittedForm(r) == [r EXCEPT !.stage = "pending", !.ticket = TRUE]
DoneForm(r) == [r EXCEPT !.stage = "done"]

LEMMA StageRecords ==
    ASSUME NEW r \in CommandBuffer
    PROVE  /\ SubmittedForm(r) \in CommandBuffer /\ DoneForm(r) \in CommandBuffer
           /\ SubmittedForm(r).stage = "pending" /\ DoneForm(r).stage = "done"
           /\ SubmittedForm(r).value = r.value /\ DoneForm(r).value = r.value
           /\ SubmittedForm(r).home = r.home /\ DoneForm(r).home = r.home
           /\ SubmittedForm(r).job = r.job /\ DoneForm(r).job = r.job
           /\ DoneForm(r).ticket = r.ticket
  BY RecordTypes DEF SubmittedForm, DoneForm, CommandBuffer, Stages

LEMMA SubmitKeeps ==
    ASSUME QueueInv, NEW c \in Commands, QueueSubmit(c)
    PROVE  /\ QueueInv' /\ cb[c].stage = "taken" /\ cb'[c].stage = "pending"
           /\ cb'[c].job = cb[c].job /\ \A d \in Commands \ {c} : cb'[d] = cb[d]
  <1>0. cb[c].home \in Queues /\ cb[c] \in CommandBuffer
    BY QueueTypes, RecordTypes DEF QueueInv
  <1> SUFFICES ASSUME NEW q \in Queues, q = cb[c].home, NEW line, line = running[q],
                      NEW longer, longer = Append(line, c)
               PROVE  /\ QueueInv' /\ cb[c].stage = "taken" /\ cb'[c].stage = "pending"
                      /\ cb'[c].job = cb[c].job /\ \A d \in Commands \ {c} : cb'[d] = cb[d]
    BY <1>0
  <1>1. /\ cb[c] \in CommandBuffer /\ cb \in [Commands -> CommandBuffer]
        /\ running \in [Queues -> Seq(Commands)] /\ line \in Seq(Commands)
        /\ counter[q] \in Nat
    BY QueueTypes, RecordTypes DEF QueueInv
  <1>2. /\ cb[c].stage = "taken" /\ UNCHANGED <<nextValue, counter, owned>>
        /\ cb' = [cb EXCEPT ![c] = SubmittedForm(cb[c])]
        /\ running' = [running EXCEPT ![q] = longer]
    BY <1>1 DEF QueueSubmit, SubmittedForm
  <1>3. cb'[c] = SubmittedForm(cb[c]) /\ \A d \in Commands \ {c} : cb'[d] = cb[d]
    BY <1>1, <1>2
  <1>4. /\ cb'[c].stage = "pending" /\ cb'[c].value = cb[c].value /\ cb'[c].home = q
        /\ cb'[c].job = cb[c].job /\ cb'[c] \in CommandBuffer
    BY <1>1, <1>3, StageRecords
  <1>5. /\ longer \in Seq(Commands) /\ Len(longer) = Len(line) + 1 /\ Len(line) \in Nat
        /\ \A i \in 1..Len(line) : longer[i] = line[i]
        /\ longer[Len(line) + 1] = c
    BY <1>1, Joined
  <1>6. Drawn(c) /\ \A d \in Commands : cb[d].stage = "taken" /\ cb[d].home = q => d = c
    BY <1>2 DEF QueueInv
  <1>7. running'[q] = longer /\ \A p \in Queues \ {q} : running'[p] = running[p]
    BY <1>1, <1>2
  <1>8. QTypeOK'
    BY <1>1, <1>2, <1>5, StageRecords DEF QueueInv, QTypeOK
  <1>9. ASSUME NEW p \in Queues, NEW i \in 1..Len(running[p])
        PROVE  /\ running[p][i] \in Commands \ {c} /\ Waits(p, running[p][i])
               /\ cb[running[p][i]].value \in Nat
    <2>1. running[p][i] \in Commands /\ Waits(p, running[p][i])
      BY QueueTypes DEF QueueInv
    <2>2. cb[running[p][i]].value \in Nat
      BY <2>1, QueueTypes, RecordTypes DEF QueueInv
    <2> QED
      BY <1>2, <2>1, <2>2 DEF Waits
  <1>10. cb[c].value \in Nat /\ counter[q] < cb[c].value /\ cb[c].value = nextValue[q]
         /\ \A i \in 1..Len(line) : cb[line[i]].value < cb[c].value
    BY <1>1, <1>6, RecordTypes DEF Drawn
  <1>11. (\A d \in Commands : cb[d].stage = "pending" => InQueue(d))'
    <2> SUFFICES ASSUME NEW d \in Commands, cb'[d].stage = "pending" PROVE InQueue(d)'
      OBVIOUS
    <2>1. CASE d = c
      <3>1. Len(line) + 1 \in 1..Len(longer) /\ longer[Len(line) + 1] = c
        BY <1>5
      <3> QED
        BY <1>4, <1>7, <2>1, <3>1 DEF InQueue
    <2>2. CASE d # c /\ cb[d].home = q
      <3>1. cb'[d] = cb[d] /\ InQueue(d)
        BY <1>3, <2>2 DEF QueueInv
      <3>2. PICK i \in 1..Len(line) : line[i] = d
        BY <2>2, <3>1 DEF InQueue
      <3>3. i \in 1..Len(longer) /\ longer[i] = d
        BY <1>5, <3>2
      <3> QED
        BY <1>7, <2>2, <3>1, <3>3 DEF InQueue
    <2>3. CASE d # c /\ cb[d].home # q
      <3>1. cb'[d] = cb[d] /\ InQueue(d) /\ cb[d].home \in Queues \ {q}
        BY <1>3, <2>3, QueueTypes, RecordTypes DEF QueueInv
      <3> QED
        BY <1>7, <3>1 DEF InQueue
    <2> QED
      BY <2>1, <2>2, <2>3
  <1>12. (\A d \in Commands : cb[d].stage = "taken" => Drawn(d))'
    <2> SUFFICES ASSUME NEW d \in Commands, cb'[d].stage = "taken" PROVE Drawn(d)'
      OBVIOUS
    <2>1. d # c /\ cb'[d] = cb[d]
      BY <1>3, <1>4
    <2>2. cb[d].home \in Queues \ {q} /\ Drawn(d)
      BY <1>6, <2>1, QueueTypes, RecordTypes DEF QueueInv
    <2> DEFINE p == cb[d].home
    <2>3. running'[p] = running[p]
      BY <1>7, <2>2
    <2>4. \A i \in 1..Len(running[p]) : cb'[running[p][i]] = cb[running[p][i]]
      BY <1>3, <1>9, <2>2
    <2> QED
      BY <1>2, <2>1, <2>2, <2>3, <2>4 DEF Drawn
  <1>13. ASSUME NEW d \in Commands PROVE Told(cb[d])'
    <2>1. CASE d = c
      <3>1. cb'[d].value >= 1 /\ cb'[d].stage = "pending"
        BY <1>1, <1>4, <1>10, <2>1
      <3> QED
        BY <3>1 DEF Told
    <2>2. CASE d # c
      BY SMTT(30), <1>3, <2>2 DEF QueueInv, Told
    <2> QED
      BY <2>1, <2>2
  <1>14. ASSUME NEW p \in Queues \ {q}
         PROVE  (Ordered(p) /\ \A i \in 1..Len(running[p]) : Waits(p, running[p][i]))'
    <2>1. running'[p] = running[p] /\ Ordered(p)
      BY <1>7 DEF QueueInv
    <2>2. \A i \in 1..Len(running[p]) : cb'[running[p][i]] = cb[running[p][i]]
                                       /\ Waits(p, running[p][i])
      BY <1>3, <1>9
    <2> QED
      BY <1>2, <2>1, <2>2 DEF Ordered, Waits
  <1>15. ASSUME NEW i \in 1..Len(longer)
         PROVE  /\ Waits(q, longer[i])'
                /\ \A j \in 1..Len(longer) : j < i => cb'[longer[j]].value < cb'[longer[i]].value
    <2>1. CASE i = Len(line) + 1
      <3>1. longer[i] = c
        BY <1>5, <2>1
      <3>2. ASSUME NEW j \in 1..Len(longer), j < i PROVE cb'[longer[j]].value < cb'[longer[i]].value
        <4>1. j \in 1..Len(line) /\ longer[j] = line[j]
          BY <1>5, <2>1, <3>2
        <4>2. cb'[line[j]] = cb[line[j]]
          BY <1>1, <1>3, <1>9, <4>1
        <4> QED
          BY <1>4, <1>10, <3>1, <4>1, <4>2
      <3>3. Waits(q, c)'
        BY SMTT(30), <1>1, <1>2, <1>4, <1>10, QueueTypes DEF QueueInv, Waits
      <3> QED
        BY <3>1, <3>2, <3>3
    <2>2. CASE i # Len(line) + 1
      <3>1. i \in 1..Len(line) /\ longer[i] = line[i]
        BY <1>5, <2>2
      <3>2. /\ cb'[line[i]] = cb[line[i]] /\ Waits(q, line[i])
        BY <1>3, <1>9, <3>1
      <3>3. ASSUME NEW j \in 1..Len(longer), j < i PROVE cb'[longer[j]].value < cb'[longer[i]].value
        <4>1. j \in 1..Len(line) /\ longer[j] = line[j] /\ cb'[line[j]] = cb[line[j]]
          BY <1>3, <1>5, <1>9, <3>1, <3>3
        <4>2. Ordered(q)
          BY DEF QueueInv
        <4>3. cb[line[j]].value < cb[line[i]].value
          BY <3>1, <3>3, <4>1, <4>2 DEF Ordered
        <4> QED
          BY <3>1, <3>2, <4>1, <4>3
      <3> QED
        BY <1>2, <3>1, <3>2, <3>3 DEF Waits
    <2> QED
      BY <2>1, <2>2
  <1>16. (Ordered(q) /\ \A i \in 1..Len(running[q]) : Waits(q, running[q][i]))'
    BY <1>7, <1>15 DEF Ordered
  <1>17. (\A p \in Queues : /\ counter[p] <= nextValue[p] /\ Ordered(p)
                            /\ \A i \in 1..Len(running[p]) : Waits(p, running[p][i]))'
    BY <1>2, <1>14, <1>16 DEF QueueInv
  <1>18. (\A e, d \in Commands :
            cb[e].stage = "taken" /\ cb[d].stage = "taken" /\ cb[e].home = cb[d].home => e = d)'
    BY <1>3, <1>4 DEF QueueInv
  <1>19. QueueInv'
    BY <1>8, <1>11, <1>12, <1>13, <1>17, <1>18 DEF QueueInv
  <1> QED
    BY <1>2, <1>3, <1>4, <1>19

LEMMA ExecuteKeeps ==
    ASSUME QueueInv, NEW q \in Queues, Execute(q)
    PROVE  /\ QueueInv' /\ Head(running[q]) \in Commands
           /\ cb[Head(running[q])].stage = "pending"
           /\ cb' = [cb EXCEPT ![Head(running[q])] = DoneForm(cb[Head(running[q])])]
  <1>0. running[q] \in Seq(Commands) /\ running[q] # <<>>
    BY QueueTypes DEF QueueInv, Execute
  <1> SUFFICES ASSUME NEW line, line = running[q], NEW c, c = Head(line), NEW rest, rest = Tail(line)
               PROVE  /\ QueueInv' /\ c \in Commands /\ cb[c].stage = "pending"
                      /\ cb' = [cb EXCEPT ![c] = DoneForm(cb[c])]
    OBVIOUS
  <1>1. /\ rest \in Seq(Commands) /\ Len(line) \in Nat \ {0} /\ Len(rest) = Len(line) - 1
        /\ c = line[1] /\ c \in Commands
        /\ \A i \in 1..(Len(line) - 1) : rest[i] = line[i + 1]
    BY <1>0, Rest
  <1>2. /\ cb[c] \in CommandBuffer /\ cb \in [Commands -> CommandBuffer] /\ cb[c].value \in 0..MaxValue
        /\ running \in [Queues -> Seq(Commands)] /\ counter \in [Queues -> 0..MaxValue]
        /\ counter[q] \in Nat /\ nextValue[q] \in Nat /\ cb[c].value \in Nat
    BY <1>1, QueueTypes, RecordTypes DEF QueueInv
  <1>3. 1 \in 1..Len(line) /\ Waits(q, c)
    BY <1>1 DEF QueueInv
  <1>4. /\ cb[c].stage = "pending" /\ cb[c].home = q /\ counter[q] < cb[c].value
        /\ cb[c].value <= nextValue[q]
    BY <1>3 DEF Waits
  <1>5. /\ cb' = [cb EXCEPT ![c].stage = IF @ = "pending" THEN "done" ELSE @]
        /\ counter' = [counter EXCEPT ![q] = IF cb[c].value > @ THEN cb[c].value ELSE @]
        /\ running' = [running EXCEPT ![q] = Tail(@)] /\ UNCHANGED <<nextValue, owned>>
    BY DEF Execute
  <1>6. cb' = [cb EXCEPT ![c] = DoneForm(cb[c])]
    BY <1>1, <1>2, <1>4, <1>5 DEF DoneForm
  <1>7. counter' = [counter EXCEPT ![q] = cb[c].value]
    BY <1>2, <1>4, <1>5
  <1>8. running' = [running EXCEPT ![q] = rest]
    BY <1>2, <1>5
  <1>9. /\ cb'[c] = DoneForm(cb[c]) /\ \A d \in Commands \ {c} : cb'[d] = cb[d]
        /\ counter'[q] = cb[c].value /\ \A p \in Queues \ {q} : counter'[p] = counter[p]
        /\ running'[q] = rest /\ \A p \in Queues \ {q} : running'[p] = running[p]
    BY <1>1, <1>2, <1>6, <1>7, <1>8
  <1>10. /\ cb'[c].stage = "done" /\ cb'[c].value = cb[c].value /\ cb'[c].ticket = cb[c].ticket
         /\ DoneForm(cb[c]) \in CommandBuffer
    BY <1>2, <1>9, StageRecords
  <1>11. QTypeOK'
    BY <1>1, <1>2, <1>5, <1>6, <1>7, <1>8, <1>10 DEF QueueInv, QTypeOK
  <1>12. ASSUME NEW p \in Queues, NEW i \in 1..Len(running[p])
         PROVE  /\ running[p][i] \in Commands /\ Waits(p, running[p][i])
                /\ cb[running[p][i]].value \in Nat
    <2>1. running[p][i] \in Commands /\ Waits(p, running[p][i])
      BY QueueTypes DEF QueueInv
    <2> QED
      BY <2>1, QueueTypes, RecordTypes DEF QueueInv
  <1>13. ASSUME NEW i \in 1..Len(rest)
         PROVE  /\ i + 1 \in 1..Len(line) /\ rest[i] = line[i + 1] /\ rest[i] \in Commands \ {c}
                /\ cb[c].value < cb[rest[i]].value /\ cb'[rest[i]] = cb[rest[i]]
                /\ Waits(q, rest[i])
    <2>1. i + 1 \in 1..Len(line) /\ rest[i] = line[i + 1] /\ 1 < i + 1 /\ 1 \in 1..Len(line)
      BY <1>1
    <2>2. Ordered(q)
      BY DEF QueueInv
    <2>3. cb[line[1]].value < cb[line[i + 1]].value
      BY <2>1, <2>2 DEF Ordered
    <2>4. rest[i] \in Commands /\ Waits(q, rest[i])
      BY <1>12, <2>1
    <2>5. rest[i] # c
      BY <1>1, <1>2, <2>1, <2>3
    <2> QED
      BY <1>1, <1>9, <2>1, <2>3, <2>4, <2>5
  <1>14. (counter[q] <= nextValue[q])'
    BY <1>2, <1>4, <1>5, <1>9
  <1>15. Ordered(q)'
    <2> SUFFICES ASSUME NEW i \in 1..Len(rest), NEW j \in 1..Len(rest), i < j
                 PROVE  cb'[rest[i]].value < cb'[rest[j]].value
      BY <1>9 DEF Ordered
    <2>1. /\ i + 1 \in 1..Len(line) /\ j + 1 \in 1..Len(line) /\ i + 1 < j + 1
          /\ rest[i] = line[i + 1] /\ rest[j] = line[j + 1]
          /\ cb'[rest[i]] = cb[rest[i]] /\ cb'[rest[j]] = cb[rest[j]]
      <3>1. i \in Nat /\ j \in Nat /\ i + 1 < j + 1
        OBVIOUS
      <3> QED
        BY <1>13, <3>1
    <2>2. Ordered(q)
      BY DEF QueueInv
    <2> QED
      BY <2>1, <2>2 DEF Ordered
  <1>16. (\A i \in 1..Len(running[q]) : Waits(q, running[q][i]))'
    <2> SUFFICES ASSUME NEW i \in 1..Len(rest) PROVE Waits(q, rest[i])'
      BY <1>9
    <2>1. /\ cb'[rest[i]] = cb[rest[i]] /\ counter'[q] = cb[c].value /\ nextValue' = nextValue
          /\ cb[c].value < cb[rest[i]].value /\ Waits(q, rest[i])
      BY <1>5, <1>9, <1>13
    <2> QED
      BY <2>1 DEF Waits
  <1>17. ASSUME NEW p \in Queues \ {q}
         PROVE  (/\ counter[p] <= nextValue[p] /\ Ordered(p)
                 /\ \A i \in 1..Len(running[p]) : Waits(p, running[p][i]))'
    <2>1. /\ running'[p] = running[p] /\ counter'[p] = counter[p] /\ nextValue' = nextValue
          /\ Ordered(p) /\ counter[p] <= nextValue[p]
      BY <1>5, <1>9 DEF QueueInv
    <2>2. ASSUME NEW i \in 1..Len(running[p])
          PROVE  cb'[running[p][i]] = cb[running[p][i]] /\ Waits(p, running[p][i])
      <3>1. running[p][i] \in Commands /\ Waits(p, running[p][i])
        BY <1>12
      <3>2. running[p][i] # c
        BY <1>4, <3>1 DEF Waits
      <3> QED
        BY <1>9, <3>1, <3>2
    <2> QED
      BY <2>1, <2>2 DEF Ordered, Waits
  <1>18. (\A d \in Commands : cb[d].stage = "pending" => InQueue(d))'
    <2> SUFFICES ASSUME NEW d \in Commands, cb'[d].stage = "pending" PROVE InQueue(d)'
      OBVIOUS
    <2>1. d # c /\ cb'[d] = cb[d]
      BY <1>9, <1>10
    <2>2. InQueue(d) /\ cb[d].home \in Queues
      BY <2>1, QueueTypes, RecordTypes DEF QueueInv
    <2>3. PICK i \in 1..Len(running[cb[d].home]) : running[cb[d].home][i] = d
      BY <2>2 DEF InQueue
    <2>4. CASE cb[d].home = q
      <3>1. i \in 1..Len(line) /\ line[i] = d /\ i # 1
        BY <1>1, <2>1, <2>3, <2>4
      <3>2. i - 1 \in 1..Len(rest) /\ rest[i - 1] = line[i]
        <4>1. i - 1 \in 1..(Len(line) - 1) /\ (i - 1) + 1 = i
          BY <1>1, <3>1
        <4> QED
          BY <1>1, <4>1
      <3> QED
        BY <1>9, <2>1, <2>4, <3>1, <3>2 DEF InQueue
    <2>5. CASE cb[d].home # q
      BY <1>9, <2>1, <2>2, <2>5 DEF InQueue
    <2> QED
      BY <2>4, <2>5
  <1>19. (\A d \in Commands : cb[d].stage = "taken" => Drawn(d))'
    <2> SUFFICES ASSUME NEW d \in Commands, cb'[d].stage = "taken" PROVE Drawn(d)'
      OBVIOUS
    <2>1. d # c /\ cb'[d] = cb[d]
      BY <1>9, <1>10
    <2>2. Drawn(d) /\ cb[d].home \in Queues
      BY <2>1, QueueTypes, RecordTypes DEF QueueInv
    <2>3. CASE cb[d].home = q
      <3>1. /\ cb[d].value = nextValue[q] /\ counter[q] < cb[d].value
            /\ \A i \in 1..Len(line) : cb[line[i]].value < cb[d].value
        BY <2>2, <2>3 DEF Drawn
      <3>2. counter'[q] < cb'[d].value
        BY <1>1, <1>3, <1>9, <2>1, <3>1
      <3>3. \A i \in 1..Len(rest) : cb'[rest[i]].value < cb[d].value
        BY <1>13, <3>1
      <3> QED
        BY <1>5, <1>9, <2>1, <2>3, <3>1, <3>2, <3>3 DEF Drawn
    <2>4. CASE cb[d].home # q
      <3> SUFFICES ASSUME NEW p \in Queues \ {q}, p = cb[d].home PROVE Drawn(d)'
        BY <2>2, <2>4
      <3>1. running'[p] = running[p] /\ counter'[p] = counter[p] /\ nextValue' = nextValue
        BY <1>5, <1>9
      <3>2. ASSUME NEW i \in 1..Len(running[p]) PROVE cb'[running[p][i]] = cb[running[p][i]]
        <4>1. running[p][i] \in Commands /\ Waits(p, running[p][i])
          BY <1>12
        <4>2. running[p][i] # c
          BY <1>4, <4>1 DEF Waits
        <4> QED
          BY <1>9, <4>1, <4>2
      <3> QED
        BY <2>1, <2>2, <3>1, <3>2 DEF Drawn
    <2> QED
      BY <2>3, <2>4
  <1>20. ASSUME NEW d \in Commands PROVE Told(cb[d])'
    <2>1. Told(cb[d]) /\ Told(cb[c])
      BY <1>1 DEF QueueInv
    <2>2. CASE d = c
      BY <1>1, <1>10, <2>1, <2>2 DEF Told
    <2>3. CASE d # c
      BY <1>9, <2>1, <2>3 DEF Told
    <2> QED
      BY <2>2, <2>3
  <1>21. (\A e, d \in Commands :
            cb[e].stage = "taken" /\ cb[d].stage = "taken" /\ cb[e].home = cb[d].home => e = d)'
    BY <1>9, <1>10 DEF QueueInv
  <1>22. QueueInv'
    BY <1>11, <1>14, <1>15, <1>16, <1>17, <1>18, <1>19, <1>20, <1>21 DEF QueueInv
  <1> QED
    BY <1>1, <1>4, <1>6, <1>22

LEMMA SubmissionsHold == QueueInv => EventsMeanExecuted /\ DispatchBuffersAlive
  <1> SUFFICES ASSUME QueueInv PROVE EventsMeanExecuted /\ DispatchBuffersAlive
    OBVIOUS
  <1>1. \A c \in AtGpu : c \in Commands /\ cb[c].stage = "pending"
    BY DEF AtGpu, QueueInv, Waits
  <1>2. \A c \in Events : IsComplete(c) => c \notin AtGpu
    BY <1>1, CompleteIsOver
  <1>3. \A c \in AtGpu : cb[c].sets = "kept" => Alive(cb[c].uses)
    BY <1>1 DEF Alive, Retains
  <1> QED
    BY <1>1, <1>2, <1>3 DEF EventsMeanExecuted, DispatchBuffersAlive

-----------------------------------------------------------------------------
(* Expert slots                                                             *)

(***************************************************************************)
(* Who is responsible for a slot's storage at each moment.  A recorded     *)
(* upload is the caller's until it is reported, the table's until the slot *)
(* is marked ready or evicted, and then the drop's, which keeps the table  *)
(* locked until the copy is over; a recorded dispatch is covered by its    *)
(* lease.  So a slot has one job at a time, and a slot offered to          *)
(* dispatches is filled unless its upload is the one being waited for.     *)
(***************************************************************************)
Live(c) == cb[c].stage \notin {"none", "done", "freed"} /\ cb[c].job # NoJob
Submitted(c) == cb[c].stage \in {"pending", "done", "freed"}
Executed(c) == cb[c].stage \in {"done", "freed"}

SlotTypes ==
    /\ slot \in [Slots -> SlotRecord] /\ lockWait \in Commands \cup {None}
    /\ mem \in [Slots -> Keys \cup {None}]
    /\ promised \in [Slots -> Commands \cup {None, Reserved}] /\ leased \subseteq Slots

Shape(s) ==
    /\ slot[s].state # "Free" => slot[s].key \in Keys
    /\ promised[s] # None => slot[s].state = "Uploading" /\ slot[s].upload = None
    /\ slot[s].upload # None => slot[s].state = "Uploading"
    /\ s \in leased <=> slot[s].state = "InFlight"

PromiseKept(s) ==
    promised[s] \in Commands =>
      /\ cb[promised[s]].job = UploadJob(s, slot[s].key)
      /\ cb[promised[s]].stage \in {"recording", "ended", "taken", "pending", "done"}
      /\ Executed(promised[s]) => mem[s] = slot[s].key

UploadKept(s) ==
    slot[s].upload # None =>
      /\ cb[slot[s].upload].job = UploadJob(s, slot[s].key) /\ Submitted(slot[s].upload)
      /\ Executed(slot[s].upload) => mem[s] = slot[s].key

BeingFilled(s) ==
    /\ lockWait # None /\ cb[lockWait].stage = "pending"
    /\ cb[lockWait].job = UploadJob(s, slot[s].key)

Offered(s) ==
    /\ slot[s].state = "InFlight" => mem[s] = slot[s].key
    /\ slot[s].state = "Ready" => mem[s] = slot[s].key \/ BeingFilled(s)

LockKept ==
    lockWait # None =>
      /\ Submitted(lockWait)
      /\ \E s \in Slots, k \in Keys :
            /\ cb[lockWait].job = UploadJob(s, k) /\ promised[s] = None /\ slot[s].upload = None
            /\ slot[s].state = "Free" \/ (slot[s].state = "Ready" /\ slot[s].key = k)

\* Who answers for a command that may still run on its slot.
Placed(c) ==
    LET j == cb[c].job IN
    /\ j.op = "dispatch" => j.slot \in leased /\ slot[j.slot].key = j.key
    /\ j.op = "upload" => promised[j.slot] = c \/ slot[j.slot].upload = c \/ lockWait = c

OneJob == \A c, d \in Commands : Live(c) /\ Live(d) /\ cb[c].job.slot = cb[d].job.slot => c = d

SlotKept(s) == Shape(s) /\ PromiseKept(s) /\ UploadKept(s) /\ Offered(s)

SlotInv ==
    /\ SlotTypes /\ (\A s \in Slots : SlotKept(s)) /\ LockKept
    /\ (\A c \in Commands : Live(c) => Placed(c)) /\ OneJob

LEMMA SlotTypeFacts ==
    ASSUME SlotTypes
    PROVE  /\ slot \in [Slots -> SlotRecord] /\ lockWait \in Commands \cup {None}
           /\ mem \in [Slots -> Keys \cup {None}]
           /\ promised \in [Slots -> Commands \cup {None, Reserved}] /\ leased \subseteq Slots
           /\ \A s \in Slots :
                /\ slot[s].key \in Keys \cup {None}
                /\ slot[s].state \in {"Free", "Uploading", "Ready", "InFlight"}
                /\ slot[s].upload \in Commands \cup {None}
                /\ promised[s] \in Commands \cup {None, Reserved}
           /\ None \notin Commands /\ Reserved \notin Commands
  BY QueueAssumption, SlotAssumption DEF SlotTypes, SlotRecord

LEMMA JobFields ==
    /\ \A s \in Slots, k \in Keys :
         /\ UploadJob(s, k) \in Jobs /\ DispatchJob(s, k) \in Jobs
         /\ UploadJob(s, k) # NoJob /\ DispatchJob(s, k) # NoJob
    /\ \A s, k : /\ UploadJob(s, k).op = "upload" /\ DispatchJob(s, k).op = "dispatch"
                 /\ UploadJob(s, k).slot = s /\ DispatchJob(s, k).slot = s
                 /\ UploadJob(s, k).key = k /\ DispatchJob(s, k).key = k
    /\ \A j \in Jobs : j.op \in {"upload", "dispatch"} /\ j.slot \in Slots /\ j.key \in Keys
    /\ NoJob \notin Jobs
  BY QueueAssumption, SlotAssumption DEF UploadJob, DispatchJob, SlotJobs

LEMMA SlotsInitially == Init => SlotInv
  <1> SUFFICES ASSUME Init PROVE SlotInv
    OBVIOUS
  <1>1. SlotTypes
    BY DEF Init, SlotTypes, SlotRecord, FreeSlot
  <1>2. \A s \in Slots : /\ slot[s].state = "Free" /\ slot[s].upload = None
                         /\ promised[s] = None /\ s \notin leased
    BY DEF Init, FreeSlot
  <1>3. lockWait = None /\ \A c \in Commands : cb[c].stage = "none"
    BY UnallocatedTypes DEF Init, QInit
  <1>4. \A s \in Slots : SlotKept(s)
    BY <1>1, <1>2, SlotTypeFacts DEF SlotKept, Shape, PromiseKept, UploadKept, Offered
  <1>5. LockKept
    BY <1>3 DEF LockKept
  <1> QED
    BY <1>1, <1>3, <1>4, <1>5 DEF SlotInv, Live, OneJob

\* A command moves towards the GPU with the job it has.
LEMMA CommandAdvances ==
    ASSUME SlotInv, NEW c \in Commands, UNCHANGED svars,
           \A d \in Commands \ {c} : cb'[d] = cb[d], cb'[c].job = cb[c].job,
           cb[c].stage \in {"initial", "recording", "ended", "taken"},
           cb'[c].stage \in {"recording", "ended", "taken", "pending"}
    PROVE  SlotInv'
  <1>1. /\ slot' = slot /\ lockWait' = lockWait /\ mem' = mem /\ promised' = promised
        /\ leased' = leased
    BY DEF svars
  <1>2. SlotTypes'
    BY <1>1 DEF SlotInv, SlotTypes
  <1>3. \A d \in Commands : /\ cb'[d].job = cb[d].job /\ Live(d)' = Live(d)
                            /\ Submitted(d) => Submitted(d)' /\ cb'[d] = cb[d]
                            /\ Executed(d)' => Executed(d)
    BY DEF Live, Submitted, Executed
  <1>4. ASSUME NEW s \in Slots PROVE SlotKept(s)'
    <2>1. SlotKept(s) /\ LockKept
      BY DEF SlotInv
    <2>2. Shape(s)'
      BY <1>1, <2>1 DEF SlotKept, Shape
    <2>3. PromiseKept(s)'
      BY <1>1, <1>3, <2>1 DEF SlotKept, PromiseKept, Executed
    <2>4. UploadKept(s)'
      BY <1>1, <1>3, <2>1, SlotTypeFacts DEF SlotInv, SlotKept, UploadKept
    <2>5. Offered(s)'
      BY <1>1, <1>3, <2>1, SlotTypeFacts DEF SlotInv, SlotKept, Offered, BeingFilled, LockKept,
                                              Submitted
    <2> QED
      BY <2>2, <2>3, <2>4, <2>5 DEF SlotKept
  <1>5. LockKept'
    BY <1>1, <1>3, SlotTypeFacts DEF SlotInv, LockKept
  <1>6. (\A d \in Commands : Live(d) => Placed(d))'
    BY <1>1, <1>3 DEF SlotInv, Placed
  <1>7. OneJob'
    BY <1>3 DEF SlotInv, OneJob
  <1> QED
    BY <1>2, <1>4, <1>5, <1>6, <1>7 DEF SlotInv

\* A command nobody waits for leaves; what was promised of it is open again.
LEMMA CommandLeaves ==
    ASSUME QTypeOK, SlotInv, NEW c \in Commands, ~Live(c)',
           \A d \in Commands \ {c} : cb'[d] = cb[d],
           lockWait # c, \A s \in Slots : slot[s].upload # c,
           UNCHANGED <<slot, lockWait, mem, leased>>,
           promised' = [s \in Slots |-> IF promised[s] = c THEN Reserved ELSE promised[s]]
    PROVE  SlotInv'
  <1>1. /\ \A s \in Slots : /\ promised[s] = c => promised'[s] = Reserved
                            /\ promised[s] # c => promised'[s] = promised[s]
        /\ promised' \in [Slots -> Commands \cup {None, Reserved}]
    BY SlotTypeFacts DEF SlotInv
  <1>2. SlotTypes'
    BY <1>1 DEF SlotInv, SlotTypes
  <1>3. None \notin Commands /\ Reserved \notin Commands /\ None # Reserved
    BY SlotTypeFacts DEF SlotInv, None, Reserved
  <1>4. \A d \in Commands : Live(d)' => d # c /\ Live(d) /\ cb'[d] = cb[d]
    BY DEF Live
  <1>5. ASSUME NEW s \in Slots PROVE SlotKept(s)'
    <2>1. SlotKept(s) /\ slot[s].upload \in Commands \cup {None}
          /\ promised[s] \in Commands \cup {None, Reserved}
      BY SlotTypeFacts DEF SlotInv
    <2>2. Shape(s)'
      BY <1>1, <1>3, <2>1 DEF SlotKept, Shape
    <2>3. PromiseKept(s)'
      BY <1>1, <1>3, <2>1 DEF SlotKept, PromiseKept, Executed
    <2>4. UploadKept(s)'
      BY <2>1 DEF SlotKept, UploadKept, Submitted, Executed
    <2>5. Offered(s)'
      BY <2>1, SlotTypeFacts DEF SlotInv, SlotKept, Offered, BeingFilled
    <2> QED
      BY <2>2, <2>3, <2>4, <2>5 DEF SlotKept
  <1>6. LockKept'
    <2> SUFFICES ASSUME lockWait # None PROVE LockKept'
      BY DEF LockKept
    <2>1. LockKept /\ lockWait \in Commands \ {c}
      BY SlotTypeFacts DEF SlotInv
    <2>2. PICK s \in Slots, k \in Keys :
            /\ cb[lockWait].job = UploadJob(s, k) /\ promised[s] = None /\ slot[s].upload = None
            /\ slot[s].state = "Free" \/ (slot[s].state = "Ready" /\ slot[s].key = k)
      BY <2>1 DEF LockKept
    <2>3. promised'[s] = None /\ cb'[lockWait] = cb[lockWait]
      BY <1>1, <1>3, <2>1, <2>2
    <2> QED
      BY <2>1, <2>2, <2>3 DEF LockKept, Submitted
  <1>7. (\A d \in Commands : Live(d) => Placed(d))'
    <2> SUFFICES ASSUME NEW d \in Commands, Live(d)' PROVE Placed(d)'
      OBVIOUS
    <2>1. d # c /\ Placed(d) /\ cb'[d] = cb[d] /\ Live(d)
      BY <1>4 DEF SlotInv
    <2>2. cb[d].job.slot \in Slots
      BY <2>1, JobFields, QueueTypes, RecordTypes DEF Live
    <2> QED
      BY <1>1, <2>1, <2>2 DEF Placed
  <1>8. OneJob'
    BY <1>4 DEF SlotInv, OneJob
  <1> QED
    BY <1>2, <1>5, <1>6, <1>7, <1>8 DEF SlotInv

\* An executed command the table still has an event of is freed.
LEMMA HeldCommandFreed ==
    ASSUME SlotInv, NEW c \in Commands, UNCHANGED svars,
           \A d \in Commands \ {c} : cb'[d] = cb[d], cb'[c].job = cb[c].job,
           Executed(c), cb'[c].stage = "freed", \A s \in Slots : promised[s] # c
    PROVE  SlotInv'
  <1>1. /\ slot' = slot /\ lockWait' = lockWait /\ mem' = mem /\ promised' = promised
        /\ leased' = leased
    BY DEF svars
  <1>2. SlotTypes'
    BY <1>1 DEF SlotInv, SlotTypes
  <1>3. \A d \in Commands : /\ cb'[d].job = cb[d].job /\ Live(d)' = Live(d)
                            /\ Submitted(d)' = Submitted(d) /\ Executed(d)' = Executed(d)
                            /\ (cb'[d].stage = "pending") = (cb[d].stage = "pending")
                            /\ d # c => cb'[d] = cb[d]
    BY DEF Live, Submitted, Executed
  <1>4. ASSUME NEW s \in Slots PROVE SlotKept(s)'
    <2>1. SlotKept(s) /\ slot[s].upload \in Commands \cup {None}
          /\ lockWait \in Commands \cup {None}
      BY SlotTypeFacts DEF SlotInv
    <2>2. Shape(s)'
      BY <1>1, <2>1 DEF SlotKept, Shape
    <2>3. PromiseKept(s)'
      BY <1>1, <1>3, <2>1 DEF SlotKept, PromiseKept
    <2>4. UploadKept(s)'
      BY <1>1, <1>3, <2>1 DEF SlotKept, UploadKept
    <2>5. Offered(s)'
      BY <1>1, <1>3, <2>1 DEF SlotKept, Offered, BeingFilled
    <2> QED
      BY <2>2, <2>3, <2>4, <2>5 DEF SlotKept
  <1>5. LockKept'
    BY <1>1, <1>3, SlotTypeFacts DEF SlotInv, LockKept
  <1>6. (\A d \in Commands : Live(d) => Placed(d))'
    BY <1>1, <1>3 DEF SlotInv, Placed
  <1>7. OneJob'
    BY <1>3 DEF SlotInv, OneJob
  <1> QED
    BY <1>2, <1>4, <1>5, <1>6, <1>7 DEF SlotInv

\* The upload's clone is gone, and with it perhaps the command.
LEMMA CloneDropped ==
    ASSUME SlotInv, NEW c \in Commands, c = lockWait, lockWait' = None,
           UNCHANGED <<slot, mem, promised, leased>>,
           \A d \in Commands \ {c} : cb'[d] = cb[d],
           Executed(c), cb'[c].stage \in {"none", "freed"}
    PROVE  SlotInv'
  <1>1. SlotTypes'
    BY DEF SlotInv, SlotTypes
  <1>2. PICK t \in Slots, k \in Keys :
          /\ cb[c].job = UploadJob(t, k) /\ promised[t] = None /\ slot[t].upload = None
          /\ slot[t].state = "Free" \/ (slot[t].state = "Ready" /\ slot[t].key = k)
    BY SlotTypeFacts DEF SlotInv, LockKept
  <1>3. \A d \in Commands : Live(d)' => d # c /\ Live(d) /\ cb'[d] = cb[d]
    BY DEF Live
  <1>4. \A s \in Slots : promised[s] # c /\ slot[s].upload # c
    <2> SUFFICES ASSUME NEW s \in Slots, promised[s] = c \/ slot[s].upload = c PROVE FALSE
      OBVIOUS
    <2>1. cb[c].job = UploadJob(s, slot[s].key) /\ c # None
      BY SlotTypeFacts DEF SlotInv, SlotKept, PromiseKept, UploadKept
    <2>2. s = t
      <3>1. UploadJob(s, slot[s].key).slot = s /\ UploadJob(t, k).slot = t
        BY JobFields, Zenon
      <3> QED
        BY <1>2, <2>1, <3>1
    <2> QED
      BY <1>2, <2>1, <2>2
  <1>5. ASSUME NEW s \in Slots PROVE SlotKept(s)'
    <2>1. SlotKept(s) /\ slot[s].upload \in Commands \cup {None}
      BY SlotTypeFacts DEF SlotInv
    <2>2. Shape(s)'
      BY <2>1 DEF SlotKept, Shape
    <2>3. PromiseKept(s)'
      BY <1>4, <2>1 DEF SlotKept, PromiseKept, Executed
    <2>4. UploadKept(s)'
      BY <1>4, <2>1 DEF SlotKept, UploadKept, Submitted, Executed
    <2>5. Offered(s)'
      BY <2>1 DEF SlotKept, Offered, BeingFilled, Executed
    <2> QED
      BY <2>2, <2>3, <2>4, <2>5 DEF SlotKept
  <1>6. LockKept'
    BY DEF LockKept
  <1>7. (\A d \in Commands : Live(d) => Placed(d))'
    BY <1>3 DEF SlotInv, Placed
  <1>8. OneJob'
    BY <1>3 DEF SlotInv, OneJob
  <1> QED
    BY <1>1, <1>5, <1>6, <1>7, <1>8 DEF SlotInv

\* A step of the table that touches one slot.
LEMMA OneSlot ==
    ASSUME SlotInv, QTypeOK, Unlocked, UNCHANGED <<cb, mem>>, NEW s \in Slots, SlotTypes',
           \A t \in Slots \ {s} : /\ slot'[t] = slot[t] /\ promised'[t] = promised[t]
                                  /\ t \in leased' <=> t \in leased,
           SlotKept(s)', LockKept',
           \A c \in Commands : Live(c) /\ cb[c].job.slot = s => Placed(c)'
    PROVE  SlotInv'
  <1>1. \A c \in Commands : /\ Live(c)' = Live(c) /\ Submitted(c)' = Submitted(c)
                            /\ Executed(c)' = Executed(c)
    BY DEF Live, Submitted, Executed
  <1>2. ASSUME NEW t \in Slots, t # s PROVE SlotKept(t)'
    <2>1. SlotKept(t) /\ lockWait = None /\ slot'[t] = slot[t] /\ promised'[t] = promised[t]
          /\ mem' = mem /\ cb' = cb /\ slot[t].upload \in Commands \cup {None}
          /\ (t \in leased' <=> t \in leased)
      BY <1>2, SlotTypeFacts DEF SlotInv, Unlocked
    <2>2. Shape(t)'
      BY <2>1 DEF SlotKept, Shape
    <2>3. PromiseKept(t)'
      BY <1>1, <2>1 DEF SlotKept, PromiseKept
    <2>4. UploadKept(t)'
      BY <1>1, <2>1 DEF SlotKept, UploadKept
    <2>5. Offered(t)'
      BY <2>1 DEF SlotKept, Offered, BeingFilled
    <2> QED
      BY <2>2, <2>3, <2>4, <2>5 DEF SlotKept
  <1>3. ASSUME NEW c \in Commands, Live(c), cb[c].job.slot # s PROVE Placed(c)'
    <2>1. cb[c].job.slot \in Slots /\ Placed(c) /\ lockWait = None
      BY <1>3, JobFields, QueueTypes, RecordTypes DEF Live, SlotInv, Unlocked
    <2>2. c # None
      BY SlotTypeFacts DEF SlotInv
    <2> QED
      BY <1>3, <2>1, <2>2 DEF Placed
  <1>4. (\A c \in Commands : Live(c) => Placed(c))'
    BY <1>1, <1>3
  <1>5. OneJob'
    BY <1>1 DEF SlotInv, OneJob
  <1> QED
    BY <1>2, <1>4, <1>5 DEF SlotInv

\* A record that is changed in one place.
LEMMA SlotSet ==
    ASSUME SlotTypes, NEW s \in Slots, NEW k \in Keys \cup {None},
           NEW st \in {"Free", "Uploading", "Ready", "InFlight"}, NEW u \in Commands \cup {None},
           slot' = [slot EXCEPT ![s] = [key |-> k, state |-> st, upload |-> u]]
    PROVE  /\ slot' \in [Slots -> SlotRecord]
           /\ slot'[s].key = k /\ slot'[s].state = st /\ slot'[s].upload = u
           /\ \A t \in Slots \ {s} : slot'[t] = slot[t]
  BY DEF SlotTypes, SlotRecord

\* The steps of the table, each as the one slot it changes.
LEMMA ReserveKeeps == ASSUME QTypeOK, SlotInv, NEW k \in Keys, Reserve(k) PROVE SlotInv'
  <1>1. PICK s \in Slots :
          /\ slot[s].state = "Free"
          /\ slot' = [slot EXCEPT ![s] = [key |-> k, state |-> "Uploading", upload |-> None]]
          /\ promised' = [promised EXCEPT ![s] = Reserved]
    BY DEF Reserve
  <1>2. Unlocked /\ UNCHANGED <<cb, mem, lockWait, leased>>
    BY DEF Reserve, qvars
  <1>3. SlotTypes /\ SlotKept(s) /\ None \notin Commands /\ Reserved \notin Commands
    BY SlotTypeFacts DEF SlotInv
  <1>4. /\ slot' \in [Slots -> SlotRecord] /\ slot'[s].key = k /\ slot'[s].state = "Uploading"
        /\ slot'[s].upload = None /\ \A t \in Slots \ {s} : slot'[t] = slot[t]
    BY <1>1, <1>3, SlotSet
  <1>5. /\ promised'[s] = Reserved /\ \A t \in Slots \ {s} : promised'[t] = promised[t]
        /\ promised' \in [Slots -> Commands \cup {None, Reserved}]
    BY <1>1, <1>3, SlotTypeFacts
  <1>6. SlotTypes'
    BY <1>2, <1>3, <1>4, <1>5 DEF SlotTypes
  <1>7. s \notin leased /\ promised[s] = None /\ slot[s].upload = None
    BY <1>1, <1>3 DEF SlotKept, Shape
  <1>8. SlotKept(s)'
    BY <1>2, <1>3, <1>4, <1>5, <1>7 DEF SlotKept, Shape, PromiseKept, UploadKept, Offered
  <1>9. LockKept'
    BY <1>2 DEF Unlocked, LockKept
  <1>10. \A c \in Commands : Live(c) /\ cb[c].job.slot = s => Placed(c)'
    <2> SUFFICES ASSUME NEW c \in Commands, Live(c), cb[c].job.slot = s PROVE FALSE
      OBVIOUS
    <2>1. Placed(c) /\ cb[c].job.op \in {"upload", "dispatch"}
      BY JobFields, QueueTypes, RecordTypes DEF SlotInv, Live
    <2> QED
      BY <1>2, <1>3, <1>7, <2>1 DEF Placed, Unlocked
  <1> QED
    BY <1>2, <1>4, <1>5, <1>6, <1>8, <1>9, <1>10, OneSlot

LEMMA MarkUploadKeeps ==
    ASSUME QTypeOK, (\A c \in Events : Submitted(c)), SlotInv, NEW s \in Slots, NEW e \in Commands,
           MarkUploadSubmitted(s, e)
    PROVE  SlotInv'
  <1>1. /\ Unlocked /\ promised[s] = e /\ e \in Events /\ slot[s].state = "Uploading"
        /\ slot' = [slot EXCEPT ![s].upload = e] /\ promised' = [promised EXCEPT ![s] = None]
        /\ UNCHANGED <<cb, mem, lockWait, leased>>
    BY DEF MarkUploadSubmitted, qvars
  <1>3. SlotTypes /\ SlotKept(s) /\ None \notin Commands /\ Reserved \notin Commands
    BY SlotTypeFacts DEF SlotInv
  <1>4. /\ slot' \in [Slots -> SlotRecord] /\ slot'[s].key = slot[s].key
        /\ slot'[s].state = "Uploading" /\ slot'[s].upload = e
        /\ \A t \in Slots \ {s} : slot'[t] = slot[t]
    BY <1>1, <1>3 DEF SlotTypes, SlotRecord
  <1>5. /\ promised'[s] = None /\ \A t \in Slots \ {s} : promised'[t] = promised[t]
        /\ promised' \in [Slots -> Commands \cup {None, Reserved}]
    BY <1>1, <1>3, SlotTypeFacts
  <1>6. SlotTypes'
    BY <1>1, <1>3, <1>4, <1>5 DEF SlotTypes
  <1>7. /\ s \notin leased /\ slot[s].key \in Keys /\ Submitted(e)
        /\ cb[e].job = UploadJob(s, slot[s].key) /\ (Executed(e) => mem[s] = slot[s].key)
    BY <1>1, <1>3 DEF SlotKept, Shape, PromiseKept
  <1>8. SlotKept(s)'
    <2>1. Shape(s)' /\ PromiseKept(s)' /\ Offered(s)'
      BY <1>1, <1>3, <1>4, <1>5, <1>7 DEF Shape, PromiseKept, Offered
    <2>2. UploadKept(s)'
      BY <1>1, <1>4, <1>7 DEF UploadKept, Submitted, Executed
    <2> QED
      BY <2>1, <2>2 DEF SlotKept
  <1>9. LockKept'
    BY <1>1 DEF Unlocked, LockKept
  <1>10. \A c \in Commands : Live(c) /\ cb[c].job.slot = s => Placed(c)'
    <2> SUFFICES ASSUME NEW c \in Commands, Live(c), cb[c].job.slot = s PROVE Placed(c)'
      OBVIOUS
    <2>1. Placed(c)
      BY DEF SlotInv
    <2> QED
      BY <1>1, <1>3, <1>4, <1>7, <2>1 DEF Placed, Unlocked, SlotKept, Shape
  <1> QED
    BY <1>1, <1>4, <1>5, <1>6, <1>8, <1>9, <1>10, OneSlot

LEMMA MarkReadyKeeps ==
    ASSUME QTypeOK, SlotInv, NEW s \in Slots, NEW e \in Commands, MarkReady(s, e)
    PROVE  SlotInv'
  <1> DEFINE u == slot[s].upload
  <1>1. /\ Unlocked /\ slot[s].state = "Uploading" /\ u # None
        /\ slot' = [slot EXCEPT ![s].state = "Ready", ![s].upload = None] /\ lockWait' = u
        /\ UNCHANGED <<cb, mem, promised, leased>>
    BY DEF MarkReady, qvars
  <1>3. /\ SlotTypes /\ SlotKept(s) /\ None \notin Commands /\ u \in Commands \cup {None}
    BY SlotTypeFacts DEF SlotInv
  <1>4. /\ slot' \in [Slots -> SlotRecord] /\ slot'[s].key = slot[s].key
        /\ slot'[s].state = "Ready" /\ slot'[s].upload = None
        /\ \A t \in Slots \ {s} : slot'[t] = slot[t]
    BY <1>1, <1>3 DEF SlotTypes, SlotRecord
  <1>6. SlotTypes'
    BY <1>1, <1>3, <1>4 DEF SlotTypes
  <1>7. /\ s \notin leased /\ slot[s].key \in Keys /\ Submitted(u) /\ promised[s] = None
        /\ cb[u].job = UploadJob(s, slot[s].key) /\ (Executed(u) => mem[s] = slot[s].key)
    BY <1>1, <1>3 DEF SlotKept, Shape, UploadKept
  <1>8. SlotKept(s)'
    <2>1. Shape(s)' /\ PromiseKept(s)' /\ UploadKept(s)'
      BY <1>1, <1>3, <1>4, <1>7 DEF Shape, PromiseKept, UploadKept
    <2>2. Executed(u) \/ cb[u].stage = "pending"
      BY <1>7 DEF Submitted, Executed
    <2>3. Offered(s)'
      BY <1>1, <1>4, <1>7, <2>2 DEF Offered, BeingFilled
    <2> QED
      BY <2>1, <2>3 DEF SlotKept
  <1>9. LockKept'
    BY <1>1, <1>4, <1>7 DEF LockKept, Submitted
  <1>10. \A c \in Commands : Live(c) /\ cb[c].job.slot = s => Placed(c)'
    <2> SUFFICES ASSUME NEW c \in Commands, Live(c), cb[c].job.slot = s PROVE Placed(c)'
      OBVIOUS
    <2>1. Placed(c)
      BY DEF SlotInv
    <2> QED
      BY <1>1, <1>3, <1>4, <1>7, <2>1 DEF Placed, Unlocked
  <1> QED
    BY <1>1, <1>4, <1>6, <1>8, <1>9, <1>10, OneSlot

LEMMA AcquireKeeps ==
    ASSUME QTypeOK, SlotInv, NEW k \in Keys, AcquireForDispatch(k) PROVE SlotInv'
  <1>1. PICK s \in Slots :
          /\ slot[s].key = k /\ slot[s].state = "Ready"
          /\ slot' = [slot EXCEPT ![s].state = "InFlight"] /\ leased' = leased \cup {s}
    BY DEF AcquireForDispatch
  <1>2. Unlocked /\ UNCHANGED <<cb, mem, lockWait, promised>>
    BY DEF AcquireForDispatch, qvars
  <1>3. SlotTypes /\ SlotKept(s) /\ None \notin Commands /\ Reserved \notin Commands
    BY SlotTypeFacts DEF SlotInv
  <1>4. /\ slot' \in [Slots -> SlotRecord] /\ slot'[s].key = k /\ slot'[s].state = "InFlight"
        /\ slot'[s].upload = slot[s].upload /\ \A t \in Slots \ {s} : slot'[t] = slot[t]
    BY <1>1, <1>3 DEF SlotTypes, SlotRecord
  <1>6. SlotTypes'
    BY <1>1, <1>2, <1>3, <1>4 DEF SlotTypes
  <1>7. promised[s] = None /\ slot[s].upload = None /\ mem[s] = k /\ s \notin leased
    BY <1>1, <1>2, <1>3 DEF SlotKept, Shape, Offered, BeingFilled, Unlocked
  <1>8. SlotKept(s)'
    BY <1>1, <1>2, <1>3, <1>4, <1>7 DEF SlotKept, Shape, PromiseKept, UploadKept, Offered
  <1>9. LockKept'
    BY <1>2 DEF Unlocked, LockKept
  <1>10. \A c \in Commands : Live(c) /\ cb[c].job.slot = s => Placed(c)'
    <2> SUFFICES ASSUME NEW c \in Commands, Live(c), cb[c].job.slot = s PROVE FALSE
      OBVIOUS
    <2>1. Placed(c) /\ cb[c].job.op \in {"upload", "dispatch"}
      BY JobFields, QueueTypes, RecordTypes DEF SlotInv, Live
    <2> QED
      BY <1>2, <1>3, <1>7, <2>1 DEF Placed, Unlocked
  <1> QED
    BY <1>1, <1>2, <1>4, <1>6, <1>8, <1>9, <1>10, OneSlot

LEMMA ReleaseKeeps ==
    ASSUME QTypeOK, SlotInv, NEW s \in Slots, NEW e \in Commands, ~Live(e), ReleaseFromDispatch(s, e)
    PROVE  SlotInv'
  <1>1. /\ Unlocked /\ s \in leased /\ LiveJobs(s) \subseteq {e} /\ slot[s].state = "InFlight"
        /\ slot' = [slot EXCEPT ![s].state = "Ready"] /\ leased' = leased \ {s}
        /\ UNCHANGED <<cb, mem, lockWait, promised>>
    BY DEF ReleaseFromDispatch, qvars
  <1>3. SlotTypes /\ SlotKept(s) /\ None \notin Commands /\ Reserved \notin Commands
    BY SlotTypeFacts DEF SlotInv
  <1>4. /\ slot' \in [Slots -> SlotRecord] /\ slot'[s].key = slot[s].key
        /\ slot'[s].state = "Ready"
        /\ slot'[s].upload = slot[s].upload /\ \A t \in Slots \ {s} : slot'[t] = slot[t]
    BY <1>1, <1>3 DEF SlotTypes, SlotRecord
  <1>6. SlotTypes'
    BY <1>1, <1>3, <1>4 DEF SlotTypes
  <1>7. promised[s] = None /\ slot[s].upload = None /\ mem[s] = slot[s].key /\ slot[s].key \in Keys
    BY <1>1, <1>3 DEF SlotKept, Shape, Offered
  <1>8. SlotKept(s)'
    BY <1>1, <1>3, <1>4, <1>7 DEF SlotKept, Shape, PromiseKept, UploadKept, Offered
  <1>9. LockKept'
    BY <1>1 DEF Unlocked, LockKept
  <1>10. \A c \in Commands : Live(c) /\ cb[c].job.slot = s => Placed(c)'
    BY <1>1 DEF LiveJobs, Live
  <1> QED
    BY <1>1, <1>4, <1>6, <1>8, <1>9, <1>10, OneSlot

LEMMA EvictKeeps ==
    ASSUME QTypeOK, SlotInv, ~EvictsUnmarked, NEW s \in Slots, NEW e \in Commands, Evict(s, e)
    PROVE  SlotInv'
  <1> DEFINE u == slot[s].upload
  <1>1. /\ Unlocked /\ promised[s] \notin Commands /\ slot[s].state # "InFlight"
        /\ slot' = [slot EXCEPT ![s] = [key |-> None, state |-> "Free", upload |-> None]]
        /\ lockWait' = u /\ promised' = [promised EXCEPT ![s] = None]
        /\ UNCHANGED <<cb, mem, leased>>
    BY DEF Evict, qvars, FreeSlot
  <1>3. /\ SlotTypes /\ SlotKept(s) /\ None \notin Commands /\ Reserved \notin Commands
        /\ u \in Commands \cup {None}
    BY SlotTypeFacts DEF SlotInv
  <1>4. /\ slot' \in [Slots -> SlotRecord] /\ slot'[s].state = "Free"
        /\ slot'[s].upload = None /\ \A t \in Slots \ {s} : slot'[t] = slot[t]
    BY <1>1, <1>3, SlotSet
  <1>5. /\ promised'[s] = None /\ \A t \in Slots \ {s} : promised'[t] = promised[t]
        /\ promised' \in [Slots -> Commands \cup {None, Reserved}]
    BY <1>1, <1>3, SlotTypeFacts
  <1>6. SlotTypes'
    BY <1>1, <1>3, <1>4, <1>5 DEF SlotTypes
  <1>7. /\ s \notin leased
        /\ u # None => Submitted(u) /\ slot[s].key \in Keys /\ cb[u].job = UploadJob(s, slot[s].key)
    BY <1>1, <1>3 DEF SlotKept, Shape, UploadKept
  <1>8. SlotKept(s)'
    BY <1>1, <1>3, <1>4, <1>5, <1>7 DEF SlotKept, Shape, PromiseKept, UploadKept, Offered
  <1>9. LockKept'
    BY <1>1, <1>4, <1>5, <1>7 DEF LockKept, Submitted
  <1>10. \A c \in Commands : Live(c) /\ cb[c].job.slot = s => Placed(c)'
    <2> SUFFICES ASSUME NEW c \in Commands, Live(c), cb[c].job.slot = s PROVE Placed(c)'
      OBVIOUS
    <2>1. Placed(c)
      BY DEF SlotInv
    <2> QED
      BY <1>1, <1>3, <1>4, <1>7, <2>1 DEF Placed, Unlocked
  <1> QED
    BY <1>1, <1>4, <1>5, <1>6, <1>8, <1>9, <1>10, OneSlot

\* The steps that record a job, and the one that runs it.
LEMMA RecordKeeps ==
    ASSUME QTypeOK, SlotInv, NEW c \in Commands, NEW s \in Slots, NEW b \in Buffers,
           RecordUpload(c, s, b) \/ RecordDispatch(c, s, b)
    PROVE  SlotInv'
  <1>0. /\ SlotTypes /\ SlotKept(s) /\ None \notin Commands /\ Reserved \notin Commands
        /\ None # Reserved
    BY SlotTypeFacts DEF SlotInv, None, Reserved
  <1>1. /\ UNCHANGED <<slot, lockWait, mem, leased>> /\ cb[c].stage = "recording"
        /\ cb[c].job = NoJob /\ ~Live(c)
    BY DEF RecordUpload, RecordDispatch, Record, svars, Live
  <1>2. cb \in [Commands -> CommandBuffer]
    BY QueueTypes
  <1>3. /\ cb'[c].stage = "recording"
        /\ \A d \in Commands \ {c} : cb'[d] = cb[d]
        /\ RecordUpload(c, s, b) => cb'[c].job = UploadJob(s, slot[s].key)
        /\ RecordDispatch(c, s, b) => cb'[c].job = DispatchJob(s, slot[s].key)
    BY <1>1, <1>2 DEF RecordUpload, RecordDispatch, Record, CommandBuffer
  <1>4. slot[s].key \in Keys
    BY <1>0 DEF RecordUpload, RecordDispatch, SlotKept, Shape
  <1>5. /\ RecordUpload(c, s, b) =>
             /\ promised[s] = Reserved /\ promised'[s] = c
             /\ promised' \in [Slots -> Commands \cup {None, Reserved}]
             /\ \A t \in Slots \ {s} : promised'[t] = promised[t]
        /\ RecordDispatch(c, s, b) => promised' = promised /\ s \in leased /\ LiveJobs(s) = {}
    BY <1>0 DEF RecordUpload, RecordDispatch, svars, SlotTypes
  <1>6. SlotTypes'
    BY <1>0, <1>1, <1>5 DEF SlotTypes
  <1>7. \A d \in Commands : Live(d)' /\ d # c => Live(d) /\ cb'[d] = cb[d]
    BY <1>3 DEF Live
  <1>8. \A t \in Slots : promised[t] # c /\ slot[t].upload # c
    <2> SUFFICES ASSUME NEW t \in Slots, promised[t] = c \/ slot[t].upload = c PROVE FALSE
      OBVIOUS
    <2>1. SlotKept(t) /\ c # None
      BY <1>0 DEF SlotInv
    <2>2. slot[t].key \in Keys
      BY <1>0, <2>1 DEF SlotKept, Shape
    <2>3. cb[c].job = UploadJob(t, slot[t].key)
      BY <1>0, <2>1 DEF SlotKept, PromiseKept, UploadKept
    <2> QED
      BY <1>1, <2>2, <2>3, JobFields
  <1>9. lockWait # c /\ lockWait \in Commands \cup {None}
    BY <1>0, <1>1, SlotTypeFacts DEF SlotInv, LockKept, Submitted
  <1>10. \A d \in Commands : Live(d) => cb[d].job.slot # s
    <2> SUFFICES ASSUME NEW d \in Commands, Live(d), cb[d].job.slot = s PROVE FALSE
      OBVIOUS
    <2>1. RecordUpload(c, s, b)
      BY <1>5 DEF LiveJobs, Live
    <2>2. Placed(d) /\ cb[d].job.op \in {"upload", "dispatch"}
      BY JobFields, QueueTypes, RecordTypes DEF SlotInv, Live
    <2>3. promised[s] = Reserved /\ s \notin leased /\ slot[s].upload = None
      BY <1>0, <1>5, <2>1 DEF SlotKept, Shape
    <2>4. d = lockWait /\ cb[d].job.op = "upload"
      BY <1>0, <2>2, <2>3 DEF Placed
    <2>5. PICK t \in Slots, k \in Keys : cb[d].job = UploadJob(t, k) /\ promised[t] = None
      BY <1>0, <2>4 DEF SlotInv, LockKept
    <2>6. UploadJob(t, k).slot = t
      BY JobFields, Zenon
    <2> QED
      BY <1>0, <2>3, <2>5, <2>6
  <1>11. ASSUME NEW t \in Slots PROVE SlotKept(t)'
    <2>1. SlotKept(t) /\ slot[t].upload \in Commands \cup {None}
          /\ promised[t] \in Commands \cup {None, Reserved}
      BY SlotTypeFacts DEF SlotInv
    <2>2. CASE promised'[t] = promised[t]
      <3>1. Shape(t)' /\ PromiseKept(t)' /\ UploadKept(t)' /\ Offered(t)'
        BY <1>1, <1>3, <1>8, <1>9, <2>1, <2>2 DEF SlotKept, Shape, PromiseKept, UploadKept,
                      Offered, BeingFilled, Submitted, Executed
      <3> QED
        BY <3>1 DEF SlotKept
    <2>3. CASE promised'[t] # promised[t]
      <3>1. t = s /\ RecordUpload(c, s, b) /\ promised[s] = Reserved /\ promised'[s] = c
        BY <1>5, <2>3
      <3>2. Shape(t)'
        BY <1>0, <1>1, <2>1, <3>1 DEF SlotKept, Shape
      <3>3. PromiseKept(t)'
        BY <1>1, <1>3, <3>1 DEF PromiseKept, Executed
      <3>4. UploadKept(t)' /\ Offered(t)'
        BY <1>0, <1>1, <2>1, <3>1 DEF SlotKept, Shape, UploadKept, Offered, BeingFilled
      <3> QED
        BY <3>2, <3>3, <3>4 DEF SlotKept
    <2> QED
      BY <2>2, <2>3
  <1>12. LockKept'
    <2> SUFFICES ASSUME lockWait # None PROVE LockKept'
      BY <1>1 DEF LockKept
    <2>1. Submitted(lockWait) /\ lockWait \in Commands \ {c} /\ cb'[lockWait] = cb[lockWait]
      BY <1>3, <1>9 DEF SlotInv, LockKept
    <2>2. PICK t \in Slots, k \in Keys :
            /\ cb[lockWait].job = UploadJob(t, k) /\ promised[t] = None /\ slot[t].upload = None
            /\ slot[t].state = "Free" \/ (slot[t].state = "Ready" /\ slot[t].key = k)
      BY DEF SlotInv, LockKept
    <2>3. promised'[t] = None
      BY <1>0, <1>5, <2>2
    <2> QED
      BY <1>1, <2>1, <2>2, <2>3 DEF LockKept, Submitted
  <1>f. /\ UploadJob(s, slot[s].key).slot = s /\ DispatchJob(s, slot[s].key).slot = s
        /\ UploadJob(s, slot[s].key).op = "upload" /\ DispatchJob(s, slot[s].key).op = "dispatch"
        /\ DispatchJob(s, slot[s].key).key = slot[s].key
    BY DEF UploadJob, DispatchJob
  <1>13. cb'[c].job.slot = s
    BY <1>3, <1>f
  <1>14. ASSUME NEW d \in Commands, Live(d)' PROVE Placed(d)'
    <2>1. CASE d = c
      <3>1. CASE RecordUpload(c, s, b)
        <4>1. cb'[c].job.op = "upload"
          BY <1>3, <1>f, <3>1
        <4> QED
          BY <1>5, <1>13, <2>1, <3>1, <4>1 DEF Placed
      <3>2. CASE RecordDispatch(c, s, b)
        <4>1. cb'[c].job.op = "dispatch" /\ cb'[c].job.key = slot[s].key
          BY <1>3, <1>f, <3>2
        <4> QED
          BY <1>1, <1>5, <1>13, <2>1, <3>2, <4>1 DEF Placed
      <3> QED
        BY <3>1, <3>2
    <2>2. CASE d # c
      <3>1. Live(d) /\ cb'[d] = cb[d] /\ Placed(d) /\ cb[d].job.slot \in Slots
            /\ cb[d].job.slot # s
        BY <1>7, <1>10, <1>14, <2>2, JobFields, QueueTypes, RecordTypes DEF SlotInv, Live
      <3> QED
        BY <1>1, <1>5, <3>1 DEF Placed
    <2> QED
      BY <2>1, <2>2
  <1>15. OneJob'
    BY <1>7, <1>10, <1>13 DEF SlotInv, OneJob
  <1> QED
    BY <1>6, <1>11, <1>12, <1>14, <1>15 DEF SlotInv

LEMMA ExecuteJobKeeps ==
    ASSUME QueueInv, SlotInv, NEW q \in Queues, ExecuteJob(q)
    PROVE  QueueInv' /\ SlotInv'
  <1> SUFFICES ASSUME NEW c, c = Head(running[q]) PROVE QueueInv' /\ SlotInv'
    OBVIOUS
  <1>0. /\ QueueInv' /\ c \in Commands /\ cb[c].stage = "pending"
        /\ cb' = [cb EXCEPT ![c] = DoneForm(cb[c])]
    BY ExecuteKeeps DEF ExecuteJob
  <1>1. cb \in [Commands -> CommandBuffer] /\ QTypeOK
    BY QueueTypes DEF QueueInv
  <1>2. /\ cb'[c].stage = "done" /\ cb'[c].job = cb[c].job
        /\ \A d \in Commands \ {c} : cb'[d] = cb[d]
    BY <1>0, <1>1, StageRecords
  <1>3. /\ UNCHANGED <<slot, lockWait, promised, leased>>
        /\ mem' = IF cb[c].job # NoJob /\ cb[c].job.op = "upload"
                  THEN [mem EXCEPT ![cb[c].job.slot] = cb[c].job.key] ELSE mem
    BY DEF ExecuteJob
  <1>4. /\ SlotTypes /\ None \notin Commands /\ Reserved \notin Commands
    BY SlotTypeFacts DEF SlotInv
  <1>5. cb[c].job # NoJob => /\ cb[c].job.slot \in Slots /\ cb[c].job.key \in Keys
                             /\ cb[c].job.op \in {"upload", "dispatch"} /\ Live(c)
    BY <1>0, <1>1, JobFields, RecordTypes DEF Live
  <1>6. SlotTypes'
    BY <1>3, <1>4, <1>5 DEF SlotTypes
  <1>7. \A s \in Slots : mem'[s] = mem[s] \/
           (/\ cb[c].job # NoJob /\ cb[c].job.op = "upload" /\ cb[c].job.slot = s
            /\ mem'[s] = cb[c].job.key)
    BY <1>3, <1>4, <1>5 DEF SlotTypes
  <1>8. ASSUME cb[c].job # NoJob, cb[c].job.op = "upload" 
        PROVE  mem'[cb[c].job.slot] = cb[c].job.key
    BY <1>3, <1>4, <1>5, <1>8 DEF SlotTypes
  <1>9. \A s \in Slots : cb[c].job = UploadJob(s, slot[s].key) /\ slot[s].key \in Keys =>
                            mem'[s] = slot[s].key
    <2> SUFFICES ASSUME NEW s \in Slots, cb[c].job = UploadJob(s, slot[s].key), slot[s].key \in Keys
                 PROVE  mem'[s] = slot[s].key
      OBVIOUS
    <2>1. cb[c].job.op = "upload" /\ cb[c].job.slot = s /\ cb[c].job.key = slot[s].key
      BY DEF UploadJob
    <2>2. cb[c].job # NoJob
      BY JobFields
    <2> QED
      BY <1>8, <2>1, <2>2
  \* A slot that is written is written with the key it is for.
  <1>10. ASSUME NEW s \in Slots, slot[s].state # "Free"
         PROVE  mem'[s] = mem[s] \/ (mem'[s] = slot[s].key /\ cb[c].job = UploadJob(s, slot[s].key))
    <2> SUFFICES ASSUME cb[c].job # NoJob, cb[c].job.op = "upload", cb[c].job.slot = s,
                        mem'[s] = cb[c].job.key
                 PROVE  mem'[s] = slot[s].key /\ cb[c].job = UploadJob(s, slot[s].key)
      BY <1>7
    <2>1. Placed(c) /\ SlotKept(s)
      BY <1>0, <1>5 DEF SlotInv
    <2>2. CASE promised[s] = c
      <3>1. cb[c].job = UploadJob(s, slot[s].key)
        BY <1>0, <2>1, <2>2 DEF SlotKept, PromiseKept
      <3> QED
        BY <3>1 DEF UploadJob
    <2>3. CASE slot[s].upload = c
      <3>1. cb[c].job = UploadJob(s, slot[s].key)
        BY <1>0, <1>4, <2>1, <2>3 DEF SlotKept, UploadKept
      <3> QED
        BY <3>1 DEF UploadJob
    <2>4. CASE lockWait = c
      <3>1. PICK t \in Slots, k \in Keys :
              /\ cb[c].job = UploadJob(t, k)
              /\ slot[t].state = "Free" \/ (slot[t].state = "Ready" /\ slot[t].key = k)
        BY <1>0, <1>4, <2>4 DEF SlotInv, LockKept
      <3>2. t = s /\ cb[c].job.key = k
        BY <3>1 DEF UploadJob
      <3> QED
        BY <1>10, <3>1, <3>2
    <2> QED
      BY <2>1, <2>2, <2>3, <2>4 DEF Placed
  <1>11. \A d \in Commands : /\ cb'[d].job = cb[d].job /\ (Live(d)' => Live(d) /\ d # c)
                             /\ (Submitted(d) => Submitted(d)')
                             /\ (Executed(d)' => Executed(d) \/ d = c)
    BY <1>0, <1>2 DEF Live, Submitted, Executed
  <1>12. ASSUME NEW s \in Slots PROVE SlotKept(s)'
    <2>1. SlotKept(s) /\ slot[s].upload \in Commands \cup {None}
          /\ promised[s] \in Commands \cup {None, Reserved}
      BY SlotTypeFacts DEF SlotInv
    <2>2. Shape(s)'
      BY <1>3, <2>1 DEF SlotKept, Shape
    <2>3. PromiseKept(s)'
      <3> SUFFICES ASSUME promised[s] \in Commands PROVE PromiseKept(s)'
        BY <1>3 DEF PromiseKept
      <3>1. /\ cb[promised[s]].job = UploadJob(s, slot[s].key)
            /\ cb[promised[s]].stage \in {"recording", "ended", "taken", "pending", "done"}
            /\ Executed(promised[s]) => mem[s] = slot[s].key
            /\ slot[s].state = "Uploading" /\ slot[s].key \in Keys
        BY <1>4, <2>1 DEF SlotKept, PromiseKept, Shape
      <3>2. cb'[promised[s]].stage \in {"recording", "ended", "taken", "pending", "done"}
        BY <1>2, <3>1
      <3>3. Executed(promised[s])' => mem'[s] = slot[s].key
        BY <1>3, <1>9, <1>10, <1>11, <3>1
      <3> QED
        BY <1>3, <1>11, <3>1, <3>2, <3>3 DEF PromiseKept
    <2>4. UploadKept(s)'
      <3> SUFFICES ASSUME slot[s].upload # None PROVE UploadKept(s)'
        BY <1>3 DEF UploadKept
      <3>1. /\ cb[slot[s].upload].job = UploadJob(s, slot[s].key) /\ Submitted(slot[s].upload)
            /\ Executed(slot[s].upload) => mem[s] = slot[s].key
            /\ slot[s].state = "Uploading" /\ slot[s].key \in Keys
        BY <1>4, <2>1 DEF SlotKept, UploadKept, Shape
      <3>2. Executed(slot[s].upload)' => mem'[s] = slot[s].key
        BY <1>3, <1>9, <1>10, <1>11, <2>1, <3>1
      <3> QED
        BY <1>3, <1>11, <2>1, <3>1, <3>2 DEF UploadKept
    <2>5. Offered(s)'
      <3>1. slot[s].state = "InFlight" => mem'[s] = slot[s].key
        BY <1>10, <2>1 DEF SlotKept, Offered
      <3>2. ASSUME slot[s].state = "Ready" PROVE mem'[s] = slot[s].key \/ BeingFilled(s)'
        <4>1. mem[s] = slot[s].key \/ BeingFilled(s)
          BY <2>1, <3>2 DEF SlotKept, Offered
        <4>2. CASE mem[s] = slot[s].key
          BY <1>10, <3>2, <4>2
        <4>3. CASE BeingFilled(s) /\ lockWait = c
          BY <1>9, <2>1, <3>2, <4>3 DEF BeingFilled, SlotKept, Shape
        <4>4. CASE BeingFilled(s) /\ lockWait # c
          BY <1>2, <1>3, <1>4, <4>4 DEF BeingFilled, SlotTypes
        <4> QED
          BY <4>1, <4>2, <4>3, <4>4
      <3> QED
        BY <1>3, <3>1, <3>2 DEF Offered
    <2> QED
      BY <2>2, <2>3, <2>4, <2>5 DEF SlotKept
  <1>13. LockKept'
    BY <1>3, <1>4, <1>11 DEF SlotInv, LockKept, SlotTypes
  <1>14. (\A d \in Commands : Live(d) => Placed(d))'
    BY <1>2, <1>3, <1>11 DEF SlotInv, Placed
  <1>15. OneJob'
    BY <1>2, <1>11 DEF SlotInv, OneJob
  <1> QED
    BY <1>0, <1>6, <1>12, <1>13, <1>14, <1>15 DEF SlotInv

\* Shapes and types hold whatever callers do; the queues rest on no more.
Shapes == SlotTypes /\ \A s \in Slots : Shape(s)

LEMMA ShapesStay ==
    ASSUME QTypeOK, Shapes, Next PROVE Shapes'
  <1>0. /\ SlotTypes /\ (\A s \in Slots : Shape(s)) /\ None \notin Commands
        /\ Reserved \notin Commands /\ None # Reserved
    BY SlotTypeFacts DEF Shapes, None, Reserved
  <1>1. ASSUME UNCHANGED svars PROVE Shapes'
    BY <1>1 DEF svars, Shapes, SlotTypes, Shape
  <1>2. ASSUME NEW c \in Commands, Abandon(c) PROVE Shapes'
    <2>1. \A s \in Slots : promised'[s] = IF promised[s] = c THEN Reserved ELSE promised[s]
      BY <1>2 DEF Abandon
    <2>2. UNCHANGED <<slot, lockWait, mem, leased>>
      BY <1>2 DEF Abandon
    <2>3. SlotTypes'
      BY <1>0, <1>2, <2>2 DEF Abandon, SlotTypes
    <2>4. \A s \in Slots : promised'[s] # None => promised[s] # None
      BY <1>0, <2>1
    <2> QED
      BY <1>0, <2>2, <2>3, <2>4 DEF Shapes, Shape
  <1>3. ASSUME NEW k \in Keys, Reserve(k) PROVE Shapes'
    <2>1. PICK s \in Slots :
            /\ slot[s].state = "Free"
            /\ slot' = [slot EXCEPT ![s] = [key |-> k, state |-> "Uploading", upload |-> None]]
            /\ promised' = [promised EXCEPT ![s] = Reserved]
      BY <1>3 DEF Reserve
    <2>2. UNCHANGED <<lockWait, mem, leased>>
      BY <1>3 DEF Reserve
    <2>3. /\ slot' \in [Slots -> SlotRecord] /\ slot'[s].key = k
          /\ slot'[s].state = "Uploading" /\ slot'[s].upload = None
          /\ \A t \in Slots \ {s} : slot'[t] = slot[t]
      BY <1>0, <2>1, SlotSet
    <2>4. /\ promised'[s] = Reserved /\ \A t \in Slots \ {s} : promised'[t] = promised[t]
          /\ promised' \in [Slots -> Commands \cup {None, Reserved}]
      BY <1>0, <2>1 DEF SlotTypes
    <2>5. s \notin leased
      BY <1>0, <2>1 DEF Shape
    <2>6. \A t \in Slots : Shape(t)'
      BY <1>0, <2>2, <2>3, <2>4, <2>5 DEF Shape
    <2> QED
      BY <1>0, <2>2, <2>3, <2>4, <2>6 DEF Shapes, SlotTypes
  <1>4. ASSUME NEW k \in Keys, AcquireForDispatch(k) PROVE Shapes'
    <2>1. PICK s \in Slots :
            /\ slot[s].key = k /\ slot[s].state = "Ready"
            /\ slot' = [slot EXCEPT ![s].state = "InFlight"] /\ leased' = leased \cup {s}
      BY <1>4 DEF AcquireForDispatch
    <2>2. UNCHANGED <<lockWait, mem, promised>>
      BY <1>4 DEF AcquireForDispatch
    <2> QED
      BY <1>0, <2>1, <2>2 DEF Shapes, SlotTypes, SlotRecord, Shape
  <1>5. ASSUME NEW s \in Slots, NEW c \in Commands, NEW b \in Buffers,
               RecordUpload(c, s, b) \/ RecordDispatch(c, s, b)
        PROVE  Shapes'
    <2>1. CASE RecordUpload(c, s, b)
      BY <1>0, <2>1 DEF RecordUpload, Shapes, SlotTypes, Shape
    <2>2. CASE RecordDispatch(c, s, b)
      BY <1>1, <2>2 DEF RecordDispatch
    <2> QED
      BY <1>5, <2>1, <2>2
  <1>6. ASSUME NEW s \in Slots, NEW e \in Commands, MarkUploadSubmitted(s, e) PROVE Shapes'
    BY <1>0, <1>6 DEF MarkUploadSubmitted, Shapes, SlotTypes, SlotRecord, Shape
  <1>7. ASSUME NEW s \in Slots, NEW e \in Commands, MarkReady(s, e) PROVE Shapes'
    BY <1>0, <1>7 DEF MarkReady, Shapes, SlotTypes, SlotRecord, Shape
  <1>8. ASSUME NEW s \in Slots, NEW e \in Commands, ReleaseFromDispatch(s, e) PROVE Shapes'
    BY <1>0, <1>8 DEF ReleaseFromDispatch, Shapes, SlotTypes, SlotRecord, Shape
  <1>9. ASSUME NEW s \in Slots, NEW e \in Commands, Evict(s, e) PROVE Shapes'
    <2>1. /\ slot[s].state # "InFlight" /\ promised' = [promised EXCEPT ![s] = None]
          /\ slot' = [slot EXCEPT ![s] = [key |-> None, state |-> "Free", upload |-> None]]
          /\ lockWait' = slot[s].upload /\ UNCHANGED <<mem, leased>>
      BY <1>9 DEF Evict, FreeSlot
    <2> QED
      BY <1>0, <2>1, SlotSet DEF Shapes, SlotTypes, SlotRecord, Shape
  <1>10. CASE DropUploadClone
    BY <1>0, <1>10 DEF DropUploadClone, Shapes, SlotTypes, Shape
  <1>11. ASSUME NEW q \in Queues, ExecuteJob(q) PROVE Shapes'
    <2> SUFFICES ASSUME NEW c, c = Head(running[q]) PROVE Shapes'
      OBVIOUS
    <2>1. c \in Commands
      BY <1>11, Rest, QueueTypes DEF ExecuteJob, Execute
    <2>2. cb[c].job # NoJob => cb[c].job.slot \in Slots /\ cb[c].job.key \in Keys
      BY <2>1, JobFields, QueueTypes, RecordTypes
    <2>3. /\ UNCHANGED <<slot, lockWait, promised, leased>>
          /\ mem' = IF cb[c].job # NoJob /\ cb[c].job.op = "upload"
                    THEN [mem EXCEPT ![cb[c].job.slot] = cb[c].job.key] ELSE mem
      BY <1>11 DEF ExecuteJob
    <2>4. mem' \in [Slots -> Keys \cup {None}]
      BY <1>0, <2>2, <2>3 DEF SlotTypes
    <2> QED
      BY <1>0, <2>3, <2>4 DEF Shapes, SlotTypes, Shape
  <1> QED
    BY <1>1, <1>2, <1>3, <1>4, <1>5, <1>6, <1>7, <1>8, <1>9, <1>10, <1>11
    DEF Next, QueueStep, TableStep

LEMMA QueueStutters ==
    ASSUME QueueInv, UNCHANGED <<nextValue, counter, running, cb>>, owned' \subseteq Buffers
    PROVE  QueueInv'
  <1>1. QTypeOK'
    BY DEF QueueInv, QTypeOK
  <1>2. \A q \in Queues : /\ (counter[q] <= nextValue[q])' /\ Ordered(q)'
                          /\ (\A i \in 1..Len(running[q]) : Waits(q, running[q][i]))'
    BY DEF QueueInv, Ordered, Waits
  <1>3. ASSUME NEW c \in Commands
        PROVE  (/\ cb[c].stage = "pending" => InQueue(c)
                /\ cb[c].stage = "taken" => Drawn(c)
                /\ Told(cb[c]))'
    BY DEF QueueInv, InQueue, Drawn, Told
  <1>5. (\A c, d \in Commands :
           cb[c].stage = "taken" /\ cb[d].stage = "taken" /\ cb[c].home = cb[d].home => c = d)'
    BY DEF QueueInv
  <1> QED
    BY <1>1, <1>2, <1>3, <1>5 DEF QueueInv

\* What the drop of the table's clone does to the upload.
LEMMA CloneKeeps ==
    ASSUME QueueInv, SlotTypes, DropUploadClone
    PROVE  /\ QueueInv' /\ lockWait \in Commands /\ cb[lockWait].stage # "pending"
           /\ \A d \in Commands \ {lockWait} : cb'[d] = cb[d]
           /\ Executed(lockWait) =>
                \/ cb'[lockWait].stage = "none"
                \/ cb'[lockWait].stage = "freed" /\ cb'[lockWait].job = cb[lockWait].job
  <1> SUFFICES ASSUME NEW c, c = lockWait, NEW h, h = cb[c].ticket
               PROVE  /\ QueueInv' /\ c \in Commands /\ cb[c].stage # "pending"
                      /\ \A d \in Commands \ {c} : cb'[d] = cb[d]
                      /\ Executed(c) =>
                           \/ cb'[c].stage = "none"
                           \/ cb'[c].stage = "freed" /\ cb'[c].job = cb[c].job
    BY DEF Executed
  <1>1. /\ c \in Commands /\ IsComplete(c) /\ UNCHANGED <<nextValue, counter, running, owned>>
        /\ cb' = [cb EXCEPT ![c] = Settle(FreeCommand(@), @.ticket)]
    BY SlotTypeFacts DEF DropUploadClone
  <1>2. /\ cb[c] \in CommandBuffer /\ cb \in [Commands -> CommandBuffer] /\ owned \subseteq Buffers
        /\ h \in BOOLEAN /\ Told(cb[c]) /\ cb[c].stage # "pending"
    BY <1>1, QueueTypes, RecordTypes, CompleteIsOver DEF QueueInv
  <1> DEFINE f == FreeCommand(cb[c])
             n == Settle(f, h)
  <1>3. cb'[c] = n /\ \A d \in Commands \ {c} : cb'[d] = cb[d]
    BY <1>1, <1>2
  <1>4. cb' = [cb EXCEPT ![c] = n]
    BY <1>1, <1>2
  <1>5. CASE Executed(c)
    <2>1. f \in CommandBuffer /\ f.stage = "freed" /\ f.job = cb[c].job /\ f.ticket = h
          /\ f = [f EXCEPT !.ticket = h]
      <3>1. /\ cb[c].stage \in {"done", "freed"} /\ cb[c].home \in Queues
            /\ cb[c].value \in 0..MaxValue /\ cb[c].waits \in SUBSET (Queues \X (1..MaxValue))
            /\ cb[c].job \in Jobs \cup {NoJob} /\ cb[c].uses \in Buffers \cup {None}
            /\ cb[c].sets \in SetsOf
        BY <1>2, <1>5, RecordTypes DEF Executed
      <3> QED
        BY <1>2, <3>1 DEF FreeCommand, CommandBuffer, Stages
    <2>2. n = AfterDrop(cb[c], h, h)
      BY <2>1, Zenon DEF n, f, AfterDrop
    <2>3. cb[c].stage \in {"done", "freed"}
      BY <1>5 DEF Executed
    <2> HIDE DEF n, f
    <2>4. /\ n \in CommandBuffer /\ Told(n)
          /\ n = Unallocated \/ (n.stage = "freed" /\ n.job = cb[c].job)
      <3>1. h => cb[c].ticket
        OBVIOUS
      <3> QED
        BY <1>2, <2>2, <2>3, <3>1, FreedCommand
    <2>5. n.stage = "none" \/ (n.stage = "freed" /\ n.job = cb[c].job)
      BY <2>4, UnallocatedTypes
    <2>6. n.stage \notin {"pending", "taken"}
      BY <2>5
    <2>7. QueueInv'
      BY <1>1, <1>2, <1>4, <2>4, <2>6, OneCommand
    <2> QED
      BY <1>1, <1>2, <1>3, <2>5, <2>7
  <1>6. CASE ~Executed(c)
    <2>1. f = cb[c]
      BY <1>2, <1>6 DEF FreeCommand, Executed
    <2>2. n = cb[c]
      BY <1>6, <2>1 DEF Settle, Executed
    <2> HIDE DEF n
    <2>3. cb' = cb
      BY <1>2, <1>4, <2>2
    <2>4. QueueInv'
      BY <1>1, <1>2, <2>3, QueueStutters
    <2> QED
      BY <1>1, <1>2, <1>3, <1>6, <2>4
  <1> QED
    BY <1>5, <1>6

\* The steps of callers that touch no slot.
LEMMA CallersKeep ==
    ASSUME OneSubmitter, QueueInv, SlotTypes, NEW c \in Commands, QueueStep(c) \/ Abandon(c)
    PROVE  QueueInv' /\ (SlotInv => SlotInv')
  <1>1. /\ QTypeOK /\ cb[c] \in CommandBuffer /\ cb \in [Commands -> CommandBuffer]
        /\ owned \subseteq Buffers
    BY QueueTypes DEF QueueInv
  <1>3. ASSUME \A s \in Slots : promised[s] # c, UNCHANGED promised
        PROVE  promised' = [s \in Slots |-> IF promised[s] = c THEN Reserved ELSE promised[s]]
    BY <1>3 DEF SlotTypes
  <1>4. SlotInv => /\ lockWait = c \/ (\E s \in Slots : slot[s].upload = c) => Submitted(c)
                   /\ (\E s \in Slots : promised[s] = c) =>
                         cb[c].stage \in {"recording", "ended", "taken", "pending", "done"}
    BY SlotTypeFacts DEF SlotInv, SlotKept, UploadKept, PromiseKept, LockKept
  <1>a. ASSUME NEW q \in Queues, AllocateCommandBuffer(q, c), UNCHANGED svars
        PROVE  QueueInv' /\ (SlotInv => SlotInv')
    <2>1. QueueInv'
      BY <1>a, CallerKeeps
    <2>2. ASSUME SlotInv PROVE SlotInv'
      <3>1. /\ cb[c].stage = "none" /\ \A d \in Commands \ {c} : cb'[d] = cb[d]
            /\ cb'[c] = [Unallocated EXCEPT !.stage = "initial", !.home = q]
        BY <1>1, <1>a DEF AllocateCommandBuffer
      <3>2. ~Live(c)'
        BY <3>1, UnallocatedTypes DEF CommandBuffer, Live
      <3>3. /\ lockWait # c /\ \A s \in Slots : slot[s].upload # c
            /\ \A s \in Slots : promised[s] # c
        BY <1>4, <2>2, <3>1 DEF Submitted
      <3> QED
        BY <1>1, <1>3, <1>a, <2>2, <3>1, <3>2, <3>3, CommandLeaves DEF svars
    <2> QED
      BY <2>1, <2>2
  <1>b. CASE (Begin(c) \/ End(c)) /\ UNCHANGED svars
    <2>1. QueueInv'
      BY <1>b, CallerKeeps
    <2>2. ASSUME SlotInv PROVE SlotInv'
      <3>1. /\ cb[c].stage \in {"initial", "recording"} /\ cb'[c].stage \in {"recording", "ended"}
            /\ cb'[c].job = cb[c].job /\ \A d \in Commands \ {c} : cb'[d] = cb[d]
        BY <1>1, <1>b DEF Begin, End, CommandBuffer
      <3> QED
        BY <1>b, <2>2, <3>1, CommandAdvances
    <2> QED
      BY <2>1, <2>2
  <1>c. ASSUME NEW ws \in SUBSET Events, NEW passed \in BOOLEAN, TakeValue(c, ws, passed),
               UNCHANGED svars
        PROVE  QueueInv' /\ (SlotInv => SlotInv')
    <2>1. /\ QueueInv' /\ cb[c].stage = "ended" /\ cb'[c].stage = "taken"
          /\ cb'[c].job = cb[c].job /\ \A d \in Commands \ {c} : cb'[d] = cb[d]
      BY <1>c, TakeKeeps
    <2> QED
      BY <1>c, <2>1, CommandAdvances
  <1>d. CASE QueueSubmit(c) /\ UNCHANGED svars
    <2>1. /\ QueueInv' /\ cb[c].stage = "taken" /\ cb'[c].stage = "pending"
          /\ cb'[c].job = cb[c].job /\ \A d \in Commands \ {c} : cb'[d] = cb[d]
      BY <1>d, SubmitKeeps
    <2> QED
      BY <1>d, <2>1, CommandAdvances
  <1>e. CASE ~HeldByCaller(c) /\ DropTicket(c, HeldByTable(c)) /\ UNCHANGED svars
    <2> SUFFICES ASSUME NEW h \in BOOLEAN, h = HeldByTable(c), DropTicket(c, h)
                 PROVE  QueueInv' /\ (SlotInv => SlotInv')
      BY <1>e DEF HeldByTable
    <2>1. /\ QueueInv' /\ cb[c].stage \in {"done", "freed"}
          /\ cb' = [cb EXCEPT ![c] = AfterDrop(cb[c], FALSE, h)]
      BY DropKeeps
    <2>2. cb'[c] = AfterDrop(cb[c], FALSE, h) /\ \A d \in Commands \ {c} : cb'[d] = cb[d]
      BY <1>1, <2>1
    <2>3. Told(cb[c])
      BY DEF QueueInv
    <2>4. /\ cb'[c] = Unallocated \/ (cb'[c].stage = "freed" /\ cb'[c].job = cb[c].job)
          /\ h => cb'[c].stage = "freed" /\ cb'[c].job = cb[c].job
      BY <1>1, <2>1, <2>2, <2>3, FreedCommand
    <2>5. ASSUME SlotInv PROVE SlotInv'
      <3>1. \A s \in Slots : promised[s] # c
        BY <1>e DEF HeldByCaller
      <3>2. CASE h
        BY <1>e, <2>1, <2>2, <2>4, <2>5, <3>1, <3>2, HeldCommandFreed DEF Executed
      <3>3. CASE ~h
        <4>1. lockWait # c /\ \A s \in Slots : slot[s].upload # c
          BY <3>3 DEF HeldByTable
        <4>2. ~Live(c)'
          BY <2>4, UnallocatedTypes DEF Live
        <4> QED
          BY <1>1, <1>3, <1>e, <2>2, <2>5, <3>1, <4>1, <4>2, CommandLeaves DEF svars
      <3> QED
        BY <3>2, <3>3
    <2> QED
      BY <2>1, <2>5
  <1>f. CASE Abandon(c)
    <2>1. QueueInv'
      BY <1>f, CallerKeeps DEF Abandon
    <2>2. ASSUME SlotInv PROVE SlotInv'
      <3>1. /\ cb[c].stage \in {"initial", "recording", "ended", "taken"}
            /\ cb'[c] = Unallocated /\ \A d \in Commands \ {c} : cb'[d] = cb[d]
        BY <1>1, <1>f DEF Abandon, DropCommandBuffer, QueueSubmitFails
      <3>2. ~Live(c)'
        BY <3>1, UnallocatedTypes DEF Live
      <3>3. lockWait # c /\ \A s \in Slots : slot[s].upload # c
        BY <1>4, <2>2, <3>1 DEF Submitted
      <3>4. /\ UNCHANGED <<slot, lockWait, mem, leased>>
            /\ promised' = [s \in Slots |-> IF promised[s] = c THEN Reserved ELSE promised[s]]
        BY <1>f DEF Abandon
      <3> QED
        BY <1>1, <2>2, <3>1, <3>2, <3>3, <3>4, CommandLeaves
    <2> QED
      BY <2>1, <2>2
  <1>g. \A ws \in {{}} \cup {{d} : d \in Events} : ws \in SUBSET Events
    OBVIOUS
  <1> QED
    BY <1>a, <1>b, <1>c, <1>d, <1>e, <1>f, <1>g DEF QueueStep

LEMMA QueueStep1 ==
    ASSUME OneSubmitter, QueueInv, Shapes, Next PROVE QueueInv'
  <1>0. QTypeOK /\ SlotTypes /\ owned \subseteq Buffers
    BY QueueTypes DEF QueueInv, Shapes
  <1>1. ASSUME UNCHANGED qvars PROVE QueueInv'
    BY <1>0, <1>1, QueueStutters DEF qvars
  <1>2. ASSUME NEW c \in Commands, QueueStep(c) \/ Abandon(c) PROVE QueueInv'
    BY <1>0, <1>2, CallersKeep
  <1>3. ASSUME NEW k \in Keys, Reserve(k) \/ AcquireForDispatch(k) PROVE QueueInv'
    BY <1>1, <1>3 DEF Reserve, AcquireForDispatch
  <1>4. ASSUME NEW s \in Slots, NEW c \in Commands, NEW b \in Buffers,
               RecordUpload(c, s, b) \/ RecordDispatch(c, s, b)
        PROVE  QueueInv'
    <2>1. slot[s].key \in Keys
      BY <1>4, SlotTypeFacts DEF RecordUpload, RecordDispatch, Shapes, Shape, None, Reserved
    <2>2. UploadJob(s, slot[s].key) \in Jobs /\ DispatchJob(s, slot[s].key) \in Jobs
      BY <2>1, JobFields
    <2>3. \E j \in Jobs, copied \in BOOLEAN : Record(c, j, b, copied)
      BY <1>4, <2>2 DEF RecordUpload, RecordDispatch
    <2> QED
      BY <2>3, CallerKeeps
  <1>5. ASSUME NEW s \in Slots, NEW e \in Commands,
               \/ MarkUploadSubmitted(s, e) \/ MarkReady(s, e)
               \/ ReleaseFromDispatch(s, e) \/ Evict(s, e)
        PROVE  QueueInv'
    BY <1>1, <1>5 DEF MarkUploadSubmitted, MarkReady, ReleaseFromDispatch, Evict
  <1>6. CASE DropUploadClone
    BY <1>0, <1>6, CloneKeeps
  <1>7. ASSUME NEW q \in Queues, ExecuteJob(q) PROVE QueueInv'
    BY <1>7, ExecuteKeeps DEF ExecuteJob
  <1>8. ASSUME NEW b \in Buffers, DropBuffer(b) PROVE QueueInv'
    BY <1>0, <1>8, QueueStutters DEF DropBuffer
  <1> QED
    BY <1>2, <1>3, <1>4, <1>5, <1>6, <1>7, <1>8 DEF Next, TableStep

LEMMA SlotStep ==
    ASSUME OneSubmitter, ~EvictsUnmarked, QueueInv, SlotInv, Next PROVE SlotInv'
  <1>0. /\ QTypeOK /\ SlotTypes /\ None \notin Commands
        /\ \A c \in Events : Submitted(c) /\ (IsComplete(c) => ~Live(c))
    <2>1. QTypeOK /\ SlotTypes
      BY DEF QueueInv, SlotInv
    <2>2. ASSUME NEW c \in Events PROVE Submitted(c) /\ (IsComplete(c) => ~Live(c))
      <3>1. c \in Commands /\ cb[c].stage \in {"pending", "done", "freed"}
        BY DEF Events, QueueInv, Told
      <3> QED
        BY <3>1, CompleteIsOver DEF Submitted, Live
    <2> QED
      BY <2>1, <2>2, SlotTypeFacts
  <1>1. ASSUME NEW c \in Commands, QueueStep(c) \/ Abandon(c) PROVE SlotInv'
    BY <1>0, <1>1, CallersKeep
  <1>2. ASSUME NEW k \in Keys, Reserve(k) \/ AcquireForDispatch(k) PROVE SlotInv'
    BY <1>0, <1>2, ReserveKeeps, AcquireKeeps
  <1>3. ASSUME NEW s \in Slots, NEW c \in Commands, NEW b \in Buffers,
               RecordUpload(c, s, b) \/ RecordDispatch(c, s, b)
        PROVE  SlotInv'
    BY <1>0, <1>3, RecordKeeps
  <1>4. ASSUME NEW s \in Slots, NEW e \in Commands,
               MarkUploadSubmitted(s, e) \/ MarkReady(s, e) \/ Evict(s, e)
        PROVE  SlotInv'
    BY <1>0, <1>4, MarkUploadKeeps, MarkReadyKeeps, EvictKeeps
  <1>5. ASSUME NEW s \in Slots, NEW e \in Commands, ReleaseFromDispatch(s, e) PROVE SlotInv'
    <2>1. ~Live(e)
      BY <1>0, <1>5 DEF ReleaseFromDispatch
    <2> QED
      BY <1>0, <1>5, <2>1, ReleaseKeeps
  <1>6. CASE DropUploadClone
    <2>1. /\ lockWait \in Commands /\ cb[lockWait].stage # "pending"
          /\ \A d \in Commands \ {lockWait} : cb'[d] = cb[d]
          /\ Executed(lockWait) => cb'[lockWait].stage \in {"none", "freed"}
      BY <1>0, <1>6, CloneKeeps
    <2>2. Executed(lockWait)
      BY <1>0, <2>1 DEF SlotInv, LockKept, Submitted, Executed
    <2>3. lockWait' = None /\ UNCHANGED <<slot, mem, promised, leased>>
      BY <1>6 DEF DropUploadClone
    <2> QED
      BY <2>1, <2>2, <2>3, CloneDropped
  <1>7. ASSUME NEW q \in Queues, ExecuteJob(q) PROVE SlotInv'
    BY <1>7, ExecuteJobKeeps
  <1>8. ASSUME NEW b \in Buffers, DropBuffer(b), UNCHANGED svars PROVE SlotInv'
    <2>1. cb' = cb
      BY <1>8 DEF DropBuffer
    <2> QED
      BY <1>8, <2>1 DEF svars, SlotInv, SlotTypes, SlotKept, Shape, PromiseKept, UploadKept, Offered,
                        BeingFilled, LockKept, Live, Submitted, Executed, Placed, OneJob
  <1> QED
    BY <1>1, <1>2, <1>3, <1>4, <1>5, <1>6, <1>7, <1>8 DEF Next, TableStep

LEMMA SlotsImply == QueueInv /\ SlotInv => SlotsHoldTheirKeys
  <1> SUFFICES ASSUME QueueInv, SlotInv PROVE SlotsHoldTheirKeys
    OBVIOUS
  <1>1. Unlocked => \A s \in Slots :
          slot[s].state \in {"Ready", "InFlight"} => mem[s] = slot[s].key
    BY DEF SlotInv, SlotKept, Offered, BeingFilled, Unlocked
  <1>2. \A c \in AtGpu : cb[c].job # NoJob => Live(c) /\ c \in Commands /\ Placed(c)
    BY DEF AtGpu, QueueInv, Waits, Live, SlotInv
  <1>3. ASSUME NEW c \in AtGpu, cb[c].job # NoJob, cb[c].job.op = "dispatch"
        PROVE  mem[cb[c].job.slot] = cb[c].job.key
    <2>1. /\ cb[c].job.slot \in leased /\ slot[cb[c].job.slot].key = cb[c].job.key
          /\ leased \subseteq Slots
      BY <1>2, <1>3 DEF Placed, SlotInv, SlotTypes
    <2> QED
      BY <2>1 DEF SlotInv, SlotKept, Shape, Offered
  <1>4. ASSUME NEW c \in AtGpu, NEW d \in AtGpu \ {c}, cb[c].job # NoJob, cb[d].job # NoJob
        PROVE  cb[d].job.slot # cb[c].job.slot
    BY <1>2, <1>4 DEF SlotInv, OneJob
  <1> QED
    BY <1>1, <1>3, <1>4 DEF SlotsHoldTheirKeys

LEMMA SlotsInMC == ASSUME [MCNext]_mvars PROVE Next \/ UNCHANGED vars
  BY DEF MCNext, mvars

LEMMA SlotsStutter ==
    ASSUME UNCHANGED vars
    PROVE  (QueueInv => QueueInv') /\ (Shapes => Shapes') /\ (SlotInv => SlotInv')
  <1>1. UNCHANGED <<nextValue, counter, running, cb, owned>> /\ UNCHANGED svars
    BY DEF vars, qvars
  <1>2. QueueInv => QueueInv'
    BY <1>1, QueueTypes, QueueStutters DEF QueueInv
  <1>3. Shapes => Shapes'
    BY <1>1 DEF svars, Shapes, SlotTypes, Shape
  <1>4. SlotInv => SlotInv'
    BY <1>1 DEF svars, SlotInv, SlotTypes, SlotKept, Shape, PromiseKept, UploadKept, Offered,
                BeingFilled, LockKept, Live, Submitted, Executed, Placed, OneJob
  <1> QED
    BY <1>2, <1>3, <1>4

(***************************************************************************)
(* Where one thread at a time submits to a queue, an event of lib.rs is    *)
(* complete only after its own command has been executed, so a dropped     *)
(* ticket never frees a command the GPU still runs, nor the sets that were *)
(* passed with it, nor the buffers they name - whatever callers do with    *)
(* the expert slots, and whichever clone of an event they drop first.  Two *)
(* threads may reach vkQueueSubmit in the other order than they took their *)
(* values, so the theorem asks for one at a time.                          *)
(***************************************************************************)
THEOREM SubmissionsStaySound == OneSubmitter => (MCSpec => []SubmissionsSound)
  <1> SUFFICES ASSUME OneSubmitter PROVE MCSpec => []SubmissionsSound
    OBVIOUS
  <1>1. MCInit => QueueInv /\ Shapes
    BY QueueInitially, SlotsInitially DEF MCInit, Init, SlotInv, SlotKept, Shapes
  <1>2. ASSUME QueueInv /\ Shapes, [MCNext]_mvars PROVE (QueueInv /\ Shapes)'
    <2>1. QTypeOK
      BY <1>2 DEF QueueInv
    <2> QED
      BY <1>2, <2>1, SlotsInMC, SlotsStutter, QueueStep1, ShapesStay
  <1>3. QueueInv /\ Shapes => SubmissionsSound
    BY SubmissionsHold DEF SubmissionsSound, TypeOK, QueueInv, Shapes, SlotTypes
  <1> QED
    BY <1>1, <1>2, <1>3, PTL DEF MCSpec

(***************************************************************************)
(* Where callers moreover report an upload before they evict its slot, a   *)
(* slot ExpertSlotTable offers holds its key's bytes, and no dispatch at   *)
(* the GPU reads another key or a slot that is being written - although    *)
(* mark_ready, release_from_dispatch and evict accept events of other      *)
(* work.                                                                   *)
(***************************************************************************)
THEOREM SlotsAlwaysHoldTheirKeys ==
    OneSubmitter /\ ~EvictsUnmarked => (MCSpec => []SlotsHoldTheirKeys)
  <1> SUFFICES ASSUME OneSubmitter, ~EvictsUnmarked PROVE MCSpec => []SlotsHoldTheirKeys
    OBVIOUS
  <1>1. MCInit => QueueInv /\ SlotInv
    BY QueueInitially, SlotsInitially DEF MCInit, Init
  <1>2. ASSUME QueueInv /\ SlotInv, [MCNext]_mvars PROVE (QueueInv /\ SlotInv)'
    <2>1. Shapes
      BY <1>2 DEF Shapes, SlotInv, SlotKept
    <2> QED
      BY <1>2, <2>1, SlotsInMC, SlotsStutter, QueueStep1, SlotStep
  <1>3. QueueInv /\ SlotInv => SlotsHoldTheirKeys
    BY SlotsImply
  <1> QED
    BY <1>1, <1>2, <1>3, PTL DEF MCSpec

-----------------------------------------------------------------------------
(* What the ContextFold store holds (har-contextfold)                       *)

\* A page's record: its fields are what EXCEPT and NewPage leave.
PageForm(g) == g = [made |-> g.made, reps |-> g.reps, active |-> g.active]

\* The location was given out by one of the puts so far.
Given(l) == l.offset \in 0..(puts - 1)

Memory == ~FileStore /\ "attach once" \in Contract

StoreInv ==
    /\ puts \in 0..MaxPuts
    /\ \A p \in DOMAIN pages :
         /\ PageForm(pages[p])
         /\ \A k \in DOMAIN pages[p].reps :
              pages[p].reps[k].loc = NoLoc \/ (k # "ReconstructedWarm" /\ Given(pages[p].reps[k].loc))
    /\ \A p \in DOMAIN entries : Given(entries[p].loc)
    /\ NothingOrphaned /\ LoadsOwnPayload

\* The page keeps its record but for the lease count.
KeepsReps == /\ DOMAIN pages' = DOMAIN pages /\ UNCHANGED <<puts, entries>>
             /\ \A p \in DOMAIN pages : /\ PageForm(pages[p]) => PageForm(pages[p]')
                                        /\ pages[p].reps' = pages[p].reps

\* No put was given the location that stands for none.
LEMMA LocationFacts ==
    ASSUME StoreInv
    PROVE  /\ puts \in Nat /\ puts <= MaxPuts /\ MaxPuts \in Nat
           /\ \A l : Given(l) => l # NoLoc
  BY StoreAssumption DEF StoreInv, Given, NoLoc

\* What touches neither representations nor the store keeps the invariant.
LEMMA KeepsRepsKeepsStores == StoreInv /\ KeepsReps => StoreInv'
  <1> SUFFICES ASSUME StoreInv, KeepsReps PROVE StoreInv'
    OBVIOUS
  <1>1. /\ DOMAIN pages' = DOMAIN pages /\ puts' = puts /\ entries' = entries
        /\ \A p \in DOMAIN pages : PageForm(pages[p]) => PageForm(pages[p]')
        /\ \A p \in DOMAIN pages : pages[p].reps' = pages[p].reps
    BY Zenon DEF KeepsReps
  <1>2. \A p, k : p \in DOMAIN pages => (Stored(p, k)' <=> Stored(p, k))
    BY <1>1 DEF Stored
  <1>3. puts' \in 0..MaxPuts
    BY <1>1 DEF StoreInv
  <1>4. ASSUME NEW p \in DOMAIN pages'
        PROVE  /\ PageForm(pages[p]')
               /\ \A k \in DOMAIN pages[p].reps' :
                    pages[p].reps[k].loc' = NoLoc \/ (k # "ReconstructedWarm" /\ Given(pages[p].reps[k].loc)')
    BY <1>1, <1>4, Zenon DEF StoreInv, Given
  <1>5. (\A p \in DOMAIN entries : Given(entries[p].loc))'
    BY <1>1 DEF StoreInv, Given
  <1>6. NothingOrphaned'
    BY <1>1, <1>2, Zenon DEF StoreInv, NothingOrphaned
  <1>7. LoadsOwnPayload'
    BY <1>1, <1>2, Zenon DEF StoreInv, LoadsOwnPayload
  <1> QED
    BY <1>3, <1>4, <1>5, <1>6, <1>7 DEF StoreInv

\* A page of form g with the representations r.
LEMMA WithReps ==
    ASSUME NEW g, PageForm(g), NEW r
    PROVE  /\ PageForm([g EXCEPT !.reps = r])
           /\ [g EXCEPT !.reps = r].reps = r
           /\ [g EXCEPT !.reps = r].active = g.active
           /\ [g EXCEPT !.reps = r].made = g.made
  BY DEF PageForm

\* A page new to the graph has no entry, or one would be orphaned already.
LEMMA RegistrationKeepsStores ==
    ASSUME StoreInv, Memory, NEW p, NEW made, RegisterReferencePage(p, made)
    PROVE  StoreInv'
  <1> DEFINE reps == [k \in {"ExactHotQ8", "ExactTokenArchive"} |-> NotStored]
  <1>1. /\ p \notin DOMAIN pages
        /\ pages' = Put(pages, p, NewPage(made, reps))
        /\ puts' = puts /\ entries' = entries
    BY DEF RegisterReferencePage, CanAttach, Memory
  <1>4. /\ PageForm(NewPage(made, reps)) /\ NewPage(made, reps).reps = reps
        /\ \A k \in DOMAIN reps : reps[k].loc = NoLoc
    BY DEF PageForm, NewPage, NotStored
  <1> HIDE DEF reps
  <1>2. p \notin DOMAIN entries
    BY <1>1 DEF StoreInv, NothingOrphaned
  <1>3. /\ DOMAIN pages' = DOMAIN pages \cup {p}
        /\ pages'[p] = NewPage(made, reps)
        /\ \A q \in DOMAIN pages : pages'[q] = pages[q]
    <2> DEFINE g == NewPage(made, reps)
    <2>1. pages' = Put(pages, p, g)
      BY <1>1
    <2> HIDE DEF g
    <2>2. pages'[p] = g /\ DOMAIN pages' = DOMAIN pages \cup {p}
      BY <2>1 DEF Put
    <2>3. \A q \in DOMAIN pages : q # p => pages'[q] = pages[q]
      BY <2>1 DEF Put
    <2> QED
      BY <1>1, <2>2, <2>3 DEF g
  <1>5. \A q \in DOMAIN pages' : q = p \/ q \in DOMAIN pages
    BY <1>3
  <1>6. ASSUME NEW q \in DOMAIN pages'
        PROVE  /\ PageForm(pages[q])'
               /\ \A k \in DOMAIN pages'[q].reps :
                    pages'[q].reps[k].loc = NoLoc \/ (k # "ReconstructedWarm" /\ Given(pages[q].reps[k].loc)')
    <2>1. CASE q = p
      <3>1. PageForm(pages[q])'
        BY <1>3, <1>4, <2>1 DEF PageForm
      <3> QED
        BY <1>3, <1>4, <1>6, <2>1, <3>1 DEF Given
    <2>2. CASE q \in DOMAIN pages
      <3>1. pages'[q] = pages[q] /\ puts' = puts
        BY <1>1, <1>3, <2>2
      <3> QED
        BY <3>1, <2>2 DEF StoreInv, Given
    <2> QED
      BY <1>5, <1>6, <2>1, <2>2
  <1>7. \A q \in DOMAIN entries : q \in DOMAIN pages /\ pages'[q] = pages[q]
    BY <1>3 DEF StoreInv, NothingOrphaned
  <1>8. NothingOrphaned'
    <2> SUFFICES ASSUME NEW q \in DOMAIN entries
                 PROVE  q \in DOMAIN pages' /\ \E k \in DOMAIN pages'[q].reps : Stored(q, k)'
      BY <1>1 DEF NothingOrphaned
    <2>1. PICK k \in DOMAIN pages[q].reps : Stored(q, k)
      BY DEF StoreInv, NothingOrphaned
    <2>2. pages'[q] = pages[q] /\ q \in DOMAIN pages'
      BY <1>3, <1>7
    <2>3. Stored(q, k)'
      BY <1>1, <2>1, <2>2 DEF Stored
    <2> QED
      BY <2>1, <2>2, <2>3
  <1>9. LoadsOwnPayload'
    <2> SUFFICES ASSUME NEW q \in DOMAIN pages', NEW k \in DOMAIN pages'[q].reps,
                        pages'[q].reps[k].loc # NoLoc, Stored(q, k)'
                 PROVE  entries[q].payload = pages'[q].reps[k].payload
      BY <1>1 DEF LoadsOwnPayload
    <2>1. q \in DOMAIN entries /\ entries[q].loc = pages'[q].reps[k].loc
      BY <1>1 DEF Stored
    <2>2. pages'[q] = pages[q] /\ q \in DOMAIN pages
      BY <1>7, <2>1
    <2> QED
      BY <2>1, <2>2 DEF StoreInv, LoadsOwnPayload, Stored
  <1> QED
    BY <1>1, <1>6, <1>8, <1>9 DEF StoreInv, Given

\* A representation is added to page p; what the store holds of p is at its
\* location, or the page's entry is left and the representation has none.
LEMMA AdditionKeepsStores ==
    ASSUME StoreInv, NEW p \in DOMAIN pages, NEW k, NEW r,
           AddRepresentation(p, k, r), puts' \in 0..MaxPuts, puts <= puts',
           \/ /\ r.loc = NoLoc /\ k = "ReconstructedWarm"
              /\ entries' = entries
           \/ /\ r.loc.offset = puts /\ puts < puts' /\ k # "ReconstructedWarm"
              /\ entries' = Put(entries, p, [loc |-> r.loc, payload |-> r.payload])
    PROVE  StoreInv'
  <1> DEFINE reps == Put(pages[p].reps, k, r)
  <1>1. pages' = [pages EXCEPT ![p] = [pages[p] EXCEPT !.reps = reps]]
    BY DEF AddRepresentation
  <1>2. /\ DOMAIN reps = DOMAIN pages[p].reps \cup {k}
        /\ reps[k] = r
        /\ \A j \in DOMAIN pages[p].reps : j # k => reps[j] = pages[p].reps[j]
    BY DEF Put
  <1> HIDE DEF reps
  <1>3. /\ DOMAIN pages' = DOMAIN pages
        /\ PageForm(pages'[p]) /\ pages'[p].reps = reps
        /\ \A q \in DOMAIN pages : q # p => pages'[q] = pages[q]
    <2>1. PageForm(pages[p])
      BY DEF StoreInv
    <2> DEFINE g == [pages[p] EXCEPT !.reps = reps]
    <2>2. PageForm(g) /\ g.reps = reps
      BY <2>1, WithReps
    <2>3. pages' = [pages EXCEPT ![p] = g]
      BY <1>1
    <2> HIDE DEF g
    <2> QED
      BY <2>2, <2>3
  <1>4. /\ \A l : Given(l) => Given(l)' /\ l # NoLoc /\ l.offset # puts
        /\ r.loc # NoLoc => r.loc.offset = puts /\ Given(r.loc)' /\ k # "ReconstructedWarm"
        /\ r.loc = NoLoc => k = "ReconstructedWarm"
    BY LocationFacts DEF Given, NoLoc
  <1>5. /\ DOMAIN entries' \subseteq DOMAIN entries \cup {p}
        /\ DOMAIN entries \subseteq DOMAIN entries'
        /\ \A q \in DOMAIN entries : q # p => entries'[q] = entries[q]
        /\ r.loc = NoLoc => entries' = entries
        /\ r.loc # NoLoc => /\ p \in DOMAIN entries'
                            /\ entries'[p] = [loc |-> r.loc, payload |-> r.payload]
    <2>1. CASE r.loc = NoLoc
      <3>1. k = "ReconstructedWarm"
        BY <1>4, <2>1
      <3>2. entries' = entries
        BY <3>1
      <3> QED
        BY <2>1, <3>2
    <2>2. CASE r.loc # NoLoc
      <3> DEFINE e == [loc |-> r.loc, payload |-> r.payload]
      <3>1. entries' = Put(entries, p, e)
        BY <2>2
      <3> HIDE DEF e
      <3>2. /\ DOMAIN entries' = DOMAIN entries \cup {p} /\ entries'[p] = e
            /\ \A q \in DOMAIN entries : q # p => entries'[q] = entries[q]
        BY <3>1 DEF Put
      <3> QED
        BY <2>2, <3>2 DEF e
    <2> QED
      BY <2>1, <2>2
  <1>6. ASSUME NEW q \in DOMAIN pages'
        PROVE  /\ PageForm(pages[q])'
               /\ \A j \in DOMAIN pages'[q].reps :
                    pages'[q].reps[j].loc = NoLoc \/ (j # "ReconstructedWarm" /\ Given(pages[q].reps[j].loc)')
    <2>1. CASE q = p
      <3>1. PageForm(pages[q])'
        BY <1>3, <2>1 DEF PageForm
      <3>2. DOMAIN pages'[q].reps = DOMAIN pages[p].reps \cup {k}
        BY <1>2, <1>3, <2>1
      <3>3. ASSUME NEW j \in DOMAIN pages'[q].reps
            PROVE  \/ pages'[q].reps[j].loc = NoLoc
                   \/ j # "ReconstructedWarm" /\ Given(pages[q].reps[j].loc)'
        <4>1. CASE j = k
          BY <1>2, <1>3, <1>4, <2>1, <4>1 DEF Given
        <4>2. CASE j # k
          <5>1. pages'[q].reps[j] = pages[p].reps[j] /\ j \in DOMAIN pages[p].reps
            BY <1>2, <1>3, <2>1, <3>2, <3>3, <4>2
          <5>2. \/ pages[p].reps[j].loc = NoLoc
                \/ j # "ReconstructedWarm" /\ Given(pages[p].reps[j].loc)
            BY <5>1 DEF StoreInv
          <5> QED
            BY <1>4, <5>1, <5>2 DEF Given
        <4> QED
          BY <4>1, <4>2
      <3> QED
        BY <3>1, <3>3
    <2>2. CASE q # p
      BY <1>3, <1>4, <1>6, <2>2 DEF StoreInv
    <2> QED
      BY <2>1, <2>2
  <1>7. (\A q \in DOMAIN entries : Given(entries[q].loc))'
    <2> SUFFICES ASSUME NEW q \in DOMAIN entries' PROVE Given(entries[q].loc)'
      OBVIOUS
    <2>1. CASE q # p
      BY <1>4, <1>5, <2>1 DEF StoreInv
    <2>2. CASE q = p
      BY <1>4, <1>5, <2>2 DEF StoreInv
    <2> QED
      BY <2>1, <2>2
  <1>8. NothingOrphaned'
    <2> SUFFICES ASSUME NEW q \in DOMAIN entries'
                 PROVE  q \in DOMAIN pages' /\ \E j \in DOMAIN pages'[q].reps : Stored(q, j)'
      BY DEF NothingOrphaned
    <2>1. CASE q # p
      <3>1. q \in DOMAIN entries /\ entries'[q] = entries[q]
        BY <1>5, <2>1
      <3>2. q \in DOMAIN pages /\ \E j \in DOMAIN pages[q].reps : Stored(q, j)
        BY <3>1 DEF StoreInv, NothingOrphaned
      <3> QED
        BY <1>3, <2>1, <3>1, <3>2 DEF Stored
    <2>2. CASE q = p /\ r.loc # NoLoc
      BY <1>2, <1>3, <1>5, <2>2 DEF Stored
    <2>3. CASE q = p /\ r.loc = NoLoc
      <3>1. entries' = entries /\ q \in DOMAIN entries
        BY <1>5, <2>3
      <3>2. PICK j \in DOMAIN pages[p].reps : entries[p].loc = pages[p].reps[j].loc
        BY <2>3, <3>1 DEF StoreInv, NothingOrphaned, Stored
      <3>3. j # k
        BY <1>4, <2>3, <3>1, <3>2 DEF StoreInv
      <3> QED
        BY <1>2, <1>3, <2>3, <3>1, <3>2, <3>3 DEF Stored
    <2> QED
      BY <2>1, <2>2, <2>3
  <1>9. LoadsOwnPayload'
    <2> SUFFICES ASSUME NEW q \in DOMAIN pages', NEW j \in DOMAIN pages'[q].reps,
                        pages'[q].reps[j].loc # NoLoc, Stored(q, j)'
                 PROVE  entries'[q].payload = pages'[q].reps[j].payload
      BY DEF LoadsOwnPayload
    <2>1. q \in DOMAIN entries' /\ entries'[q].loc = pages'[q].reps[j].loc
      BY DEF Stored
    <2>2. CASE q # p
      <3>1. q \in DOMAIN entries /\ entries'[q] = entries[q] /\ pages'[q] = pages[q] /\ q \in DOMAIN pages
        BY <1>3, <1>5, <2>1, <2>2
      <3> QED
        BY <2>1, <3>1 DEF StoreInv, LoadsOwnPayload, Stored
    <2>3. CASE q = p /\ j = k
      BY <1>2, <1>3, <1>5, <2>3
    <2>4. CASE q = p /\ j # k /\ r.loc # NoLoc
      <3>1. /\ pages'[p].reps[j] = pages[p].reps[j]
            /\ pages[p].reps[j].loc = NoLoc \/ Given(pages[p].reps[j].loc)
        BY <1>2, <1>3, <2>4 DEF StoreInv
      <3>2. entries'[p].loc.offset = puts
        BY <1>4, <1>5, <2>4
      <3> QED
        BY <1>4, <2>1, <2>4, <3>1, <3>2
    <2>5. CASE q = p /\ j # k /\ r.loc = NoLoc
      <3>1. /\ pages'[p].reps[j] = pages[p].reps[j] /\ j \in DOMAIN pages[p].reps
            /\ entries' = entries
        BY <1>2, <1>3, <1>5, <2>5
      <3> QED
        BY <2>1, <2>5, <3>1 DEF StoreInv, LoadsOwnPayload, Stored
    <2> QED
      BY <2>2, <2>3, <2>4, <2>5
  <1> QED
    BY <1>6, <1>7, <1>8, <1>9 DEF StoreInv

\* safe_evict: what stays stored is at the location of another copy.
LEMMA EvictionKeepsStores ==
    ASSUME StoreInv, NEW p, NEW k, SafeEvict(p, k)
    PROVE  StoreInv'
  <1> DEFINE reps == Without(pages[p].reps, k)
  <1>1. /\ p \in DOMAIN pages /\ k \in DOMAIN pages[p].reps
        /\ pages' = [pages EXCEPT ![p] = [pages[p] EXCEPT !.reps = reps]]
        /\ entries' = IF Stored(p, k) THEN Without(entries, p) ELSE entries
        /\ puts' = puts
    BY DEF SafeEvict, CanEvict
  <1>2. /\ DOMAIN reps = DOMAIN pages[p].reps \ {k}
        /\ \A j \in DOMAIN reps : reps[j] = pages[p].reps[j]
    BY DEF Without
  <1> HIDE DEF reps
  <1>3. /\ DOMAIN pages' = DOMAIN pages
        /\ PageForm(pages'[p]) /\ pages'[p].reps = reps
        /\ \A q \in DOMAIN pages : q # p => pages'[q] = pages[q]
    <2>1. PageForm(pages[p])
      BY <1>1 DEF StoreInv
    <2> DEFINE g == [pages[p] EXCEPT !.reps = reps]
    <2>2. PageForm(g) /\ g.reps = reps
      BY <2>1, WithReps
    <2>3. pages' = [pages EXCEPT ![p] = g]
      BY <1>1
    <2> HIDE DEF g
    <2> QED
      BY <1>1, <2>2, <2>3
  <1>4. /\ DOMAIN entries' \subseteq DOMAIN entries
        /\ \A q \in DOMAIN entries' : entries'[q] = entries[q]
        /\ p \in DOMAIN entries' => ~Stored(p, k)
    BY <1>1 DEF Without, Stored
  <1>5. ASSUME NEW q \in DOMAIN pages'
        PROVE  /\ PageForm(pages[q])'
               /\ \A j \in DOMAIN pages'[q].reps :
                    /\ j \in DOMAIN pages[q].reps /\ pages'[q].reps[j] = pages[q].reps[j]
                    /\ pages'[q].reps[j].loc = NoLoc \/ (j # "ReconstructedWarm" /\ Given(pages[q].reps[j].loc)')
    <2>1. CASE q = p
      BY <1>1, <1>2, <1>3, <1>5, <2>1 DEF StoreInv, Given, PageForm
    <2>2. CASE q # p
      BY <1>1, <1>3, <1>5, <2>2 DEF StoreInv, Given
    <2> QED
      BY <2>1, <2>2
  <1>6. \A q \in DOMAIN entries' : Given(entries[q].loc)'
    BY <1>1, <1>4 DEF StoreInv, Given
  <1>7. NothingOrphaned'
    <2> SUFFICES ASSUME NEW q \in DOMAIN entries'
                 PROVE  q \in DOMAIN pages' /\ \E j \in DOMAIN pages'[q].reps : Stored(q, j)'
      BY DEF NothingOrphaned
    <2>1. q \in DOMAIN entries /\ entries'[q] = entries[q]
      BY <1>4
    <2>2. PICK j \in DOMAIN pages[q].reps : q \in DOMAIN pages /\ Stored(q, j)
      BY <2>1 DEF StoreInv, NothingOrphaned
    <2>3. j \in DOMAIN pages'[q].reps /\ pages'[q].reps[j] = pages[q].reps[j]
      <3>1. CASE q = p
        <4>1. j # k
          BY <1>4, <2>2, <3>1
        <4> QED
          BY <1>2, <1>3, <2>2, <3>1, <4>1
      <3>2. CASE q # p
        BY <1>3, <2>2, <3>2
      <3> QED
        BY <3>1, <3>2
    <2> QED
      BY <1>3, <2>1, <2>2, <2>3 DEF Stored
  <1>8. LoadsOwnPayload'
    <2> SUFFICES ASSUME NEW q \in DOMAIN pages', NEW j \in DOMAIN pages'[q].reps,
                        pages'[q].reps[j].loc # NoLoc, Stored(q, j)'
                 PROVE  entries'[q].payload = pages'[q].reps[j].payload
      BY DEF LoadsOwnPayload
    <2>1. /\ q \in DOMAIN entries /\ entries'[q] = entries[q]
          /\ entries[q].loc = pages'[q].reps[j].loc
      BY <1>4 DEF Stored
    <2>2. /\ q \in DOMAIN pages /\ j \in DOMAIN pages[q].reps
          /\ pages'[q].reps[j] = pages[q].reps[j]
      BY <1>3, <1>5
    <2> QED
      BY <2>1, <2>2 DEF StoreInv, LoadsOwnPayload, Stored
  <1> QED
    BY <1>1, <1>5, <1>6, <1>7, <1>8 DEF StoreInv

\* persist_latent_page, persist_lossless_page: a put's location is new.
LEMMA PersistKeepsStores ==
    ASSUME StoreInv, Memory, NEW p, NEW k, NEW x, NEW b,
           k # "ReconstructedWarm", Persist(p, k, x, b)
    PROVE  StoreInv'
  <1> DEFINE r == [loc |-> NewLocation, payload |-> x, certified |-> b]
  <1>1. puts < MaxPuts /\ puts' = puts + 1
    BY DEF Persist
  <1>2. puts' \in 0..MaxPuts /\ puts < puts' /\ puts <= puts'
    BY <1>1, LocationFacts
  <1>3. CASE p \in DOMAIN pages
    <2>1. r.loc.offset = puts /\ r.payload = x /\ r.loc = NewLocation
      BY DEF NewLocation, Memory
    <2>2. AddRepresentation(p, k, r)
      BY <1>3 DEF Persist
    <2>3. entries' = Put(entries, p, [loc |-> r.loc, payload |-> r.payload])
      BY <1>3 DEF Persist
    <2> HIDE DEF r
    <2> QED
      BY <1>2, <1>3, <2>1, <2>2, <2>3, AdditionKeepsStores
  <1>4. CASE p \notin DOMAIN pages
    <2>1. p \notin DOMAIN entries
      BY <1>4 DEF StoreInv, NothingOrphaned
    <2>2. pages' = pages
      BY <1>4 DEF Persist
    <2>3. /\ DOMAIN entries' = DOMAIN entries
          /\ \A q \in DOMAIN entries : entries'[q] = entries[q]
      BY <1>4, <2>1 DEF Persist, Without
    <2>4. \A l : Given(l) => Given(l)'
      BY <1>2, LocationFacts DEF Given
    <2>5. \A q, j : Stored(q, j)' <=> Stored(q, j)
      BY <2>2, <2>3 DEF Stored
    <2>6. \A q \in DOMAIN pages' :
            /\ PageForm(pages[q])'
            /\ \A j \in DOMAIN pages'[q].reps :
                 pages'[q].reps[j].loc = NoLoc \/ (j # "ReconstructedWarm" /\ Given(pages[q].reps[j].loc)')
      BY <1>2, <2>2, LocationFacts DEF StoreInv, Given, PageForm
    <2>7. \A q \in DOMAIN entries' : Given(entries[q].loc)'
      BY <1>2, <2>3, LocationFacts DEF StoreInv, Given
    <2>8. NothingOrphaned'
      BY <2>2, <2>3, <2>5, Zenon DEF StoreInv, NothingOrphaned
    <2>9. LoadsOwnPayload'
      BY <2>2, <2>3, <2>5 DEF StoreInv, LoadsOwnPayload, Stored
    <2> QED
      BY <1>2, <2>6, <2>7, <2>8, <2>9 DEF StoreInv
  <1> QED
    BY <1>3, <1>4

\* A page with another lease count.
LEMMA CountingKeepsForm ==
    ASSUME NEW g, PageForm(g), NEW v
    PROVE  /\ PageForm([g EXCEPT !.active = v])
           /\ [g EXCEPT !.active = v].reps = g.reps
           /\ [g EXCEPT !.active = v].active = v
           /\ [g EXCEPT !.active = v].made = g.made
  BY DEF PageForm

\* Lease and release change a page's count only.
LEMMA LeasingKeepsReps ==
    ASSUME StoreInv, NEW p, NEW v, UNCHANGED <<puts, entries>>,
           pages' = [pages EXCEPT ![p].active = v]
    PROVE  KeepsReps
  <1>1. DOMAIN pages' = DOMAIN pages
    OBVIOUS
  <1>2. ASSUME NEW q \in DOMAIN pages
        PROVE  (PageForm(pages[q]) => PageForm(pages[q])') /\ pages[q].reps' = pages[q].reps
    <2>1. CASE q = p
      <3>1. pages'[q] = [pages[q] EXCEPT !.active = v]
        BY <1>2, <2>1
      <3>2. PageForm(pages[q])
        BY DEF StoreInv
      <3> DEFINE g == [pages[q] EXCEPT !.active = v]
      <3>3. PageForm(g) /\ g.reps = pages[q].reps
        BY <3>2, CountingKeepsForm
      <3> HIDE DEF g
      <3>4. pages'[q] = g
        BY <3>1 DEF g
      <3> QED
        BY <3>3, <3>4 DEF PageForm
    <2>2. CASE q # p
      <3>1. pages'[q] = pages[q]
        BY <2>2
      <3> QED
        BY <3>1 DEF PageForm
    <2> QED
      BY <2>1, <2>2
  <1> QED
    BY <1>1, <1>2 DEF KeepsReps

\* Nothing of pages or store changes.
LEMMA QuietKeepsReps == UNCHANGED <<pages, puts, entries>> => KeepsReps
  BY DEF KeepsReps, PageForm

\* The graph's own calls touch no representation.
LEMMA GraphStepKeepsReps == StoreInv /\ GraphStep => KeepsReps
  <1> SUFFICES ASSUME StoreInv, GraphStep PROVE KeepsReps
    OBVIOUS
  <1>1. UNCHANGED <<puts, entries>>
    BY DEF GraphStep
  <1>2. ASSUME NEW o \in Origins, InsertRoot(o) PROVE KeepsReps
    BY <1>1, <1>2, QuietKeepsReps DEF InsertRoot
  <1>3. ASSUME AdvanceGeneration PROVE KeepsReps
    BY <1>1, <1>3, QuietKeepsReps DEF AdvanceGeneration
  <1>4. ASSUME NEW n, NEW t, NEW o, Extend(n, t, o) PROVE KeepsReps
    BY <1>1, <1>4, QuietKeepsReps DEF Extend
  <1>5. ASSUME NEW n, RetainPrefix(n) PROVE KeepsReps
    BY <1>1, <1>5, QuietKeepsReps DEF RetainPrefix
  <1>6. ASSUME NEW n, ReleasePrefix(n) PROVE KeepsReps
    BY <1>1, <1>6, QuietKeepsReps DEF ReleasePrefix
  <1>7. ASSUME NEW id, ReleaseLease(id) PROVE KeepsReps
    <2>1. CASE pages[id.page].active = 0
      BY <1>1, <1>7, <2>1, QuietKeepsReps DEF ReleaseLease
    <2>2. CASE pages[id.page].active # 0
      <3>1. pages' = [pages EXCEPT ![id.page].active = pages[id.page].active - 1]
        BY <1>7, <2>2 DEF ReleaseLease
      <3> QED
        BY <1>1, <3>1, LeasingKeepsReps
    <2> QED
      BY <2>1, <2>2
  <1>8. ASSUME NEW p, NEW k, NEW o, Lease(p, k, o, generation) PROVE KeepsReps
    <2>1. pages' = [pages EXCEPT ![p].active = pages[p].active + 1]
      BY <1>8 DEF Lease
    <2> QED
      BY <1>1, <2>1, LeasingKeepsReps
  <1> QED
    BY <1>2, <1>3, <1>4, <1>5, <1>6, <1>7, <1>8, Zenon DEF GraphStep

\* The orchestrator's calls on one page.
LEMMA PageStepKeepsStores == ASSUME Memory, NEW p, StoreInv, PageStep(p) PROVE StoreInv'
  <1>1. ASSUME NEW g, RegisterReferencePage(p, g) PROVE StoreInv'
    BY <1>1, RegistrationKeepsStores
  <1>2. ASSUME NEW x, NEW b, PersistLatentPage(p, x, b) PROVE StoreInv'
    BY <1>2, PersistKeepsStores DEF PersistLatentPage
  <1>3. ASSUME NEW x, PersistLosslessPage(p, x) PROVE StoreInv'
    BY <1>3, PersistKeepsStores DEF PersistLosslessPage
  <1>4. ASSUME NEW b, MarkPage(p, b) PROVE StoreInv'
    BY <1>4, QuietKeepsReps, KeepsRepsKeepsStores DEF MarkPage, gvars
  <1>5. ASSUME PromoteWarm(p) PROVE StoreInv'
    <2>1. p \in DOMAIN pages /\ puts' = puts /\ entries' = entries
      BY <1>5 DEF PromoteWarm
    <2>2. NotStored.loc = NoLoc
      BY DEF NotStored
    <2>3. AddRepresentation(p, "ReconstructedWarm", NotStored)
      BY <1>5 DEF PromoteWarm
    <2>4. puts' \in 0..MaxPuts /\ puts <= puts'
      BY <2>1, LocationFacts
    <2> QED
      BY <2>1, <2>2, <2>3, <2>4, AdditionKeepsStores
  <1>6. ASSUME NEW k, SafeEvict(p, k) PROVE StoreInv'
    BY <1>6, EvictionKeepsStores
  <1> QED
    BY <1>1, <1>2, <1>3, <1>4, <1>5, <1>6, Zenon DEF PageStep

\* Every step of the two KV parts.
LEMMA KvStepKeepsStores ==
    ASSUME Memory, StoreInv, GraphPart \/ FNext \/ UNCHANGED fvars PROVE StoreInv'
  <1>1. ASSUME GraphStep PROVE StoreInv'
    BY <1>1, GraphStepKeepsReps, KeepsRepsKeepsStores
  <1>2. ASSUME GraphPart PROVE StoreInv'
    BY <1>1, <1>2, RegistrationKeepsStores, EvictionKeepsStores, Zenon DEF GraphPart
  <1>3. ASSUME NEW b, SetTailProbe(b) PROVE StoreInv'
    BY <1>3, QuietKeepsReps, KeepsRepsKeepsStores DEF SetTailProbe, gvars
  <1>4. ASSUME NEW c, NEW w, SetRecentHot(c, w) PROVE StoreInv'
    BY <1>4, QuietKeepsReps, KeepsRepsKeepsStores DEF SetRecentHot, gvars
  <1>5. ASSUME FNext PROVE StoreInv'
    BY <1>1, <1>3, <1>4, <1>5, PageStepKeepsStores, Zenon DEF FNext
  <1>6. ASSUME UNCHANGED fvars PROVE StoreInv'
    BY <1>6, QuietKeepsReps, KeepsRepsKeepsStores DEF fvars, gvars
  <1> QED
    BY <1>2, <1>5, <1>6

\* The least of some of four indices is one of them.
LEMMA LeastOfFour ==
    ASSUME NEW U \in SUBSET (1..4), U # {} PROVE Min(U) \in U
  <1>1. \A x \in U : x \in {1, 2, 3, 4}
    OBVIOUS
  <1>2. \E x \in U : \A y \in U : x <= y
    <2>1. CASE 1 \in U
      BY <1>1, <2>1
    <2>2. CASE 1 \notin U /\ 2 \in U
      BY <1>1, <2>2
    <2>3. CASE 1 \notin U /\ 2 \notin U /\ 3 \in U
      BY <1>1, <2>3
    <2>4. CASE 1 \notin U /\ 2 \notin U /\ 3 \notin U
      <3>1. \A y \in U : y = 4
        BY <1>1, <2>4
      <3>2. 4 \in U
        BY <3>1
      <3> QED
        BY <3>1, <3>2
    <2> QED
      BY <2>1, <2>2, <2>3, <2>4
  <1> QED
    BY <1>2 DEF Min

-----------------------------------------------------------------------------
(* Prefixes                                                                 *)

\* One token more: the prefixes stay.
LEMMA Appending ==
    ASSUME NEW S, NEW s \in Seq(S), NEW x \in S
    PROVE  /\ Append(s, x) \in Seq(S) /\ Len(Append(s, x)) = Len(s) + 1 /\ Len(s) \in Nat
           /\ SubSeq(Append(s, x), 1, Len(s)) = s
           /\ \A j \in 0..Len(s) : SubSeq(Append(s, x), 1, j) = SubSeq(s, 1, j)
           /\ Last(Append(s, x)) = x
  BY DEF Last

\* To be a prefix is to be SubSeq from 1.
LEMMA PrefixIsCut ==
    ASSUME NEW S, NEW s \in Seq(S), NEW t \in Seq(S)
    PROVE  IsPrefix(s, t) <=> Len(s) <= Len(t) /\ s = SubSeq(t, 1, Len(s))
  BY DEF IsPrefix

\* The token sequences of identities.
LEMMA Bounded ==
    ASSUME NEW s
    PROVE  s \in BoundedSeq(Tokens, MaxDepth) <=> s \in Seq(Tokens) /\ Len(s) <= MaxDepth
  <1>1. MaxDepth \in Nat
    BY GraphAssumption
  <1>2. BoundedSeq(Tokens, MaxDepth) = UNION {[1..m -> Tokens] : m \in 0..MaxDepth}
    BY Zenon DEF BoundedSeq, SeqOf
  <1>3. ASSUME s \in BoundedSeq(Tokens, MaxDepth) PROVE s \in Seq(Tokens) /\ Len(s) <= MaxDepth
    <2>1. PICK m \in 0..MaxDepth : s \in [1..m -> Tokens]
      BY <1>2, <1>3
    <2>2. s \in Seq(Tokens) /\ Len(s) = m
      BY <1>1, <2>1
    <2> QED
      BY <1>1, <2>2
  <1>4. ASSUME s \in Seq(Tokens), Len(s) <= MaxDepth PROVE s \in BoundedSeq(Tokens, MaxDepth)
    <2>1. Len(s) \in 0..MaxDepth /\ s \in [1..Len(s) -> Tokens]
      BY <1>1, <1>4
    <2> QED
      BY <1>2, <2>1
  <1> QED
    BY <1>3, <1>4

\* The prefix of length k of n's tokens, with n's origin.
Cut(n, k) == [origin |-> n.origin, tokens |-> SubSeq(n.tokens, 1, k)]
Up(n) == Cut(n, Depth(n) - 1)
Covers(m, n) == m.origin = n.origin /\ IsPrefix(m.tokens, n.tokens)

\* An identity's parts; none is the parent of a root.
LEMMA IdentityForm ==
    ASSUME NEW n \in Identity
    PROVE  /\ n.tokens \in Seq(Tokens) /\ Depth(n) \in 0..MaxDepth /\ Depth(n) \in Nat
           /\ n.origin \in Origins /\ n = [origin |-> n.origin, tokens |-> n.tokens]
           /\ Depth(n) = Len(n.tokens) /\ MaxDepth \in Nat
           /\ n # NoParent
  <1>1. n.tokens \in BoundedSeq(Tokens, MaxDepth)
    BY DEF Identity
  <1>2. n.tokens \in Seq(Tokens) /\ Len(n.tokens) <= MaxDepth
    BY <1>1, Bounded
  <1>3. n # NoParent
    BY GraphAssumption DEF Identity, NoParent
  <1> QED
    BY <1>2, <1>3, GraphAssumption DEF Identity, Depth

\* An origin and few enough tokens make an identity.
LEMMA MakesIdentity ==
    ASSUME NEW o \in Origins, NEW s \in Seq(Tokens), Len(s) <= MaxDepth
    PROVE  /\ [origin |-> o, tokens |-> s] \in Identity
           /\ Depth([origin |-> o, tokens |-> s]) = Len(s)
  BY Bounded DEF Identity, Depth

\* The prefixes of an identity: the parent of one is the next shorter.
LEMMA Cuts ==
    ASSUME NEW n \in Identity, NEW k \in 0..Depth(n)
    PROVE  /\ Cut(n, k) \in Identity /\ Depth(Cut(n, k)) = k
           /\ Cut(n, Depth(n)) = n
           /\ \A j \in 0..k : Cut(Cut(n, k), j) = Cut(n, j)
           /\ Cut(n, k).origin = n.origin /\ Cut(n, k).tokens = SubSeq(n.tokens, 1, k)
           /\ k # 0 => Last(Cut(n, k).tokens) = n.tokens[k] /\ Up(Cut(n, k)) = Cut(n, k - 1)
           /\ Cut(n, 0) = [origin |-> n.origin, tokens |-> <<>>]
  <1>1. /\ n.tokens \in Seq(Tokens) /\ Depth(n) = Len(n.tokens) /\ Len(n.tokens) <= MaxDepth
        /\ n.origin \in Origins /\ MaxDepth \in Nat
        /\ n = [origin |-> n.origin, tokens |-> n.tokens]
    BY IdentityForm
  <1> DEFINE s == n.tokens
  <1>2. s \in Seq(Tokens) /\ k \in 0..Len(s)
    BY <1>1
  <1>3. /\ SubSeq(s, 1, k) \in Seq(Tokens) /\ Len(SubSeq(s, 1, k)) = k
        /\ \A j \in 0..k : SubSeq(SubSeq(s, 1, k), 1, j) = SubSeq(s, 1, j)
        /\ SubSeq(s, 1, Len(s)) = s /\ SubSeq(s, 1, 0) = <<>>
    BY <1>2, Prefixing
  <1>4. Cut(n, k) \in Identity /\ Depth(Cut(n, k)) = k
    <2>1. Len(SubSeq(s, 1, k)) <= MaxDepth
      BY <1>1, <1>2, <1>3
    <2> QED
      BY <1>1, <1>3, <2>1, MakesIdentity DEF Cut
  <1>5. Cut(n, Depth(n)) = n
    BY <1>1, <1>3, Zenon DEF Cut
  <1>6. \A j \in 0..k : Cut(Cut(n, k), j) = Cut(n, j)
    BY <1>3 DEF Cut
  <1>7. Cut(n, k).origin = n.origin /\ Cut(n, k).tokens = SubSeq(n.tokens, 1, k)
    BY DEF Cut
  <1>8. ASSUME k # 0 PROVE Last(Cut(n, k).tokens) = n.tokens[k] /\ Up(Cut(n, k)) = Cut(n, k - 1)
    <2>1. /\ SubSeq(s, 1, k)[k] = s[k]
          /\ k - 1 \in 0..k
      BY <1>2, <1>8, Prefixing
    <2>2. Last(Cut(n, k).tokens) = n.tokens[k]
      BY <1>3, <1>7, <2>1 DEF Last
    <2>3. Up(Cut(n, k)) = Cut(n, k - 1)
      BY <1>4, <1>6, <2>1 DEF Up
    <2> QED
      BY <2>2, <2>3
  <1>9. Cut(n, 0) = [origin |-> n.origin, tokens |-> <<>>]
    BY <1>3, Zenon DEF Cut
  <1> QED
    BY <1>4, <1>5, <1>6, <1>7, <1>8, <1>9

\* A child is known by its parent and the token it ends with.
LEMMA SameChild ==
    ASSUME NEW c \in Identity, NEW d \in Identity, Depth(c) = Depth(d), Depth(c) # 0,
           Up(c) = Up(d), Last(c.tokens) = Last(d.tokens)
    PROVE  c = d
  <1>1. /\ c.tokens \in Seq(Tokens) /\ d.tokens \in Seq(Tokens)
        /\ Len(c.tokens) = Len(d.tokens) /\ Len(c.tokens) # 0
        /\ Len(c.tokens) \in Nat
        /\ Depth(c) = Len(c.tokens) /\ Depth(d) = Len(d.tokens)
        /\ c = [origin |-> c.origin, tokens |-> c.tokens]
        /\ d = [origin |-> d.origin, tokens |-> d.tokens]
    BY IdentityForm
  <1> DEFINE m == Len(c.tokens) - 1
  <1>2. c.origin = d.origin /\ SubSeq(c.tokens, 1, m) = SubSeq(d.tokens, 1, m)
    BY <1>1 DEF Up, Cut
  <1>3. c.tokens[m + 1] = d.tokens[m + 1]
    BY <1>1 DEF Last
  <1>4. \A i \in 1..m : c.tokens[i] = d.tokens[i]
    <2>1. \A i \in 1..m : SubSeq(c.tokens, 1, m)[i] = c.tokens[i]
      BY <1>1
    <2>2. \A i \in 1..m : SubSeq(d.tokens, 1, m)[i] = d.tokens[i]
      BY <1>1
    <2> QED
      BY <1>2, <2>1, <2>2
  <1>5. c.tokens = d.tokens
    BY <1>1, <1>3, <1>4
  <1> QED
    BY <1>1, <1>2, <1>5

\* The child that Extend makes.
LEMMA Child ==
    ASSUME NEW n \in Identity, Depth(n) < MaxDepth, NEW t \in Tokens
    PROVE  LET c == [origin |-> n.origin, tokens |-> Append(n.tokens, t)] IN
           /\ c \in Identity /\ Depth(c) = Depth(n) + 1 /\ Up(c) = n
           /\ Last(c.tokens) = t
           /\ \A k \in 0..Depth(n) : Cut(c, k) = Cut(n, k)
           /\ c # n
  <1> DEFINE c == [origin |-> n.origin, tokens |-> Append(n.tokens, t)]
  <1>1. /\ n.tokens \in Seq(Tokens) /\ Depth(n) = Len(n.tokens) /\ Len(n.tokens) \in Nat
        /\ n.origin \in Origins /\ MaxDepth \in Nat
        /\ n = [origin |-> n.origin, tokens |-> n.tokens]
    BY IdentityForm
  <1>2. /\ Append(n.tokens, t) \in Seq(Tokens)
        /\ Len(Append(n.tokens, t)) = Len(n.tokens) + 1
        /\ SubSeq(Append(n.tokens, t), 1, Len(n.tokens)) = n.tokens
        /\ \A j \in 0..Len(n.tokens) : SubSeq(Append(n.tokens, t), 1, j) = SubSeq(n.tokens, 1, j)
        /\ Last(Append(n.tokens, t)) = t
    BY <1>1, Appending
  <1>3. Len(Append(n.tokens, t)) <= MaxDepth
    BY <1>1, <1>2
  <1>4. c \in Identity /\ Depth(c) = Depth(n) + 1
    BY <1>1, <1>2, <1>3, MakesIdentity
  <1>5. \A k \in 0..Depth(n) : Cut(c, k) = Cut(n, k)
    BY <1>1, <1>2 DEF Cut
  <1>6. Depth(c) - 1 = Depth(n) /\ Depth(n) \in 0..Depth(n) /\ Depth(n) \in Nat
    BY <1>1, <1>4
  <1>7. Up(c) = n
    <2>1. Up(c) = Cut(n, Depth(n))
      BY <1>5, <1>6, Zenon DEF Up
    <2> QED
      BY <2>1, <1>6, Cuts
  <1>8. c # n
    BY <1>4, <1>6
  <1>9. Last(c.tokens) = t
    BY <1>2
  <1> QED
    BY <1>4, <1>5, <1>7, <1>8, <1>9

\* m covers n iff m is one of n's prefixes.
LEMMA CoveringIsCutting ==
    ASSUME NEW m \in Identity, NEW n \in Identity
    PROVE  Covers(m, n) <=> \E k \in 0..Depth(n) : m = Cut(n, k)
  <1>1. /\ m.tokens \in Seq(Tokens) /\ n.tokens \in Seq(Tokens)
        /\ Depth(m) = Len(m.tokens) /\ Depth(n) = Len(n.tokens)
        /\ Len(m.tokens) \in Nat /\ Len(n.tokens) \in Nat
        /\ m = [origin |-> m.origin, tokens |-> m.tokens]
    BY IdentityForm
  <1>2. IsPrefix(m.tokens, n.tokens) <=>
            Len(m.tokens) <= Len(n.tokens) /\ m.tokens = SubSeq(n.tokens, 1, Len(m.tokens))
    BY <1>1, PrefixIsCut
  <1>3. ASSUME Covers(m, n) PROVE \E k \in 0..Depth(n) : m = Cut(n, k)
    <2>1. m = Cut(n, Len(m.tokens))
      BY <1>1, <1>2, <1>3, Zenon DEF Covers, Cut
    <2>2. Len(m.tokens) \in 0..Depth(n)
      BY <1>1, <1>2, <1>3 DEF Covers
    <2> QED
      BY <2>1, <2>2
  <1>4. ASSUME NEW k \in 0..Depth(n), m = Cut(n, k) PROVE Covers(m, n)
    <2>1. Depth(m) = k /\ m.origin = n.origin /\ m.tokens = SubSeq(n.tokens, 1, k)
      BY <1>4, Cuts
    <2> QED
      BY <1>1, <1>2, <2>1 DEF Covers
  <1> QED
    BY <1>3, <1>4

-----------------------------------------------------------------------------
(* The tree                                                                 *)

Tree ==
    /\ DOMAIN nodes \subseteq Identity
    /\ roots = {n \in DOMAIN nodes : Depth(n) = 0}
    /\ \A n \in DOMAIN nodes :
         /\ nodes[n] \in PrefixNode
         /\ Depth(n) = 0 => nodes[n].parent = NoParent
         /\ Depth(n) # 0 => /\ nodes[n].parent = Up(n) /\ Up(n) \in DOMAIN nodes
                            /\ n \in nodes[Up(n)].children
         /\ \A k \in 0..Depth(n) : Cut(n, k) \in DOMAIN nodes
         /\ \A c \in nodes[n].children :
              c \in DOMAIN nodes /\ Depth(c) = Depth(n) + 1 /\ Up(c) = n

Climbs(n, g) ==
    g = [k \in 0..Depth(n) |->
           IF k = 0 THEN n
           ELSE IF nodes[g[k - 1]].parent = NoParent THEN g[k - 1]
           ELSE nodes[g[k - 1]].parent]

Walks(root, tokens, g) ==
    g = [k \in 0..Len(tokens) |->
           IF k = 0 THEN {root}
           ELSE UNION {{c \in nodes[n].children : Last(c.tokens) = tokens[k]} : n \in g[k - 1]}]

\* The way up from a node passes its prefixes, from the longest to the root.
LEMMA LineageIsCuts ==
    ASSUME Tree, NEW n \in DOMAIN nodes
    PROVE  Lineage(n) = {Cut(n, k) : k \in 0..Depth(n)}
  <1> DEFINE D == Depth(n)
             h == [k \in 0..D |-> Cut(n, D - k)]
  <1>1. n \in Identity /\ D \in Nat /\ Depth(n) = D
    BY IdentityForm DEF Tree
  <1>2. Lineage(n) = {(CHOOSE g : Climbs(n, g))[k] : k \in 0..Depth(n)}
    BY Zenon DEF Lineage, Climbs
  <1>3. \A k \in 0..D : Cut(n, k) \in DOMAIN nodes /\ Depth(Cut(n, k)) = k /\ Cut(n, D) = n
    BY <1>1, Cuts DEF Tree
  <1>4. \A k \in 1..D : /\ nodes[Cut(n, k)].parent = Cut(n, k - 1)
                        /\ Cut(n, k - 1) # NoParent
    <2> SUFFICES ASSUME NEW k \in 1..D
                 PROVE  nodes[Cut(n, k)].parent = Cut(n, k - 1) /\ Cut(n, k - 1) # NoParent
      OBVIOUS
    <2>1. k \in 0..D /\ k # 0 /\ k - 1 \in 0..D
      BY <1>1
    <2>2. Cut(n, k) \in DOMAIN nodes /\ Depth(Cut(n, k)) # 0 /\ Up(Cut(n, k)) = Cut(n, k - 1)
      BY <1>1, <1>3, <2>1, Cuts
    <2>3. Cut(n, k - 1) \in Identity
      BY <1>1, <2>1, Cuts
    <2> QED
      BY <2>2, <2>3, IdentityForm DEF Tree
  <1> HIDE DEF D
  <1>5. Climbs(n, h)
    <2>1. ASSUME NEW k \in 0..D
          PROVE  h[k] = IF k = 0 THEN n
                        ELSE IF nodes[h[k - 1]].parent = NoParent THEN h[k - 1]
                        ELSE nodes[h[k - 1]].parent
      <3>1. CASE k = 0
        BY <1>1, <1>3, <3>1
      <3>2. CASE k # 0
        <4>1. k - 1 \in 0..D /\ D - (k - 1) \in 1..D /\ (D - (k - 1)) - 1 = D - k
          BY <1>1, <3>2
        <4>2. h[k - 1] = Cut(n, D - (k - 1)) /\ h[k] = Cut(n, D - k)
          BY <4>1
        <4>3. nodes[h[k - 1]].parent = Cut(n, D - k) /\ Cut(n, D - k) # NoParent
          BY <1>4, <4>1, <4>2
        <4> QED
          BY <3>2, <4>2, <4>3
      <3> QED
        BY <3>1, <3>2
    <2> DEFINE e(k) == IF k = 0 THEN n
                       ELSE IF nodes[h[k - 1]].parent = NoParent THEN h[k - 1]
                       ELSE nodes[h[k - 1]].parent
    <2>2. \A k \in 0..D : h[k] = e(k)
      BY <2>1
    <2>3. h = [k \in 0..D |-> h[k]]
      OBVIOUS
    <2> HIDE DEF h, e
    <2>4. h = [k \in 0..D |-> e(k)]
      BY <2>2, <2>3
    <2> QED
      BY <1>1, <2>4, Zenon DEF Climbs, e
  <1>6. ASSUME NEW g, Climbs(n, g) PROVE g = h
    <2> DEFINE S == {k \in 0..D : g[k] = h[k]}
    <2>1. \A k \in 0..D : g[k] = IF k = 0 THEN n
                                 ELSE IF nodes[g[k - 1]].parent = NoParent THEN g[k - 1]
                                 ELSE nodes[g[k - 1]].parent
      BY <1>1, <1>6, Zenon DEF Climbs
    <2>2. \A k \in 0..D : h[k] = IF k = 0 THEN n
                                 ELSE IF nodes[h[k - 1]].parent = NoParent THEN h[k - 1]
                                 ELSE nodes[h[k - 1]].parent
      BY <1>1, <1>5, Zenon DEF Climbs
    <2>3. /\ g = [k \in 0..D |-> g[k]] /\ h = [k \in 0..D |-> h[k]]
      <3>1. h = [k \in 0..D |-> h[k]]
        OBVIOUS
      <3>2. g = [k \in 0..D |-> g[k]]
        BY <1>1, <1>6 DEF Climbs
      <3> QED
        BY <3>1, <3>2
    <2> HIDE DEF h
    <2>4. 0 \in S
      BY <1>1, <2>1, <2>2
    <2>5. \A k \in 0..(D - 1) : k \in S => k + 1 \in S
      <3> SUFFICES ASSUME NEW k \in 0..(D - 1), g[k] = h[k] PROVE k + 1 \in S
        OBVIOUS
      <3>1. k + 1 \in 0..D /\ k + 1 # 0 /\ (k + 1) - 1 = k
        BY <1>1
      <3> DEFINE j == k + 1
      <3>2. j \in 0..D /\ j # 0 /\ j - 1 = k
        BY <3>1
      <3> HIDE DEF j
      <3>3. g[j] = h[j]
        BY <2>1, <2>2, <3>2
      <3> QED
        BY <3>2, <3>3 DEF j
    <2>6. \A k \in 0..D : g[k] = h[k]
      <3>1. \A k \in 0..D : k \in S
        <4> HIDE DEF S
        <4> QED
          BY <1>1, <2>4, <2>5, Reaches
      <3> QED
        BY <3>1
    <2> QED
      BY <2>3, <2>6
  <1>7. (CHOOSE g : Climbs(n, g)) = h
    <2> HIDE DEF h
    <2>1. Climbs(n, CHOOSE g : Climbs(n, g))
      BY <1>5, Zenon
    <2> QED
      BY <1>6, <2>1, Zenon
  <1>8. Lineage(n) = {h[k] : k \in 0..D}
    BY <1>1, <1>2, <1>7, Zenon
  <1>9. \A k \in 0..D : D - k \in 0..D /\ h[k] = Cut(n, D - k) /\ h[D - k] = Cut(n, k)
    BY <1>1
  <1> HIDE DEF h
  <1>10. {h[k] : k \in 0..D} = {Cut(n, k) : k \in 0..D}
    BY <1>9
  <1> QED
    BY <1>1, <1>8, <1>10

\* lookup along a node's tokens passes its prefixes and ends in the node.
LEMMA LookupFinds ==
    ASSUME Tree, NEW n \in DOMAIN nodes
    PROVE  Lookup([n EXCEPT !.tokens = <<>>], n.tokens) = {n}
  <1> DEFINE D == Len(n.tokens)
             root == [n EXCEPT !.tokens = <<>>]
             h == [k \in 0..D |-> {Cut(n, k)}]
             Edges(k, N) == UNION {{c \in nodes[m].children : Last(c.tokens) = n.tokens[k]} : m \in N}
             e(k, g) == IF k = 0 THEN {root} ELSE Edges(k, g[k - 1])
  <1>1. n \in Identity /\ D \in Nat /\ Depth(n) = D
    BY IdentityForm DEF Tree
  <1>2. Lookup(root, n.tokens) = (CHOOSE g : Walks(root, n.tokens, g))[Len(n.tokens)]
    BY Zenon DEF Lookup, Walks
  <1>3. root = Cut(n, 0)
    <2>1. n = [origin |-> n.origin, tokens |-> n.tokens]
      BY <1>1, IdentityForm
    <2>2. root = [origin |-> n.origin, tokens |-> <<>>]
      BY <2>1
    <2>3. 0 \in 0..Depth(n)
      BY <1>1
    <2> QED
      BY <1>1, <2>2, <2>3, Cuts
  <1>4. \A g : Walks(root, n.tokens, g) <=> g = [k \in 0..D |-> e(k, g)]
    BY Zenon DEF Walks
  <1> HIDE DEF D, root
  <1>5. ASSUME NEW k \in 1..D PROVE Edges(k, {Cut(n, k - 1)}) = {Cut(n, k)}
    <2> DEFINE m == Cut(n, k - 1)
               c == Cut(n, k)
    <2>1. k \in 0..Depth(n) /\ k # 0 /\ k - 1 \in 0..Depth(n)
      BY <1>1
    <2>2. /\ c \in Identity /\ Depth(c) = k /\ Last(c.tokens) = n.tokens[k] /\ Up(c) = m
          /\ m \in Identity /\ Depth(m) = k - 1
      BY <1>1, <2>1, Cuts
    <2>3. m \in DOMAIN nodes /\ c \in DOMAIN nodes
      BY <2>1 DEF Tree
    <2> HIDE DEF m, c
    <2>4. c \in nodes[m].children
      BY <2>1, <2>2, <2>3 DEF Tree
    <2>5. ASSUME NEW d \in nodes[m].children, Last(d.tokens) = n.tokens[k] PROVE d = c
      <3>1. d \in DOMAIN nodes /\ Depth(d) = Depth(m) + 1 /\ Up(d) = m
        BY <2>3 DEF Tree
      <3>2. d \in Identity /\ Depth(d) = Depth(c) /\ Depth(d) # 0
        BY <1>1, <2>1, <2>2, <3>1 DEF Tree
      <3> QED
        BY <2>2, <2>5, <3>1, <3>2, SameChild
    <2>6. {d \in nodes[m].children : Last(d.tokens) = n.tokens[k]} = {c}
      BY <2>2, <2>4, <2>5
    <2> QED
      BY <2>6 DEF m, c
  <1> HIDE DEF Edges
  <1>6. \A k \in 0..D : h[k] = e(k, h)
    <2> SUFFICES ASSUME NEW k \in 0..D PROVE h[k] = e(k, h)
      OBVIOUS
    <2>1. CASE k = 0
      BY <1>1, <1>3, <2>1
    <2>2. CASE k # 0
      <3>1. k \in 1..D /\ k - 1 \in 0..D
        BY <1>1, <2>2
      <3>2. h[k - 1] = {Cut(n, k - 1)} /\ h[k] = {Cut(n, k)}
        BY <3>1
      <3> HIDE DEF h
      <3> QED
        BY <1>5, <2>2, <3>1, <3>2
    <2> QED
      BY <2>1, <2>2
  <1>7. h = [k \in 0..D |-> h[k]]
    OBVIOUS
  <1>8. h[D] = {n}
    <2>1. Cut(n, D) = n /\ D \in 0..D
      BY <1>1, Cuts
    <2> QED
      BY <2>1
  <1> HIDE DEF h
  <1>9. Walks(root, n.tokens, h)
    <2> HIDE DEF e
    <2>1. h = [k \in 0..D |-> e(k, h)]
      BY <1>6, <1>7
    <2> QED
      BY <1>4, <2>1, Zenon
  <1>10. ASSUME NEW g, Walks(root, n.tokens, g) PROVE g = h
    <2> DEFINE S == {k \in 0..D : g[k] = h[k]}
    <2>1. g = [k \in 0..D |-> e(k, g)]
      BY <1>4, <1>10, Zenon
    <2>2. \A k \in 0..D : g[k] = IF k = 0 THEN {root} ELSE Edges(k, g[k - 1])
      BY <2>1, Zenon
    <2>3. \A k \in 0..D : h[k] = IF k = 0 THEN {root} ELSE Edges(k, h[k - 1])
      BY <1>6
    <2>4. g = [k \in 0..D |-> g[k]]
      <3> HIDE DEF e
      <3> QED
        BY <2>1
    <2>5. 0 \in S
      BY <1>1, <2>2, <2>3
    <2>6. \A k \in 0..(D - 1) : k \in S => k + 1 \in S
      <3> SUFFICES ASSUME NEW k \in 0..(D - 1), g[k] = h[k] PROVE k + 1 \in S
        OBVIOUS
      <3> DEFINE j == k + 1
      <3>1. j \in 0..D /\ j # 0 /\ j - 1 = k
        BY <1>1
      <3> HIDE DEF j
      <3>2. g[j] = h[j]
        BY <2>2, <2>3, <3>1
      <3> QED
        BY <3>1, <3>2 DEF j
    <2>7. \A k \in 0..D : g[k] = h[k]
      <3>1. \A k \in 0..D : k \in S
        <4> HIDE DEF S
        <4> QED
          BY <1>1, <2>5, <2>6, Reaches
      <3> QED
        BY <3>1
    <2> QED
      BY <1>7, <2>4, <2>7
  <1>11. (CHOOSE g : Walks(root, n.tokens, g)) = h
    <2>1. Walks(root, n.tokens, CHOOSE g : Walks(root, n.tokens, g))
      BY <1>9, Zenon
    <2> QED
      BY <1>10, <2>1, Zenon
  <1> QED
    BY <1>2, <1>8, <1>11, Zenon DEF root, D

Strict == Contract = Clauses

WithChild(g, c) == [g EXCEPT !.children = @ \cup {c}]
WithRefs(g, v) == [g EXCEPT !.refs = v]

\* A node with one more child, or another count, is otherwise the same.
LEMMA NodeForms ==
    ASSUME NEW g \in PrefixNode
    PROVE  /\ \A c \in Identity : /\ WithChild(g, c) \in PrefixNode
                                  /\ WithChild(g, c).children = g.children \cup {c}
                                  /\ WithChild(g, c).parent = g.parent
                                  /\ WithChild(g, c).refs = g.refs
                                  /\ WithChild(g, c).made = g.made
           /\ \A v \in Nat : /\ WithRefs(g, v) \in PrefixNode
                             /\ WithRefs(g, v).children = g.children
                             /\ WithRefs(g, v).parent = g.parent
                             /\ WithRefs(g, v).refs = v
                             /\ WithRefs(g, v).made = g.made
           /\ g.refs \in Nat /\ g.children \in SUBSET Identity /\ g.made \in 1..MaxGeneration
  BY DEF PrefixNode, WithChild, WithRefs

\* What a node is made as.
LEMMA NewNodes ==
    ASSUME NEW p \in Identity \cup {NoParent}, generation \in 1..MaxGeneration
    PROVE  /\ NewNode(p) \in PrefixNode /\ NewNode(p).parent = p
           /\ NewNode(p).children = {} /\ NewNode(p).refs = 0
           /\ NewNode(p).made = generation
  BY DEF PrefixNode, NewNode

\* The tree has one more node, counted by nobody yet.
Added(c) ==
    /\ c \in Identity /\ c \notin DOMAIN nodes
    /\ DOMAIN nodes' = DOMAIN nodes \cup {c}
    /\ nodes'[c].refs = 0
    /\ \A m \in DOMAIN nodes : /\ nodes'[m].refs = nodes[m].refs
                               /\ nodes'[m].made = nodes[m].made

\* insert_root adds a node that no prefix had.
LEMMA RootKeepsTree ==
    ASSUME Tree, generation \in 1..MaxGeneration, NEW o \in Origins, InsertRoot(o)
    PROVE  Tree' /\ Added([origin |-> o, tokens |-> <<>>])
  <1> DEFINE c == [origin |-> o, tokens |-> <<>>]
             g == NewNode(NoParent)
  <1>1. c \in Identity /\ Depth(c) = 0
    <2>1. <<>> \in Seq(Tokens) /\ Len(<<>>) = 0 /\ MaxDepth \in Nat
      BY GraphAssumption
    <2>2. Len(<<>>) <= MaxDepth
      BY <2>1
    <2> QED
      BY <2>1, <2>2, MakesIdentity
  <1>2. c \notin roots /\ roots' = roots \cup {c} /\ nodes' = Put(nodes, c, g)
    BY DEF InsertRoot
  <1>3. /\ g \in PrefixNode /\ g.parent = NoParent /\ g.children = {} /\ g.refs = 0
    BY NewNodes
  <1>4. Cut(c, 0) = c
    <2>1. 0 \in 0..Depth(c)
      BY <1>1
    <2> QED
      BY <1>1, <2>1, Cuts
  <1> HIDE DEF c, g
  <1>5. c \notin DOMAIN nodes
    BY <1>1, <1>2 DEF Tree
  <1>6. /\ DOMAIN nodes' = DOMAIN nodes \cup {c} /\ nodes'[c] = g
        /\ \A m \in DOMAIN nodes : nodes'[m] = nodes[m]
    BY <1>2, <1>5 DEF Put
  <1>7. Added(c)
    BY <1>1, <1>3, <1>5, <1>6 DEF Added
  <1>8. DOMAIN nodes' \subseteq Identity /\ roots' = {n \in DOMAIN nodes' : Depth(n) = 0}
    BY <1>1, <1>2, <1>6 DEF Tree
  <1>9. ASSUME NEW n \in DOMAIN nodes'
        PROVE  /\ nodes'[n] \in PrefixNode
               /\ Depth(n) = 0 => nodes'[n].parent = NoParent
               /\ Depth(n) # 0 => /\ nodes'[n].parent = Up(n) /\ Up(n) \in DOMAIN nodes'
                                  /\ n \in nodes'[Up(n)].children
               /\ \A k \in 0..Depth(n) : Cut(n, k) \in DOMAIN nodes'
               /\ \A d \in nodes'[n].children :
                    d \in DOMAIN nodes' /\ Depth(d) = Depth(n) + 1 /\ Up(d) = n
    <2>1. CASE n = c
      <3>1. \A k \in 0..Depth(n) : k = 0
        BY <1>1, <2>1
      <3>2. \A k \in 0..Depth(n) : Cut(n, k) \in DOMAIN nodes'
        BY <1>4, <1>6, <2>1, <3>1
      <3>3. nodes'[n] = g
        BY <1>6, <2>1
      <3> QED
        BY <1>1, <1>3, <2>1, <3>2, <3>3
    <2>2. CASE n \in DOMAIN nodes
      <3>1. nodes'[n] = nodes[n]
        BY <1>6, <2>2
      <3>2. /\ nodes[n] \in PrefixNode
            /\ Depth(n) = 0 => nodes[n].parent = NoParent
            /\ Depth(n) # 0 => /\ nodes[n].parent = Up(n) /\ Up(n) \in DOMAIN nodes
                               /\ n \in nodes[Up(n)].children
            /\ \A k \in 0..Depth(n) : Cut(n, k) \in DOMAIN nodes
            /\ \A d \in nodes[n].children :
                 d \in DOMAIN nodes /\ Depth(d) = Depth(n) + 1 /\ Up(d) = n
        BY <2>2, Zenon DEF Tree
      <3> QED
        BY <1>6, <3>1, <3>2
    <2> QED
      BY <1>6, <1>9, <2>1, <2>2
  <1>10. Tree'
    BY <1>8, <1>9, Zenon DEF Tree, Depth, Up, Cut
  <1> QED
    BY <1>7, <1>10 DEF c

\* extend adds a node: a token without an edge has no node behind it.
LEMMA ExtendKeepsTree ==
    ASSUME Strict, Tree, generation \in 1..MaxGeneration, NEW n \in DOMAIN nodes,
           NEW t \in Tokens, NEW o \in Origins, Extend(n, t, o)
    PROVE  Tree' /\ Added([origin |-> o, tokens |-> Append(n.tokens, t)])
  <1> DEFINE c == [origin |-> o, tokens |-> Append(n.tokens, t)]
             g == NewNode(n)
             w == WithChild(nodes[n], c)
  <1>1. /\ o = n.origin /\ Depth(n) < MaxDepth
        /\ \A d \in nodes[n].children : Last(d.tokens) # t
        /\ roots' = roots
    BY DEF Extend, Strict, Clauses
  <1>2. n \in Identity
    BY DEF Tree
  <1>3. /\ c \in Identity /\ Depth(c) = Depth(n) + 1 /\ Up(c) = n /\ Last(c.tokens) = t
        /\ \A k \in 0..Depth(n) : Cut(c, k) = Cut(n, k)
        /\ c # n
    BY <1>1, <1>2, Child
  <1>4. nodes' = Put([nodes EXCEPT ![n] = w], c, g)
    BY DEF Extend, WithChild
  <1>5. Depth(n) \in Nat /\ Depth(c) # 0 /\ Depth(c) \in Nat
    BY <1>2, <1>3, IdentityForm
  <1>6. /\ g \in PrefixNode /\ g.parent = n /\ g.children = {} /\ g.refs = 0
    BY <1>2, NewNodes
  <1>7. nodes[n] \in PrefixNode
    BY DEF Tree
  <1>8. /\ w \in PrefixNode /\ w.children = nodes[n].children \cup {c}
        /\ w.parent = nodes[n].parent /\ w.refs = nodes[n].refs /\ w.made = nodes[n].made
    BY <1>3, <1>7, NodeForms
  <1>9. Cut(c, Depth(c)) = c
    <2>1. Depth(c) \in 0..Depth(c)
      BY <1>5
    <2> QED
      BY <1>3, <2>1, Cuts
  <1> HIDE DEF c, g, w
  <1>10. c \notin DOMAIN nodes
    <2> SUFFICES ASSUME c \in DOMAIN nodes PROVE FALSE
      OBVIOUS
    <2>1. c \in nodes[n].children
      BY <1>3, <1>5 DEF Tree
    <2> QED
      BY <1>1, <1>3, <2>1
  <1>11. /\ DOMAIN nodes' = DOMAIN nodes \cup {c} /\ nodes'[c] = g /\ nodes'[n] = w
         /\ \A m \in DOMAIN nodes : m # n => nodes'[m] = nodes[m]
    BY <1>3, <1>4, <1>10 DEF Put
  <1>12. Added(c)
    BY <1>3, <1>6, <1>8, <1>10, <1>11 DEF Added
  <1>13. DOMAIN nodes' \subseteq Identity /\ roots' = {m \in DOMAIN nodes' : Depth(m) = 0}
    BY <1>1, <1>3, <1>5, <1>11 DEF Tree
  <1>14. \A m \in DOMAIN nodes : /\ nodes'[m] \in PrefixNode
                                 /\ nodes'[m].parent = nodes[m].parent
                                 /\ nodes[m].children \subseteq nodes'[m].children
                                 /\ \A d \in nodes'[m].children :
                                      d \in nodes[m].children \/ (m = n /\ d = c)
    <2> SUFFICES ASSUME NEW m \in DOMAIN nodes
                 PROVE  /\ nodes'[m] \in PrefixNode
                        /\ nodes'[m].parent = nodes[m].parent
                        /\ nodes[m].children \subseteq nodes'[m].children
                        /\ \A d \in nodes'[m].children :
                             d \in nodes[m].children \/ (m = n /\ d = c)
      OBVIOUS
    <2>1. CASE m = n
      BY <1>8, <1>11, <2>1
    <2>2. CASE m # n
      BY <1>11, <2>2 DEF Tree
    <2> QED
      BY <2>1, <2>2
  <1>15. ASSUME NEW m \in DOMAIN nodes'
         PROVE  /\ nodes'[m] \in PrefixNode
                /\ Depth(m) = 0 => nodes'[m].parent = NoParent
                /\ Depth(m) # 0 => /\ nodes'[m].parent = Up(m) /\ Up(m) \in DOMAIN nodes'
                                   /\ m \in nodes'[Up(m)].children
                /\ \A k \in 0..Depth(m) : Cut(m, k) \in DOMAIN nodes'
                /\ \A d \in nodes'[m].children :
                     d \in DOMAIN nodes' /\ Depth(d) = Depth(m) + 1 /\ Up(d) = m
    <2>1. CASE m = c
      <3>1. nodes'[m] = g
        BY <1>11, <2>1
      <3>2. ASSUME NEW k \in 0..Depth(m) PROVE Cut(m, k) \in DOMAIN nodes'
        <4>1. CASE k = Depth(c)
          BY <1>9, <1>11, <2>1, <4>1
        <4>2. CASE k # Depth(c)
          <5>1. k \in 0..Depth(n)
            BY <1>3, <1>5, <2>1, <3>2, <4>2
          <5> QED
            BY <1>3, <1>11, <2>1, <5>1 DEF Tree
        <4> QED
          BY <4>1, <4>2
      <3>3. m \in nodes'[Up(m)].children
        BY <1>3, <1>8, <1>11, <2>1
      <3> QED
        BY <1>3, <1>5, <1>6, <1>11, <2>1, <3>1, <3>2, <3>3
    <2>2. CASE m \in DOMAIN nodes
      <3>1. /\ Depth(m) = 0 => nodes[m].parent = NoParent
            /\ Depth(m) # 0 => /\ nodes[m].parent = Up(m) /\ Up(m) \in DOMAIN nodes
                               /\ m \in nodes[Up(m)].children
            /\ \A k \in 0..Depth(m) : Cut(m, k) \in DOMAIN nodes
            /\ \A d \in nodes[m].children :
                 d \in DOMAIN nodes /\ Depth(d) = Depth(m) + 1 /\ Up(d) = m
        BY <2>2, Zenon DEF Tree
      <3>2. Depth(m) # 0 => m \in nodes'[Up(m)].children
        BY <1>14, <3>1
      <3>3. \A d \in nodes'[m].children :
              d \in DOMAIN nodes' /\ Depth(d) = Depth(m) + 1 /\ Up(d) = m
        BY <1>3, <1>11, <1>14, <2>2, <3>1
      <3> QED
        BY <1>11, <1>14, <2>2, <3>1, <3>2, <3>3
    <2> QED
      BY <1>11, <1>15, <2>1, <2>2
  <1>16. Tree'
    BY <1>13, <1>15, Zenon DEF Tree, Depth, Up, Cut
  <1> QED
    BY <1>12, <1>16 DEF c

\* Only reference counts change.
Recounted == /\ roots' = roots /\ DOMAIN nodes' = DOMAIN nodes
             /\ \A m \in DOMAIN nodes : \E v \in Nat : nodes'[m] = WithRefs(nodes[m], v)

\* A new count leaves parents and children.
LEMMA CountingKeepsTree == ASSUME Tree, Recounted PROVE Tree'
  <1>1. \A m \in DOMAIN nodes : /\ nodes'[m] \in PrefixNode
                                /\ nodes'[m].parent = nodes[m].parent
                                /\ nodes'[m].children = nodes[m].children
    <2> SUFFICES ASSUME NEW m \in DOMAIN nodes
                 PROVE  /\ nodes'[m] \in PrefixNode
                        /\ nodes'[m].parent = nodes[m].parent
                        /\ nodes'[m].children = nodes[m].children
      OBVIOUS
    <2>1. PICK v \in Nat : nodes'[m] = WithRefs(nodes[m], v)
      BY DEF Recounted
    <2>2. nodes[m] \in PrefixNode
      BY DEF Tree
    <2> QED
      BY <2>1, <2>2, NodeForms
  <1>2. DOMAIN nodes' = DOMAIN nodes /\ roots' = roots
    BY DEF Recounted
  <1>3. DOMAIN nodes' \subseteq Identity /\ roots' = {n \in DOMAIN nodes' : Depth(n) = 0}
    BY <1>2 DEF Tree
  <1>4. ASSUME NEW n \in DOMAIN nodes'
        PROVE  /\ nodes'[n] \in PrefixNode
               /\ Depth(n) = 0 => nodes'[n].parent = NoParent
               /\ Depth(n) # 0 => /\ nodes'[n].parent = Up(n) /\ Up(n) \in DOMAIN nodes'
                                  /\ n \in nodes'[Up(n)].children
               /\ \A k \in 0..Depth(n) : Cut(n, k) \in DOMAIN nodes'
               /\ \A d \in nodes'[n].children :
                    d \in DOMAIN nodes' /\ Depth(d) = Depth(n) + 1 /\ Up(d) = n
    <2>1. /\ Depth(n) = 0 => nodes[n].parent = NoParent
          /\ Depth(n) # 0 => /\ nodes[n].parent = Up(n) /\ Up(n) \in DOMAIN nodes
                             /\ n \in nodes[Up(n)].children
          /\ \A k \in 0..Depth(n) : Cut(n, k) \in DOMAIN nodes
          /\ \A d \in nodes[n].children :
               d \in DOMAIN nodes /\ Depth(d) = Depth(n) + 1 /\ Up(d) = n
      BY <1>2, <1>4, Zenon DEF Tree
    <2> QED
      BY <1>1, <1>2, <1>4, <2>1
  <1> QED
    BY <1>3, <1>4, Zenon DEF Tree, Depth, Up, Cut

-----------------------------------------------------------------------------
(* The reference counts                                                     *)

\* The retains not released: the i-th of node x[1], for i = x[2].
RetainPairs == {x \in Identity \X (1..MaxRetains) : x[2] <= retained[x[1]]}

Refs == /\ retained \in [Identity -> 0..MaxRetains]
        /\ \A n \in Identity : retained[n] # 0 => n \in DOMAIN nodes
        /\ IsFiniteSet(RetainPairs)
        /\ \A n \in DOMAIN nodes : nodes[n].refs = Cardinality(RetainsOver(n))

\* The retains that count for n are those n covers.
LEMMA RetainsOverAre == ASSUME NEW n PROVE RetainsOver(n) = {x \in RetainPairs : Covers(n, x[1])}
  BY DEF RetainsOver, RetainPairs, Covers

\* The same of the next state.
LEMMA RetainsOverPrimed ==
    ASSUME NEW n PROVE RetainsOver(n)' = {x \in RetainPairs' : Covers(n, x[1])}
  BY DEF RetainsOver, RetainPairs, Covers, Identity

\* Nobody retained below a new node: its prefix would have had a node.
LEMMA AddedKeepsRefs ==
    ASSUME Tree, Refs, NEW c, Added(c), retained' = retained PROVE Refs'
  <1>1. /\ c \in Identity /\ c \notin DOMAIN nodes /\ DOMAIN nodes' = DOMAIN nodes \cup {c}
        /\ nodes'[c].refs = 0
        /\ \A m \in DOMAIN nodes : nodes'[m].refs = nodes[m].refs
    BY DEF Added
  <1>2. RetainPairs' = RetainPairs /\ (\A m : RetainsOver(m)' = RetainsOver(m))
    BY DEF RetainPairs, RetainsOver, Identity
  <1>3. RetainsOver(c) = {}
    <2> SUFFICES ASSUME NEW x \in RetainsOver(c) PROVE FALSE
      OBVIOUS
    <2>1. x \in RetainPairs /\ Covers(c, x[1])
      BY RetainsOverAre
    <2>2. x[1] \in Identity /\ x[2] \in 1..MaxRetains /\ x[2] <= retained[x[1]]
      BY <2>1 DEF RetainPairs
    <2>3. retained[x[1]] # 0
      BY <2>2
    <2>4. x[1] \in DOMAIN nodes
      BY <2>2, <2>3 DEF Refs
    <2>5. PICK k \in 0..Depth(x[1]) : c = Cut(x[1], k)
      BY <1>1, <2>1, <2>2, CoveringIsCutting
    <2> QED
      BY <1>1, <2>4, <2>5 DEF Tree
  <1>4. Cardinality(RetainsOver(c)) = 0
    BY <1>3, FS_EmptySet
  <1>5. \A n \in DOMAIN nodes' : nodes'[n].refs = Cardinality(RetainsOver(n)')
    BY <1>1, <1>2, <1>4 DEF Refs
  <1>6. retained' \in [Identity -> 0..MaxRetains]
    BY DEF Refs
  <1>7. \A n \in Identity : retained'[n] # 0 => n \in DOMAIN nodes'
    BY <1>1 DEF Refs
  <1>8. IsFiniteSet(RetainPairs')
    BY <1>2 DEF Refs
  <1>9. \A n \in DOMAIN nodes' : Cardinality(RetainsOver(n)') = Cardinality(RetainsOver(n))'
    OBVIOUS
  <1> QED
    BY <1>5, <1>6, <1>7, <1>8, Zenon DEF Refs, Identity

\* The nodes on the way up from n are those that cover it.
LEMMA LineageIsCovering ==
    ASSUME Tree, NEW n \in DOMAIN nodes, NEW m \in DOMAIN nodes
    PROVE  m \in Lineage(n) <=> Covers(m, n)
  <1>1. m \in Identity /\ n \in Identity
    BY DEF Tree
  <1> QED
    BY <1>1, LineageIsCuts, CoveringIsCutting

\* A node as itself with a count.
LEMMA SameCounts ==
    ASSUME NEW g \in PrefixNode
    PROVE  g = WithRefs(g, g.refs) /\ \A v : [g EXCEPT !.refs = v] = WithRefs(g, v)
  BY DEF PrefixNode, WithRefs

\* retain_prefix counts one retain more on every node that covers n.
LEMMA RetainKeepsRefs ==
    ASSUME Tree, Refs, NEW n \in DOMAIN nodes, RetainPrefix(n)
    PROVE  Recounted /\ Refs' /\ \A m \in DOMAIN nodes : nodes'[m].made = nodes[m].made
  <1> DEFINE v == retained[n] + 1
             x0 == <<n, v>>
  <1>1. /\ retained[n] < MaxRetains
        /\ nodes' = [m \in DOMAIN nodes |->
                       IF m \in Lineage(n) THEN [nodes[m] EXCEPT !.refs = @ + 1] ELSE nodes[m]]
        /\ retained' = [retained EXCEPT ![n] = v]
        /\ roots' = roots
    BY DEF RetainPrefix
  <1>2. n \in Identity /\ retained \in [Identity -> 0..MaxRetains] /\ MaxRetains \in Nat
    BY GraphAssumption DEF Tree, Refs
  <1>3. v \in 1..MaxRetains /\ v \in 0..MaxRetains
    BY <1>1, <1>2
  <1>4. x0 \notin RetainPairs /\ RetainPairs' = RetainPairs \cup {x0}
    <2>1. x0 \notin RetainPairs
      BY <1>2 DEF RetainPairs
    <2>2. RetainPairs' = {x \in Identity \X (1..MaxRetains) : x[2] <= retained'[x[1]]}
      BY DEF RetainPairs, Identity
    <2>3. \A m \in Identity : retained'[m] = IF m = n THEN v ELSE retained[m]
      BY <1>1, <1>2
    <2>4. x0 \in Identity \X (1..MaxRetains) /\ x0[1] = n /\ x0[2] = v
      BY <1>2, <1>3
    <2>5. \A x \in Identity \X (1..MaxRetains) :
            x[2] <= retained'[x[1]] <=> (x[2] <= retained[x[1]] \/ x = x0)
      <3> SUFFICES ASSUME NEW m \in Identity, NEW i \in 1..MaxRetains
                   PROVE  i <= retained'[m] <=> (i <= retained[m] \/ <<m, i>> = x0)
        OBVIOUS
      <3>1. CASE m = n
        BY <1>2, <1>3, <2>3, <3>1
      <3>2. CASE m # n
        BY <2>3, <3>2
      <3> QED
        BY <3>1, <3>2
    <2> HIDE DEF x0, v
    <2>6. RetainPairs = {x \in Identity \X (1..MaxRetains) : x[2] <= retained[x[1]]}
      BY DEF RetainPairs
    <2> QED
      BY <2>1, <2>2, <2>4, <2>5, <2>6
  <1>5. x0[1] = n /\ IsFiniteSet(RetainPairs)
    BY DEF Refs
  <1> HIDE DEF x0
  <1>6. ASSUME NEW m \in DOMAIN nodes
        PROVE  /\ nodes'[m] = WithRefs(nodes[m], IF Covers(m, n) THEN nodes[m].refs + 1
                                                 ELSE nodes[m].refs)
               /\ nodes[m] \in PrefixNode
    <2>1. nodes[m] \in PrefixNode
      BY DEF Tree
    <2>2. m \in Lineage(n) <=> Covers(m, n)
      BY LineageIsCovering
    <2>3. CASE Covers(m, n)
      <3>1. nodes'[m] = [nodes[m] EXCEPT !.refs = nodes[m].refs + 1]
        BY <1>1, <2>2, <2>3
      <3> QED
        BY <2>1, <2>3, <3>1, SameCounts
    <2>4. CASE ~Covers(m, n)
      <3>1. nodes'[m] = nodes[m]
        BY <1>1, <2>2, <2>4
      <3> QED
        BY <2>1, <2>4, <3>1, SameCounts
    <2> QED
      BY <2>1, <2>3, <2>4
  <1>7. ASSUME NEW m \in DOMAIN nodes
        PROVE  /\ Cardinality(RetainsOver(m)') = nodes'[m].refs
               /\ nodes'[m].made = nodes[m].made
               /\ \E w \in Nat : nodes'[m] = WithRefs(nodes[m], w)
    <2>1. /\ RetainsOver(m) = {x \in RetainPairs : Covers(m, x[1])}
          /\ RetainsOver(m)' = {x \in RetainPairs' : Covers(m, x[1])}
      BY RetainsOverAre, RetainsOverPrimed
    <2>2. /\ IsFiniteSet(RetainsOver(m)) /\ x0 \notin RetainsOver(m)
          /\ RetainsOver(m)' = IF Covers(m, n) THEN RetainsOver(m) \cup {x0} ELSE RetainsOver(m)
      <3>1. RetainsOver(m) \subseteq RetainPairs
        BY <2>1
      <3> QED
        BY <1>4, <1>5, <2>1, <3>1, FS_Subset
    <2>3. nodes[m].refs = Cardinality(RetainsOver(m)) /\ nodes[m].refs \in Nat
      BY <1>6, NodeForms DEF Refs
    <2> DEFINE w == IF Covers(m, n) THEN nodes[m].refs + 1 ELSE nodes[m].refs
    <2>4. w \in Nat
      BY <2>3
    <2>5. Cardinality(RetainsOver(m)') = w
      <3>1. CASE Covers(m, n)
        <4>1. Cardinality(RetainsOver(m)') = Cardinality(RetainsOver(m)) + 1
          BY <2>2, <3>1, FS_AddElement
        <4> QED
          BY <2>3, <3>1, <4>1
      <3>2. CASE ~Covers(m, n)
        BY <2>2, <2>3, <3>2
      <3> QED
        BY <3>1, <3>2
    <2>6. nodes'[m] = WithRefs(nodes[m], w)
      BY <1>6
    <2> HIDE DEF w
    <2>7. nodes'[m].refs = w /\ nodes'[m].made = nodes[m].made
      BY <1>6, <2>4, <2>6, NodeForms
    <2> QED
      BY <2>4, <2>5, <2>6, <2>7
  <1>8. DOMAIN nodes' = DOMAIN nodes
    BY <1>1
  <1>9. Recounted
    BY <1>1, <1>7, <1>8 DEF Recounted
  <1>10. retained' \in [Identity -> 0..MaxRetains]
    BY <1>1, <1>2, <1>3
  <1>11. \A m \in Identity : retained'[m] # 0 => m \in DOMAIN nodes'
    BY <1>1, <1>2, <1>8 DEF Refs
  <1>12. IsFiniteSet(RetainPairs')
    BY <1>4, <1>5, FS_AddElement
  <1>13. \A m \in DOMAIN nodes' : nodes'[m].refs = Cardinality(RetainsOver(m)')
    BY <1>7, <1>8
  <1>14. Refs'
    BY <1>10, <1>11, <1>12, <1>13, Zenon DEF Refs, Identity
  <1> QED
    BY <1>7, <1>9, <1>14

\* release_prefix counts one less: no node on the way up is at zero.
LEMMA ReleaseKeepsRefs ==
    ASSUME Strict, Tree, Refs, NEW n \in DOMAIN nodes, ReleasePrefix(n)
    PROVE  Recounted /\ Refs' /\ \A m \in DOMAIN nodes : nodes'[m].made = nodes[m].made
  <1> DEFINE v == retained[n]
             x0 == <<n, v>>
             Zero == {m \in Lineage(n) : nodes[m].refs = 0}
             Reached == {m \in Lineage(n) : \A z \in Zero : Depth(m) > Depth(z)}
  <1>0. /\ "retain before release" \in Contract => retained[n] > 0
        /\ nodes' = [m \in DOMAIN nodes |->
                       IF m \in Reached THEN [nodes[m] EXCEPT !.refs = @ - 1] ELSE nodes[m]]
        /\ retained' = [retained EXCEPT ![n] = IF v = 0 THEN 0 ELSE v - 1]
        /\ roots' = roots
    BY Zenon DEF ReleasePrefix
  <1>a. retained[n] > 0 /\ v # 0
    <2>1. "retain before release" \in Contract
      BY DEF Strict, Clauses
    <2>2. retained[n] > 0
      BY <1>0, <2>1
    <2>3. n \in Identity /\ retained \in [Identity -> 0..MaxRetains] /\ MaxRetains \in Nat
      BY GraphAssumption DEF Tree, Refs
    <2>4. retained[n] \in Nat
      BY <2>3
    <2> QED
      BY <2>2, <2>4
  <1>1. /\ retained[n] > 0
        /\ nodes' = [m \in DOMAIN nodes |->
                       IF m \in Reached THEN [nodes[m] EXCEPT !.refs = @ - 1] ELSE nodes[m]]
        /\ retained' = [retained EXCEPT ![n] = v - 1]
        /\ roots' = roots
    BY <1>0, <1>a, Zenon
  <1>2. n \in Identity /\ retained \in [Identity -> 0..MaxRetains] /\ MaxRetains \in Nat
    BY GraphAssumption DEF Tree, Refs
  <1>3. v \in 1..MaxRetains /\ v - 1 \in 0..MaxRetains
    BY <1>1, <1>2
  <1>4. x0 \in RetainPairs /\ RetainPairs' = RetainPairs \ {x0}
    <2>1. x0 \in RetainPairs
      BY <1>2, <1>3 DEF RetainPairs
    <2>2. RetainPairs' = {x \in Identity \X (1..MaxRetains) : x[2] <= retained'[x[1]]}
      BY DEF RetainPairs, Identity
    <2>3. \A m \in Identity : retained'[m] = IF m = n THEN v - 1 ELSE retained[m]
      BY <1>1, <1>2
    <2>4. \A x \in Identity \X (1..MaxRetains) :
            x[2] <= retained'[x[1]] <=> (x[2] <= retained[x[1]] /\ x # x0)
      <3> SUFFICES ASSUME NEW m \in Identity, NEW i \in 1..MaxRetains
                   PROVE  i <= retained'[m] <=> (i <= retained[m] /\ <<m, i>> # x0)
        OBVIOUS
      <3>1. CASE m = n
        BY <1>2, <1>3, <2>3, <3>1
      <3>2. CASE m # n
        BY <2>3, <3>2
      <3> QED
        BY <3>1, <3>2
    <2> HIDE DEF x0, v
    <2>5. RetainPairs = {x \in Identity \X (1..MaxRetains) : x[2] <= retained[x[1]]}
      BY DEF RetainPairs
    <2> QED
      BY <2>1, <2>2, <2>4, <2>5
  <1>5. x0[1] = n /\ IsFiniteSet(RetainPairs)
    BY DEF Refs
  <1> HIDE DEF x0
  <1>6. ASSUME NEW m \in DOMAIN nodes
        PROVE  /\ RetainsOver(m) = {x \in RetainPairs : Covers(m, x[1])}
               /\ RetainsOver(m)' = {x \in RetainPairs' : Covers(m, x[1])}
               /\ IsFiniteSet(RetainsOver(m))
               /\ nodes[m] \in PrefixNode
               /\ nodes[m].refs = Cardinality(RetainsOver(m)) /\ nodes[m].refs \in Nat
               /\ Covers(m, n) => x0 \in RetainsOver(m) /\ nodes[m].refs # 0
    <2>1. /\ RetainsOver(m) = {x \in RetainPairs : Covers(m, x[1])}
          /\ RetainsOver(m)' = {x \in RetainPairs' : Covers(m, x[1])}
      BY RetainsOverAre, RetainsOverPrimed
    <2>2. IsFiniteSet(RetainsOver(m))
      <3>1. RetainsOver(m) \subseteq RetainPairs
        BY <2>1
      <3> QED
        BY <1>5, <3>1, FS_Subset
    <2>3. nodes[m] \in PrefixNode
      BY DEF Tree
    <2>4. nodes[m].refs = Cardinality(RetainsOver(m)) /\ nodes[m].refs \in Nat
      BY <2>3, NodeForms DEF Refs
    <2>5. ASSUME Covers(m, n) PROVE x0 \in RetainsOver(m) /\ nodes[m].refs # 0
      <3>1. x0 \in RetainsOver(m)
        BY <1>4, <1>5, <2>1, <2>5
      <3> QED
        BY <2>2, <2>4, <3>1, FS_EmptySet
    <2> QED
      BY <2>1, <2>2, <2>3, <2>4, <2>5
  <1>7. \A m \in DOMAIN nodes : m \in Reached <=> Covers(m, n)
    <2>1. \A m \in Lineage(n) : m \in DOMAIN nodes
      BY LineageIsCuts DEF Tree
    <2>2. Zero = {}
      BY <1>6, <2>1, LineageIsCovering
    <2> QED
      BY <2>2, LineageIsCovering
  <1> HIDE DEF Reached
  <1>8. ASSUME NEW m \in DOMAIN nodes
        PROVE  /\ Cardinality(RetainsOver(m)') = nodes'[m].refs
               /\ nodes'[m].made = nodes[m].made
               /\ \E w \in Nat : nodes'[m] = WithRefs(nodes[m], w)
    <2> DEFINE w == IF Covers(m, n) THEN nodes[m].refs - 1 ELSE nodes[m].refs
    <2>1. w \in Nat
      BY <1>6
    <2>2. Cardinality(RetainsOver(m)') = w
      <3>1. CASE Covers(m, n)
        <4>1. RetainsOver(m)' = RetainsOver(m) \ {x0}
          BY <1>4, <1>6
        <4>2. Cardinality(RetainsOver(m)') = Cardinality(RetainsOver(m)) - 1
          BY <1>6, <3>1, <4>1, FS_RemoveElement
        <4> QED
          BY <1>6, <3>1, <4>2
      <3>2. CASE ~Covers(m, n)
        <4>1. RetainsOver(m)' = RetainsOver(m)
          BY <1>4, <1>5, <1>6, <3>2
        <4> QED
          BY <1>6, <3>2, <4>1
      <3> QED
        BY <3>1, <3>2
    <2>3. nodes'[m] = WithRefs(nodes[m], w)
      <3>1. CASE Covers(m, n)
        <4>1. nodes'[m] = [nodes[m] EXCEPT !.refs = nodes[m].refs - 1]
          BY <1>1, <1>7, <3>1
        <4> QED
          BY <1>6, <3>1, <4>1, SameCounts
      <3>2. CASE ~Covers(m, n)
        <4>1. nodes'[m] = nodes[m]
          BY <1>1, <1>7, <3>2
        <4> QED
          BY <1>6, <3>2, <4>1, SameCounts
      <3> QED
        BY <3>1, <3>2
    <2> HIDE DEF w
    <2>4. nodes'[m].refs = w /\ nodes'[m].made = nodes[m].made
      BY <1>6, <2>1, <2>3, NodeForms
    <2> QED
      BY <2>1, <2>2, <2>3, <2>4
  <1>9. DOMAIN nodes' = DOMAIN nodes
    BY <1>1
  <1>10. Recounted
    BY <1>1, <1>8, <1>9 DEF Recounted
  <1>11. retained' \in [Identity -> 0..MaxRetains]
    BY <1>1, <1>2, <1>3
  <1>12. \A m \in Identity : retained'[m] # 0 => m \in DOMAIN nodes'
    BY <1>1, <1>2, <1>9 DEF Refs
  <1>13. IsFiniteSet(RetainPairs')
    BY <1>4, <1>5, FS_RemoveElement
  <1>14. \A m \in DOMAIN nodes' : nodes'[m].refs = Cardinality(RetainsOver(m)')
    BY <1>8, <1>9
  <1>15. Refs'
    BY <1>11, <1>12, <1>13, <1>14, Zenon DEF Refs, Identity
  <1> QED
    BY <1>8, <1>10, <1>15

-----------------------------------------------------------------------------
(* The leases                                                               *)

LeasesOn(p) == {l \in DOMAIN leases : l.page = p}

Leases ==
    /\ IsFiniteSet(DOMAIN leases)
    /\ \A l \in DOMAIN leases : l.page \in DOMAIN pages /\ leases[l] \in DOMAIN pages[l.page].reps
    /\ \A p \in DOMAIN pages : pages[p].active = Cardinality(LeasesOn(p))

\* Finitely many leases, and none exactly when the count is zero.
LEMMA LeasesOnFinite ==
    ASSUME Leases, NEW p
    PROVE  /\ IsFiniteSet(LeasesOn(p)) /\ Cardinality(LeasesOn(p)) \in Nat
           /\ Cardinality(LeasesOn(p)) = 0 <=> LeasesOn(p) = {}
  <1>1. LeasesOn(p) \subseteq DOMAIN leases
    BY DEF LeasesOn
  <1>2. IsFiniteSet(LeasesOn(p))
    BY <1>1, FS_Subset DEF Leases
  <1> QED
    BY <1>2, FS_EmptySet, FS_CardinalityType

\* Pages may come, unleased, and get or lose representations while unleased.
Unleased ==
    /\ leases' = leases /\ DOMAIN pages \subseteq DOMAIN pages'
    /\ \A p \in DOMAIN pages' :
         \/ p \notin DOMAIN pages /\ pages'[p].active = 0
         \/ /\ p \in DOMAIN pages /\ pages'[p].active = pages[p].active
            /\ pages[p].active # 0 => DOMAIN pages[p].reps \subseteq DOMAIN pages'[p].reps

\* Such steps leave every lease what it leased.
LEMMA UnleasedKeepsLeases == ASSUME Leases, Unleased PROVE Leases'
  <1>1. leases' = leases /\ \A p : LeasesOn(p)' = LeasesOn(p)
    BY DEF Unleased, LeasesOn
  <1>2. ASSUME NEW l \in DOMAIN leases
        PROVE  l.page \in DOMAIN pages' /\ leases[l] \in DOMAIN pages'[l.page].reps
    <2>1. l.page \in DOMAIN pages /\ leases[l] \in DOMAIN pages[l.page].reps
      BY DEF Leases
    <2>2. l \in LeasesOn(l.page)
      BY DEF LeasesOn
    <2>3. pages[l.page].active # 0
      BY <2>1, <2>2, LeasesOnFinite DEF Leases
    <2>4. l.page \in DOMAIN pages'
      BY <2>1 DEF Unleased
    <2> QED
      BY <2>1, <2>3, <2>4 DEF Unleased
  <1>3. ASSUME NEW p \in DOMAIN pages' PROVE pages'[p].active = Cardinality(LeasesOn(p))
    <2>1. CASE p \notin DOMAIN pages
      <3>1. LeasesOn(p) = {}
        BY <2>1 DEF LeasesOn, Leases
      <3>2. pages'[p].active = 0
        BY <1>3, <2>1 DEF Unleased
      <3> QED
        BY <3>1, <3>2, LeasesOnFinite
    <2>2. CASE p \in DOMAIN pages
      <3>1. pages'[p].active = pages[p].active
        BY <1>3, <2>2 DEF Unleased
      <3> QED
        BY <2>2, <3>1 DEF Leases
    <2> QED
      BY <2>1, <2>2
  <1>4. \A p \in DOMAIN pages' : pages'[p].active = Cardinality(LeasesOn(p)')
    BY <1>1, <1>3
  <1>5. IsFiniteSet(DOMAIN leases')
    BY <1>1 DEF Leases
  <1> QED
    BY <1>1, <1>2, <1>4, <1>5, Zenon DEF Leases

-----------------------------------------------------------------------------
(* Leases taken and released                                                *)

\* lease: one owner's lease of a page has an id of its own.
LEMMA LeaseKeepsLeases ==
    ASSUME Leases, Strict, NEW p, NEW k, NEW o, Lease(p, k, o, generation),
           \A q \in DOMAIN pages : PageForm(pages[q])
    PROVE  Leases'
  <1> DEFINE id == [page |-> p, owner |-> o, generation |-> generation]
             v == pages[p].active + 1
             g == [pages[p] EXCEPT !.active = v]
  <1>1. /\ p \in DOMAIN pages /\ k \in DOMAIN pages[p].reps /\ id \notin DOMAIN leases
        /\ pages' = [pages EXCEPT ![p] = g] /\ leases' = Put(leases, id, k)
    BY DEF Lease, Strict, Clauses
  <1>2. g.reps = pages[p].reps /\ g.active = v
    BY <1>1, CountingKeepsForm
  <1>3. id.page = p
    OBVIOUS
  <1> HIDE DEF id, g
  <1>4. /\ DOMAIN leases' = DOMAIN leases \cup {id} /\ leases'[id] = k
        /\ \A l \in DOMAIN leases : leases'[l] = leases[l]
    BY <1>1 DEF Put
  <1>5. /\ DOMAIN pages' = DOMAIN pages /\ pages'[p] = g
        /\ \A q \in DOMAIN pages : q # p => pages'[q] = pages[q]
    BY <1>1
  <1>6. \A q \in DOMAIN pages : pages'[q].reps = pages[q].reps
    BY <1>1, <1>2, <1>5
  <1>7. IsFiniteSet(DOMAIN leases')
    BY <1>4, FS_AddElement DEF Leases
  <1>8. \A l \in DOMAIN leases' :
          l.page \in DOMAIN pages' /\ leases'[l] \in DOMAIN pages'[l.page].reps
    BY <1>1, <1>3, <1>4, <1>5, <1>6 DEF Leases
  <1>9. ASSUME NEW q \in DOMAIN pages' PROVE pages'[q].active = Cardinality(LeasesOn(q)')
    <2>1. LeasesOn(q)' = IF q = p THEN LeasesOn(q) \cup {id} ELSE LeasesOn(q)
      BY <1>3, <1>4 DEF LeasesOn
    <2>2. pages[q].active = Cardinality(LeasesOn(q)) /\ IsFiniteSet(LeasesOn(q))
      BY <1>5, LeasesOnFinite DEF Leases
    <2>3. CASE q = p
      <3>1. id \notin LeasesOn(q)
        BY <1>1 DEF LeasesOn
      <3>2. Cardinality(LeasesOn(q)') = Cardinality(LeasesOn(q)) + 1
        BY <2>1, <2>2, <2>3, <3>1, FS_AddElement
      <3> QED
        BY <1>2, <1>5, <2>2, <2>3, <3>2
    <2>4. CASE q # p
      <3>1. pages'[q] = pages[q]
        BY <1>5, <2>4
      <3> QED
        BY <2>1, <2>2, <2>4, <3>1
    <2> QED
      BY <2>3, <2>4
  <1> QED
    BY <1>7, <1>8, <1>9, Zenon DEF Leases

\* release_lease: the page of a lease counts it.
LEMMA ReleaseKeepsLeases ==
    ASSUME Leases, NEW id, ReleaseLease(id), \A q \in DOMAIN pages : PageForm(pages[q])
    PROVE  Leases'
  <1> DEFINE p == id.page
             v == pages[p].active - 1
             g == [pages[p] EXCEPT !.active = v]
  <1>1. id \in DOMAIN leases /\ leases' = Without(leases, id)
    BY DEF ReleaseLease
  <1>2. p \in DOMAIN pages /\ id \in LeasesOn(p)
    BY <1>1 DEF Leases, LeasesOn
  <1>3. pages[p].active # 0
    BY <1>2, LeasesOnFinite DEF Leases
  <1>4. pages' = [pages EXCEPT ![p] = g]
    BY <1>3 DEF ReleaseLease
  <1>5. g.reps = pages[p].reps /\ g.active = v
    BY <1>2, CountingKeepsForm
  <1> HIDE DEF g
  <1>6. /\ DOMAIN leases' = DOMAIN leases \ {id}
        /\ \A l \in DOMAIN leases' : leases'[l] = leases[l]
    BY <1>1 DEF Without
  <1>7. /\ DOMAIN pages' = DOMAIN pages /\ pages'[p] = g
        /\ \A q \in DOMAIN pages : q # p => pages'[q] = pages[q]
    BY <1>2, <1>4
  <1>8. \A q \in DOMAIN pages : pages'[q].reps = pages[q].reps
    BY <1>2, <1>5, <1>7
  <1>9. IsFiniteSet(DOMAIN leases')
    BY <1>6, FS_RemoveElement DEF Leases
  <1>10. \A l \in DOMAIN leases' :
           l.page \in DOMAIN pages' /\ leases'[l] \in DOMAIN pages'[l.page].reps
    BY <1>6, <1>7, <1>8 DEF Leases
  <1>11. ASSUME NEW q \in DOMAIN pages' PROVE pages'[q].active = Cardinality(LeasesOn(q)')
    <2>1. LeasesOn(q)' = IF q = p THEN LeasesOn(q) \ {id} ELSE LeasesOn(q)
      BY <1>6 DEF LeasesOn
    <2>2. pages[q].active = Cardinality(LeasesOn(q)) /\ IsFiniteSet(LeasesOn(q))
      BY <1>7, LeasesOnFinite DEF Leases
    <2>3. CASE q = p
      <3>1. Cardinality(LeasesOn(q)') = Cardinality(LeasesOn(q)) - 1
        BY <1>2, <2>1, <2>2, <2>3, FS_RemoveElement
      <3> QED
        BY <1>5, <1>7, <2>2, <2>3, <3>1
    <2>4. CASE q # p
      <3>1. pages'[q] = pages[q]
        BY <1>7, <2>4
      <3> QED
        BY <2>1, <2>2, <2>4, <3>1
    <2> QED
      BY <2>3, <2>4
  <1> QED
    BY <1>9, <1>10, <1>11, Zenon DEF Leases

-----------------------------------------------------------------------------
(* The graph's invariant                                                    *)

Typed(g) == /\ PageForm(g) /\ DOMAIN g.reps \subseteq Kinds
            /\ \A k \in DOMAIN g.reps : g.reps[k] \in Rep

Pageful == /\ DOMAIN pages \subseteq PageId
           /\ \A p \in DOMAIN pages : Typed(pages[p]) /\ CausallyClosed(p)

FoldTypes ==
    /\ generation \in 1..MaxGeneration /\ DOMAIN leases \subseteq LeaseId
    /\ puts \in 0..MaxPuts /\ DOMAIN entries \subseteq PageId
    /\ \A p \in DOMAIN entries : entries[p] \in [loc : Location, payload : Payloads]
    /\ hot \subseteq PageId /\ tailPass \in BOOLEAN

GraphInv == Tree /\ Refs /\ Leases /\ Pageful /\ FoldTypes

\* What the run checks follows.
LEMMA GraphInvIsSound == GraphInv => FTypeOK /\ PrefixesSound /\ LeasesProtect
  <1> SUFFICES ASSUME GraphInv PROVE FTypeOK /\ PrefixesSound /\ LeasesProtect
    OBVIOUS
  <1>1. \A p \in DOMAIN pages : /\ pages[p].active \in Nat /\ DOMAIN pages[p].reps \subseteq Kinds
                                /\ \A k \in DOMAIN pages[p].reps : pages[p].reps[k] \in Rep
                                /\ pages[p].active = Cardinality(LeasesOn(p))
    BY LeasesOnFinite DEF GraphInv, Leases, Pageful, Typed
  <1>2. \A l \in DOMAIN leases : leases[l] \in DOMAIN pages[l.page].reps /\ leases[l] \in Kinds
    BY <1>1 DEF GraphInv, Leases
  <1>3. /\ roots \subseteq DOMAIN nodes /\ DOMAIN nodes \subseteq Identity
        /\ \A n \in DOMAIN nodes : nodes[n] \in PrefixNode
    BY DEF GraphInv, Tree
  <1>4. GTypeOK
    BY <1>1, <1>2, <1>3 DEF GraphInv, Pageful, FoldTypes, GTypeOK
  <1>5. FTypeOK
    <2>1. FoldTypes
      BY DEF GraphInv
    <2>2. \A p \in DOMAIN pages : \A k \in DOMAIN pages[p].reps : pages[p].reps[k] \in Rep
      BY <1>1
    <2> QED
      BY <1>4, <2>1, <2>2, Zenon DEF FoldTypes, FTypeOK
  <1>6. PrefixesSound
    BY LookupFinds DEF GraphInv, Refs, Pageful, PrefixesSound
  <1>7. LeasesProtect
    BY <1>1, <1>2 DEF LeasesProtect, LeasesOn
  <1> QED
    BY <1>5, <1>6, <1>7

\* Every node stays, with the generation it was made in.
NodesStay == /\ DOMAIN nodes \subseteq DOMAIN nodes'
             /\ \A n \in DOMAIN nodes : nodes'[n].made = nodes[n].made

\* A page's closure is that of its node, and nodes stay as made.
LEMMA NodesStayKeepsPages ==
    ASSUME Pageful, NodesStay, pages' = pages PROVE Pageful'
  <1>1. \A p \in DOMAIN pages : CausallyClosed(p)'
    BY DEF Pageful, NodesStay, CausallyClosed, Depth
  <1>2. \A p \in DOMAIN pages : Typed(pages[p])'
    BY DEF Pageful, Typed, PageForm, Kinds, Rep, Location
  <1>3. DOMAIN pages' \subseteq PageId
    BY DEF Pageful
  <1> QED
    BY <1>1, <1>2, <1>3, Zenon DEF Pageful, PageId, Identity

\* Steps that touch neither pages nor leases.
LEMMA SameLeases ==
    ASSUME Leases, UNCHANGED <<pages, leases>> PROVE Leases'
  BY DEF Leases, LeasesOn

\* Steps that touch neither nodes nor retains.
LEMMA SameTree ==
    ASSUME Tree, Refs, UNCHANGED <<roots, nodes, retained>> PROVE Tree' /\ Refs' /\ NodesStay
  <1>1. roots' = roots /\ nodes' = nodes /\ retained' = retained
    OBVIOUS
  <1>2. Recounted
    BY <1>1, SameCounts, NodeForms DEF Tree, Recounted
  <1>3. Tree'
    BY <1>2, CountingKeepsTree
  <1>4. RetainPairs' = RetainPairs /\ (\A m : RetainsOver(m)' = RetainsOver(m))
    BY <1>1 DEF RetainPairs, RetainsOver, Identity
  <1>5. /\ retained' \in [Identity -> 0..MaxRetains]
        /\ \A n \in Identity : retained'[n] # 0 => n \in DOMAIN nodes'
        /\ IsFiniteSet(RetainPairs')
        /\ \A n \in DOMAIN nodes' : nodes'[n].refs = Cardinality(RetainsOver(n)')
    BY <1>1, <1>4 DEF Refs
  <1>6. Refs'
    BY <1>5, Zenon DEF Refs, Identity
  <1>7. NodesStay
    BY <1>1 DEF NodesStay
  <1> QED
    BY <1>3, <1>6, <1>7

NewPages ==
    /\ DOMAIN pages' \subseteq PageId
    /\ \A p \in DOMAIN pages' : /\ Typed(pages'[p])
                                /\ p.node \in DOMAIN nodes /\ p.end <= Depth(p.node)
                                /\ pages'[p].made = nodes[p.node].made

\* Pages described before the step are typed and closed after it.
LEMMA NewPagesArePageful == ASSUME NewPages, nodes' = nodes PROVE Pageful'
  <1>1. \A p \in DOMAIN pages' : CausallyClosed(p)'
    BY DEF NewPages, CausallyClosed, Depth
  <1>2. \A p \in DOMAIN pages' : Typed(pages[p])'
    BY DEF NewPages, Typed, PageForm, Kinds, Rep, Location
  <1>3. DOMAIN pages' \subseteq PageId
    BY DEF NewPages
  <1> QED
    BY <1>1, <1>2, <1>3, Zenon DEF Pageful, PageId, Identity

\* A step on the pages.
LEMMA PageChange ==
    ASSUME GraphInv, UNCHANGED <<roots, nodes, retained>>, Leases', NewPages, FoldTypes'
    PROVE  GraphInv'
  <1>1. Tree' /\ Refs'
    BY SameTree DEF GraphInv
  <1>2. Pageful'
    BY NewPagesArePageful
  <1> QED
    BY <1>1, <1>2 DEF GraphInv

\* A step on the nodes.
LEMMA NodeChange ==
    ASSUME GraphInv, Tree', Refs', NodesStay, UNCHANGED <<pages, leases>>, FoldTypes'
    PROVE  GraphInv'
  <1>1. Pageful'
    BY NodesStayKeepsPages DEF GraphInv
  <1>2. Leases'
    BY SameLeases DEF GraphInv
  <1> QED
    BY <1>1, <1>2 DEF GraphInv

\* One page's record is replaced.
LEMMA PageReplaced ==
    ASSUME Pageful, NEW p \in DOMAIN pages, NEW g, Typed(g), g.made = pages[p].made,
           pages' = [pages EXCEPT ![p] = g]
    PROVE  /\ NewPages
           /\ (/\ leases' = leases /\ g.active = pages[p].active
               /\ g.active # 0 => DOMAIN pages[p].reps \subseteq DOMAIN g.reps) => Unleased
  <1>1. /\ DOMAIN pages' = DOMAIN pages /\ pages'[p] = g
        /\ \A q \in DOMAIN pages : q # p => pages'[q] = pages[q]
    OBVIOUS
  <1>2. ASSUME NEW q \in DOMAIN pages'
        PROVE  /\ Typed(pages'[q])
               /\ q.node \in DOMAIN nodes /\ q.end <= Depth(q.node)
               /\ pages'[q].made = nodes[q.node].made
    <2>1. /\ Typed(pages[q]) /\ q.node \in DOMAIN nodes /\ q.end <= Depth(q.node)
          /\ pages[q].made = nodes[q.node].made
      BY <1>1, <1>2 DEF Pageful, CausallyClosed
    <2> QED
      BY <1>1, <1>2, <2>1
  <1>3. NewPages
    BY <1>1, <1>2 DEF NewPages, Pageful
  <1>4. ASSUME leases' = leases, g.active = pages[p].active,
               g.active # 0 => DOMAIN pages[p].reps \subseteq DOMAIN g.reps
        PROVE  Unleased
    BY <1>1, <1>4 DEF Unleased
  <1> QED
    BY <1>3, <1>4

\* What is recorded of a copy is a representation.
LEMMA StoredTypes ==
    /\ NotStored \in Rep
    /\ FoldTypes => \A x \in Payloads, b \in BOOLEAN :
                 [loc |-> NewLocation, payload |-> x, certified |-> b] \in Rep
    /\ FoldTypes => NewLocation \in Location
  <1>0. MaxPuts \in Nat /\ MaxGeneration \in Nat \ {0} /\ Payloads # {}
    BY StoreAssumption, GraphAssumption
  <1>1. NoLoc \in Location
    BY <1>0 DEF NoLoc, Location
  <1>2. (CHOOSE x \in Payloads : TRUE) \in Payloads
    BY <1>0
  <1>3. NotStored \in Rep
    BY <1>1, <1>2 DEF NotStored, Rep
  <1>4. FoldTypes => NewLocation \in Location
    BY <1>0 DEF FoldTypes, NewLocation, Location
  <1> QED
    BY <1>3, <1>4 DEF Rep

\* A typed page with other typed representations.
LEMMA TypedReps ==
    ASSUME NEW g, Typed(g), NEW r, DOMAIN r \subseteq Kinds, \A k \in DOMAIN r : r[k] \in Rep
    PROVE  Typed([g EXCEPT !.reps = r])
  BY WithReps DEF Typed

\* register_reference_page.
LEMMA RegistrationKeepsGraph ==
    ASSUME GraphInv, Strict, NEW p \in PageId, NEW made, RegisterReferencePage(p, made)
    PROVE  GraphInv'
  <1> DEFINE reps == [k \in {"ExactHotQ8", "ExactTokenArchive"} |-> NotStored]
             g == NewPage(made, reps)
  <1>1. /\ p \notin DOMAIN pages /\ p.node \in DOMAIN nodes /\ p.end <= Depth(p.node)
        /\ made = nodes[p.node].made
        /\ pages' = Put(pages, p, g) /\ hot' = hot \cup {p}
    BY DEF RegisterReferencePage, CanAttach, Strict, Clauses
  <1>2. UNCHANGED <<generation, roots, nodes, leases, retained, puts, entries, tailPass>>
    BY DEF RegisterReferencePage
  <1>3. /\ PageForm(g) /\ g.reps = reps /\ g.active = 0 /\ g.made = made
    BY DEF PageForm, NewPage
  <1>4. DOMAIN reps \subseteq Kinds /\ \A k \in DOMAIN reps : reps[k] \in Rep
    BY StoredTypes DEF Kinds
  <1> HIDE DEF reps, g
  <1>5. Typed(g)
    BY <1>3, <1>4 DEF Typed
  <1>6. /\ DOMAIN pages' = DOMAIN pages \cup {p} /\ pages'[p] = g
        /\ \A q \in DOMAIN pages : pages'[q] = pages[q]
    BY <1>1 DEF Put
  <1>7. NewPages
    <2>1. \A q \in DOMAIN pages :
            /\ Typed(pages[q]) /\ q.node \in DOMAIN nodes /\ q.end <= Depth(q.node)
            /\ pages[q].made = nodes[q.node].made
      BY DEF GraphInv, Pageful, CausallyClosed
    <2>2. DOMAIN pages' \subseteq PageId
      BY <1>6 DEF GraphInv, Pageful
    <2> QED
      BY <1>1, <1>3, <1>5, <1>6, <2>1, <2>2 DEF NewPages
  <1>8. Unleased
    BY <1>1, <1>2, <1>3, <1>6 DEF Unleased
  <1>9. Leases'
    BY <1>8, UnleasedKeepsLeases DEF GraphInv
  <1>10. FoldTypes'
    BY <1>1, <1>2 DEF GraphInv, FoldTypes
  <1> QED
    BY <1>2, <1>7, <1>9, <1>10, PageChange

\* A representation is added to a page, leased or not.
LEMMA AdditionKeepsPages ==
    ASSUME GraphInv, NEW p \in DOMAIN pages, NEW k \in Kinds, NEW r \in Rep,
           AddRepresentation(p, k, r), leases' = leases
    PROVE  NewPages /\ Leases'
  <1> DEFINE reps == Put(pages[p].reps, k, r)
             g == [pages[p] EXCEPT !.reps = reps]
  <1>1. Typed(pages[p])
    BY DEF GraphInv, Pageful
  <1>2. /\ DOMAIN reps = DOMAIN pages[p].reps \cup {k}
        /\ reps[k] = r
        /\ \A j \in DOMAIN pages[p].reps : j # k => reps[j] = pages[p].reps[j]
    BY DEF Put
  <1>3. pages' = [pages EXCEPT ![p] = g]
    BY DEF AddRepresentation
  <1> HIDE DEF reps
  <1>4. DOMAIN reps \subseteq Kinds /\ \A j \in DOMAIN reps : reps[j] \in Rep
    BY <1>1, <1>2 DEF Typed
  <1>5. PageForm(pages[p])
    BY <1>1 DEF Typed
  <1>6. /\ Typed(g) /\ g.reps = reps /\ g.active = pages[p].active /\ g.made = pages[p].made
    BY <1>1, <1>4, <1>5, TypedReps, WithReps
  <1> HIDE DEF g
  <1>7. NewPages /\ Unleased
    BY <1>2, <1>3, <1>6, PageReplaced DEF GraphInv
  <1> QED
    BY <1>7, UnleasedKeepsLeases DEF GraphInv

\* safe_evict of a page nobody leases.
LEMMA EvictionKeepsGraph ==
    ASSUME GraphInv, NEW p, NEW k, SafeEvict(p, k) PROVE GraphInv'
  <1> DEFINE reps == Without(pages[p].reps, k)
             g == [pages[p] EXCEPT !.reps = reps]
  <1>1. /\ p \in DOMAIN pages /\ pages[p].active = 0
        /\ pages' = [pages EXCEPT ![p] = g]
        /\ entries' = IF Stored(p, k) THEN Without(entries, p) ELSE entries
    BY DEF SafeEvict, CanEvict
  <1>2. UNCHANGED <<generation, roots, nodes, leases, retained, puts, hot, tailPass>>
    BY DEF SafeEvict
  <1>3. Typed(pages[p]) /\ PageForm(pages[p])
    BY <1>1 DEF GraphInv, Pageful, Typed
  <1>4. /\ DOMAIN reps \subseteq DOMAIN pages[p].reps
        /\ \A j \in DOMAIN reps : reps[j] = pages[p].reps[j]
    BY DEF Without
  <1> HIDE DEF reps
  <1>5. DOMAIN reps \subseteq Kinds /\ \A j \in DOMAIN reps : reps[j] \in Rep
    BY <1>3, <1>4 DEF Typed
  <1>6. /\ Typed(g) /\ g.active = 0 /\ g.active = pages[p].active /\ g.made = pages[p].made
    BY <1>1, <1>3, <1>5, TypedReps, WithReps
  <1> HIDE DEF g
  <1>7. NewPages /\ Unleased
    BY <1>1, <1>2, <1>6, PageReplaced DEF GraphInv
  <1>8. Leases'
    BY <1>7, UnleasedKeepsLeases DEF GraphInv
  <1>9. /\ DOMAIN entries' \subseteq DOMAIN entries
        /\ \A q \in DOMAIN entries' : entries'[q] = entries[q]
    BY <1>1 DEF Without
  <1>10. FoldTypes'
    BY <1>2, <1>9 DEF GraphInv, FoldTypes
  <1> QED
    BY <1>2, <1>7, <1>8, <1>10, PageChange

\* A step on neither nodes nor pages.
LEMMA QuietKeepsGraph ==
    ASSUME GraphInv, UNCHANGED <<roots, nodes, retained, pages, leases>>, FoldTypes' PROVE GraphInv'
  <1>1. Tree' /\ Refs' /\ NodesStay
    BY SameTree DEF GraphInv
  <1> QED
    BY <1>1, NodeChange

\* persist_latent_page, persist_lossless_page.
LEMMA PersistKeepsGraph ==
    ASSUME GraphInv, NEW p \in PageId, NEW k \in Kinds, NEW x \in Payloads, NEW b \in BOOLEAN,
           Persist(p, k, x, b)
    PROVE  GraphInv'
  <1> DEFINE r == [loc |-> NewLocation, payload |-> x, certified |-> b]
             e == [loc |-> NewLocation, payload |-> x]
  <1>1. /\ puts < MaxPuts /\ puts' = puts + 1
        /\ UNCHANGED <<generation, roots, nodes, leases, retained, hot, tailPass>>
    BY DEF Persist
  <1>2. puts' \in 0..MaxPuts
    BY <1>1, StoreAssumption DEF GraphInv, FoldTypes
  <1>3. r \in Rep /\ e \in [loc : Location, payload : Payloads]
    BY StoredTypes DEF GraphInv
  <1>4. CASE p \in DOMAIN pages
    <2>1. AddRepresentation(p, k, r) /\ entries' = Put(entries, p, e)
      BY <1>4 DEF Persist
    <2> HIDE DEF r, e
    <2>2. NewPages /\ Leases'
      BY <1>1, <1>3, <1>4, <2>1, AdditionKeepsPages
    <2>3. /\ DOMAIN entries' = DOMAIN entries \cup {p}
          /\ \A q \in DOMAIN entries' : entries'[q] = e \/ (q \in DOMAIN entries /\ entries'[q] = entries[q])
      BY <2>1 DEF Put
    <2>4. FoldTypes
      BY DEF GraphInv
    <2>5. DOMAIN entries' \subseteq PageId
      BY <2>3, <2>4 DEF FoldTypes
    <2>6. \A q \in DOMAIN entries' : entries'[q] \in [loc : Location, payload : Payloads]
      BY <1>3, <2>3, <2>4 DEF FoldTypes
    <2>7. FoldTypes'
      BY <1>1, <1>2, <2>4, <2>5, <2>6 DEF FoldTypes
    <2> QED
      BY <1>1, <2>2, <2>7, PageChange
  <1>5. CASE p \notin DOMAIN pages
    <2>1. pages' = pages /\ entries' = Without(entries, p)
      BY <1>5 DEF Persist
    <2>2. /\ DOMAIN entries' \subseteq DOMAIN entries
          /\ \A q \in DOMAIN entries' : entries'[q] = entries[q]
      BY <2>1 DEF Without
    <2>3. FoldTypes'
      BY <1>1, <1>2, <2>2 DEF GraphInv, FoldTypes
    <2> QED
      BY <1>1, <2>1, <2>3, QuietKeepsGraph
  <1> QED
    BY <1>4, <1>5

\* The orchestrator's calls on one page.
LEMMA PageStepKeepsGraph ==
    ASSUME GraphInv, Strict, NEW p \in PageId, PageStep(p) PROVE GraphInv'
  <1>1. ASSUME NEW g, RegisterReferencePage(p, g) PROVE GraphInv'
    BY <1>1, RegistrationKeepsGraph
  <1>2. ASSUME NEW x \in Payloads, NEW b \in BOOLEAN, PersistLatentPage(p, x, b) PROVE GraphInv'
    BY <1>2, PersistKeepsGraph DEF PersistLatentPage, Kinds
  <1>3. ASSUME NEW x \in Payloads, PersistLosslessPage(p, x) PROVE GraphInv'
    BY <1>3, PersistKeepsGraph DEF PersistLosslessPage, Kinds
  <1>4. ASSUME NEW b, MarkPage(p, b) PROVE GraphInv'
    <2>1. UNCHANGED <<generation, roots, nodes, pages, leases, retained, puts, entries, tailPass>>
      BY <1>4 DEF MarkPage, gvars
    <2>2. hot' \subseteq PageId
      <3>1. hot \subseteq PageId /\ p \in PageId
        BY Zenon DEF GraphInv, FoldTypes
      <3>2. hot' \subseteq hot \cup {p}
        BY <1>4 DEF MarkPage
      <3> QED
        BY <3>1, <3>2
    <2>3. FoldTypes'
      BY <2>1, <2>2 DEF GraphInv, FoldTypes
    <2> QED
      BY <2>1, <2>3, QuietKeepsGraph
  <1>5. ASSUME PromoteWarm(p) PROVE GraphInv'
    <2>1. /\ p \in DOMAIN pages /\ AddRepresentation(p, "ReconstructedWarm", NotStored)
          /\ UNCHANGED <<generation, roots, nodes, leases, retained, puts, entries, hot, tailPass>>
      BY <1>5 DEF PromoteWarm
    <2>2. "ReconstructedWarm" \in Kinds /\ NotStored \in Rep
      BY StoredTypes DEF Kinds
    <2>3. NewPages /\ Leases'
      BY <2>1, <2>2, AdditionKeepsPages
    <2>4. FoldTypes'
      BY <2>1 DEF GraphInv, FoldTypes
    <2> QED
      BY <2>1, <2>3, <2>4, PageChange
  <1>6. ASSUME NEW k, SafeEvict(p, k) PROVE GraphInv'
    BY <1>6, EvictionKeepsGraph
  <1> QED
    BY <1>1, <1>2, <1>3, <1>4, <1>5, <1>6, Zenon DEF PageStep

\* The lease actions change nothing of a page but its count.
LEMMA CountedPages ==
    ASSUME Pageful, NEW p \in DOMAIN pages, NEW v, pages' = [pages EXCEPT ![p].active = v]
    PROVE  NewPages
  <1> DEFINE g == [pages[p] EXCEPT !.active = v]
  <1>1. Typed(pages[p]) /\ PageForm(pages[p])
    BY DEF Pageful, Typed
  <1>2. PageForm(g) /\ g.reps = pages[p].reps /\ g.made = pages[p].made
    BY <1>1, CountingKeepsForm
  <1>3. pages' = [pages EXCEPT ![p] = g]
    OBVIOUS
  <1> HIDE DEF g
  <1>4. Typed(g)
    BY <1>1, <1>2 DEF Typed
  <1> QED
    BY <1>2, <1>3, <1>4, PageReplaced

\* The graph's own calls.
LEMMA GraphStepKeepsGraph == ASSUME GraphInv, Strict, GraphStep PROVE GraphInv'
  <1>0. UNCHANGED <<puts, entries, hot, tailPass>>
    BY DEF GraphStep
  <1>g. generation \in 1..MaxGeneration /\ MaxGeneration \in Nat
    BY GraphAssumption DEF GraphInv, FoldTypes
  <1>f. \A q \in DOMAIN pages : PageForm(pages[q])
    BY DEF GraphInv, Pageful, Typed
  <1>r. UNCHANGED <<generation, leases>> => FoldTypes'
    BY <1>0 DEF GraphInv, FoldTypes
  <1>1. ASSUME NEW o \in Origins, InsertRoot(o) PROVE GraphInv'
    <2>1. Tree' /\ Added([origin |-> o, tokens |-> <<>>])
      BY <1>1, <1>g, RootKeepsTree DEF GraphInv
    <2>2. UNCHANGED <<generation, pages, leases, retained>>
      BY <1>1 DEF InsertRoot
    <2>3. Refs'
      BY <2>1, <2>2, AddedKeepsRefs DEF GraphInv
    <2>4. NodesStay
      BY <2>1 DEF Added, NodesStay
    <2> QED
      BY <1>r, <2>1, <2>2, <2>3, <2>4, NodeChange
  <1>2. ASSUME AdvanceGeneration PROVE GraphInv'
    <2>1. /\ generation < MaxGeneration /\ generation' = generation + 1
          /\ UNCHANGED <<roots, nodes, pages, leases, retained>>
      BY <1>2 DEF AdvanceGeneration
    <2>2. generation' \in 1..MaxGeneration
      BY <1>g, <2>1
    <2>3. FoldTypes'
      BY <1>0, <2>1, <2>2 DEF GraphInv, FoldTypes
    <2> QED
      BY <2>1, <2>3, QuietKeepsGraph
  <1>3. ASSUME NEW n \in DOMAIN nodes, NEW t \in Tokens, NEW o \in Origins, Extend(n, t, o)
        PROVE  GraphInv'
    <2>1. Tree' /\ Added([origin |-> o, tokens |-> Append(n.tokens, t)])
      BY <1>3, <1>g, ExtendKeepsTree DEF GraphInv
    <2>2. UNCHANGED <<generation, pages, leases, retained>>
      BY <1>3 DEF Extend
    <2>3. Refs'
      BY <2>1, <2>2, AddedKeepsRefs DEF GraphInv
    <2>4. NodesStay
      BY <2>1 DEF Added, NodesStay
    <2> QED
      BY <1>r, <2>1, <2>2, <2>3, <2>4, NodeChange
  <1>4. ASSUME NEW n \in DOMAIN nodes, RetainPrefix(n) \/ ReleasePrefix(n) PROVE GraphInv'
    <2>1. Recounted /\ Refs' /\ \A m \in DOMAIN nodes : nodes'[m].made = nodes[m].made
      BY <1>4, RetainKeepsRefs, ReleaseKeepsRefs DEF GraphInv
    <2>2. UNCHANGED <<generation, pages, leases>>
      BY <1>4 DEF RetainPrefix, ReleasePrefix
    <2>3. Tree'
      BY <2>1, CountingKeepsTree DEF GraphInv
    <2>4. NodesStay
      BY <2>1 DEF Recounted, NodesStay
    <2> QED
      BY <1>r, <2>1, <2>2, <2>3, <2>4, NodeChange
  <1>5. ASSUME NEW id \in DOMAIN leases, ReleaseLease(id) PROVE GraphInv'
    <2>1. Leases'
      BY <1>5, <1>f, ReleaseKeepsLeases DEF GraphInv
    <2>2. /\ UNCHANGED <<generation, roots, nodes, retained>>
          /\ leases' = Without(leases, id)
      BY <1>5 DEF ReleaseLease
    <2>3. id.page \in DOMAIN pages /\ pages[id.page].active # 0
      <3>1. id.page \in DOMAIN pages /\ id \in LeasesOn(id.page)
        BY DEF GraphInv, Leases, LeasesOn
      <3> QED
        BY <3>1, LeasesOnFinite DEF GraphInv, Leases
    <2>4. pages' = [pages EXCEPT ![id.page].active = pages[id.page].active - 1]
      BY <1>5, <2>3 DEF ReleaseLease
    <2>5. NewPages
      BY <2>3, <2>4, CountedPages DEF GraphInv
    <2>6. DOMAIN leases' \subseteq DOMAIN leases
      BY <2>2 DEF Without
    <2>7. FoldTypes'
      BY <1>0, <2>2, <2>6 DEF GraphInv, FoldTypes
    <2> QED
      BY <2>1, <2>2, <2>5, <2>7, PageChange
  <1>6. ASSUME NEW p \in DOMAIN pages, NEW k \in Kinds, NEW o \in Owners, Lease(p, k, o, generation)
        PROVE  GraphInv'
    <2> DEFINE id == [page |-> p, owner |-> o, generation |-> generation]
    <2>1. Leases'
      BY <1>6, <1>f, LeaseKeepsLeases DEF GraphInv
    <2>2. /\ UNCHANGED <<generation, roots, nodes, retained>>
          /\ leases' = Put(leases, id, k)
          /\ pages' = [pages EXCEPT ![p].active = pages[p].active + 1]
      BY <1>6 DEF Lease
    <2>3. id \in LeaseId
      BY <1>g DEF LeaseId, GraphInv, Pageful
    <2> HIDE DEF id
    <2>4. NewPages
      BY <2>2, CountedPages DEF GraphInv
    <2>5. DOMAIN leases' = DOMAIN leases \cup {id}
      BY <2>2 DEF Put
    <2>6. FoldTypes'
      BY <1>0, <2>2, <2>3, <2>5 DEF GraphInv, FoldTypes
    <2> QED
      BY <2>1, <2>2, <2>4, <2>6, PageChange
  <1> QED
    BY <1>1, <1>2, <1>3, <1>4, <1>5, <1>6, Zenon DEF GraphStep

\* Every step of the two KV parts.
LEMMA KvStepKeepsGraph ==
    ASSUME GraphInv, Strict, GraphPart \/ FNext \/ UNCHANGED fvars PROVE GraphInv'
  <1>p. \A n \in DOMAIN nodes, e \in 1..MaxDepth : [node |-> n, end |-> e] \in PageId
    BY DEF PageId, GraphInv, Tree
  <1>1. ASSUME GraphPart PROVE GraphInv'
    BY <1>1, <1>p, GraphStepKeepsGraph, RegistrationKeepsGraph, EvictionKeepsGraph, Zenon
      DEF GraphPart
  <1>2. ASSUME NEW b \in BOOLEAN, SetTailProbe(b) PROVE GraphInv'
    <2>1. /\ tailPass' = b
          /\ UNCHANGED <<generation, roots, nodes, pages, leases, retained, puts, entries, hot>>
      BY <1>2 DEF SetTailProbe, gvars
    <2>2. FoldTypes'
      BY <2>1 DEF GraphInv, FoldTypes
    <2> QED
      BY <2>1, <2>2, QuietKeepsGraph
  <1>3. ASSUME NEW c, NEW w, SetRecentHot(c, w) PROVE GraphInv'
    <2>1. UNCHANGED <<generation, roots, nodes, pages, leases, retained, puts, entries, tailPass>>
      BY <1>3 DEF SetRecentHot, gvars
    <2>2. hot' \subseteq PageId
      BY <1>3 DEF SetRecentHot, GraphInv, FoldTypes, Pageful
    <2>3. FoldTypes'
      BY <2>1, <2>2 DEF GraphInv, FoldTypes
    <2> QED
      BY <2>1, <2>3, QuietKeepsGraph
  <1>4. ASSUME FNext PROVE GraphInv'
    BY <1>2, <1>3, <1>4, <1>p, GraphStepKeepsGraph, PageStepKeepsGraph, Zenon DEF FNext
  <1>5. ASSUME UNCHANGED fvars PROVE GraphInv'
    <2>1. UNCHANGED <<generation, roots, nodes, pages, leases, retained, puts, entries, hot, tailPass>>
      BY <1>5 DEF fvars, gvars
    <2>2. FoldTypes'
      BY <2>1 DEF GraphInv, FoldTypes
    <2> QED
      BY <2>1, <2>2, QuietKeepsGraph
  <1> QED
    BY <1>1, <1>4, <1>5

\* new: an empty graph and store.
LEMMA GraphStarts == FInit => GraphInv
  <1> SUFFICES ASSUME FInit PROVE GraphInv
    OBVIOUS
  <1>1. /\ generation = 1 /\ roots = {} /\ DOMAIN nodes = {} /\ DOMAIN pages = {}
        /\ DOMAIN leases = {} /\ retained = [n \in Identity |-> 0]
        /\ puts = 0 /\ DOMAIN entries = {} /\ hot = {} /\ tailPass = TRUE
    BY DEF FInit, GInit
  <1>2. MaxRetains \in Nat /\ MaxGeneration \in Nat \ {0} /\ MaxPuts \in Nat
    BY GraphAssumption, StoreAssumption
  <1>3. Tree
    BY <1>1 DEF Tree
  <1>4. RetainPairs = {}
    BY <1>1 DEF RetainPairs
  <1>5. Refs
    BY <1>1, <1>2, <1>4, FS_EmptySet DEF Refs
  <1>6. Leases
    BY <1>1, FS_EmptySet DEF Leases
  <1>7. Pageful /\ FoldTypes
    BY <1>1, <1>2 DEF Pageful, FoldTypes
  <1> QED
    BY <1>3, <1>5, <1>6, <1>7 DEF GraphInv

\* graph.rs under callers that keep the contract: every node is found along
\* its own tokens and stays the node it was, a reference count is the number
\* of retains over the node, and a page under lease keeps what is leased.
THEOREM GraphStaysSound == Contract = Clauses => (MCSpec => []GraphSound)
  <1> SUFFICES ASSUME Strict PROVE MCSpec => []GraphSound
    BY DEF Strict
  <1>1. MCInit => GraphInv
    BY GraphStarts DEF MCInit
  <1>2. GraphInv /\ [MCNext]_mvars => GraphInv'
    BY KvStepKeepsGraph, Zenon DEF MCNext, KvNext, mvars
  <1>3. GraphInv => GraphSound
    BY GraphInvIsSound DEF GraphSound
  <1> QED
    BY <1>1, <1>2, <1>3, PTL DEF MCSpec

\* A kind that may be used as it is is selected, or one before it: then
\* attention is not left without a page.
LEMMA UsableIsSelected ==
    ASSUME NEW p, NEW required, NEW k \in DOMAIN pages[p].reps,
           \/ k \in {"ExactTokenArchive", "LosslessColdPage"}
           \/ k = "ExactHotQ8" /\ p \in hot
    PROVE  Select(p, required) # "NoQualityAuthorized"
  <1> DEFINE K == DOMAIN pages[p].reps
             Usable(j) == /\ j \in K
                          /\ IF j = "ExactHotQ8" THEN p \in hot ELSE tailPass
                          /\ j = "ReconstructedWarm" => ~required
                          /\ j = "ContextFoldLatent" => LatentAllowed(p, required)
             U == {i \in DOMAIN Preference : Usable(Preference[i])}
             s == Select(p, required)
  <1>1. s = IF U # {} THEN Preference[Min(U)]
            ELSE IF ~tailPass \/ "ExactTokenArchive" \in K THEN "Fallback"
            ELSE "NoQualityAuthorized"
    BY Zenon DEF Select
  <1>2. U \in SUBSET (1..4)
    BY DEF Preference
  <1>3. \A i \in 1..4 : Preference[i] # "NoQualityAuthorized"
    BY DEF Preference
  <1>4. U # {} => Min(U) \in 1..4
    <2> HIDE DEF U
    <2> QED
      BY <1>2, LeastOfFour
  <1>5. U # {} \/ ~tailPass \/ "ExactTokenArchive" \in K
    <2>1. Preference[1] = "ExactHotQ8" /\ Preference[4] = "LosslessColdPage"
          /\ DOMAIN Preference = 1..4
      BY DEF Preference
    <2>2. CASE k = "ExactHotQ8" /\ p \in hot
      <3>1. Usable("ExactHotQ8")
        BY <2>2
      <3>2. 1 \in U
        BY <2>1, <3>1
      <3> QED
        BY <3>2
    <2>3. CASE k = "LosslessColdPage" /\ tailPass
      <3>1. Usable("LosslessColdPage")
        BY <2>3
      <3>2. 4 \in U
        BY <2>1, <3>1
      <3> QED
        BY <3>2
    <2> QED
      BY <2>2, <2>3
  <1> HIDE DEF U, s
  <1>6. s # "NoQualityAuthorized"
    BY <1>1, <1>3, <1>4, <1>5
  <1> QED
    BY <1>6 DEF s

\* contextfold's store.rs and orchestrator.rs over the memory store, for
\* callers that keep the graph's contract: what is read back as a
\* representation is what was persisted as it, an entry is at the location
\* of a representation of its page, and a lease on an exact copy keeps
\* attention served.
THEOREM StoresStaySound == ~FileStore /\ Contract = Clauses => (MCSpec => []StoresSound)
  <1> SUFFICES ASSUME Memory, Strict PROVE MCSpec => []StoresSound
    BY DEF Memory, Strict, Clauses
  <1>1. MCInit => StoreInv /\ GraphInv
    BY StoreAssumption, GraphStarts
      DEF MCInit, FInit, GInit, StoreInv, NothingOrphaned, LoadsOwnPayload
  <1>2. StoreInv /\ [MCNext]_mvars => StoreInv'
    BY KvStepKeepsStores, Zenon DEF MCNext, KvNext, mvars
  <1>3. GraphInv /\ [MCNext]_mvars => GraphInv'
    BY KvStepKeepsGraph, Zenon DEF MCNext, KvNext, mvars
  <1>4. GraphInv => AttentionServed
    BY UsableIsSelected DEF AttentionServed, GraphInv, Leases
  <1>5. StoreInv /\ GraphInv => StoresSound
    BY <1>4 DEF StoreInv, StoresSound
  <1> QED
    BY <1>1, <1>2, <1>3, <1>5, PTL DEF MCSpec

===============================================================================
