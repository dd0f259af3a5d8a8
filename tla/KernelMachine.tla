--------------------------- MODULE KernelMachine ---------------------------
(***************************************************************************)
(* What the instructions that Analyzer visits really do when a kernel runs *)
(* them: the meaning LLVM gives to pointers, stack slots and casts, and    *)
(* the kernel to kmalloc, kfree, dma_alloc_coherent and interrupts.  None  *)
(* of it is in the repository; it is the yardstick for the verdicts.       *)
(*                                                                         *)
(* A value is <<"obj", object, offset>>, an address in a heap object, as a *)
(* pointer or as an integer; <<"slot", name, offset>>, an address in a     *)
(* stack slot; or Data: anything else, a pointer to somebody else's valid  *)
(* memory included.                                                        *)
(***************************************************************************)
EXTENDS Integers, Sequences

VARIABLES
    value,          \* value[n]: the value of name n in the running function
    slot,           \* slot[n]: the content of the stack slot n
    cell,           \* the pointers kept in heap objects, by object and offset
    object,         \* the sizes of the heap objects
    dead,           \* the objects that were freed
    dma_objects,    \* the objects from dma_alloc_coherent
    unpaired,       \* those of them no iommu_map was made for
    hazard          \* the errors so far: "oob", "uaf", "double_free", "overflow"

machineVars == <<value, slot, cell, object, dead, dma_objects, unpaired, hazard>>

Data == <<"data">>
IsObj(v) == v[1] = "obj"
IsSlot(v) == v[1] = "slot"

MachineInit(names) ==
    /\ value = [n \in names |-> Data]
    /\ slot = [n \in names |-> Data]
    /\ cell = <<>>
    /\ object = <<>>
    /\ dead = {} /\ dma_objects = {} /\ unpaired = {}
    /\ hazard = {}

\* The value of an operand.
Eval(op) == IF op[1] = "local" THEN value[op[2]] ELSE Data

\* Address arithmetic is modulo m; an offset is the distance to the object, either way.
Wrapped(x, m) == IF 2 * (x % m) >= m THEN (x % m) - m ELSE x % m
Shift(v, by, m) == IF v = Data THEN Data ELSE <<v[1], v[2], Wrapped(v[3] + by, m)>>

\* The errors of an access of n bytes at v.
Errors(v, n) ==
    IF ~IsObj(v) THEN {}
    ELSE (IF v[2] \in dead THEN {"uaf"} ELSE {})
         \cup (IF v[3] < 0 \/ v[3] + n > object[v[2]] THEN {"oob"} ELSE {})

Define(name, v) == value' = [value EXCEPT ![name] = v]

RunNothing == UNCHANGED machineVars

RunDefine(name, v) ==
    /\ Define(name, v)
    /\ UNCHANGED <<slot, cell, object, dead, dma_objects, unpaired, hazard>>

RunAllocate(name, size, dma) ==
    /\ object' = Append(object, size)
    /\ Define(name, <<"obj", Len(object) + 1, 0>>)
    /\ LET new == IF dma THEN {Len(object) + 1} ELSE {}
       IN  /\ dma_objects' = dma_objects \cup new
           /\ unpaired' = unpaired \cup new
    /\ UNCHANGED <<slot, cell, dead, hazard>>

\* kcalloc whose product does not fit returns NULL.
RunOverflow(name) ==
    /\ Define(name, Data)
    /\ hazard' = hazard \cup {"overflow"}
    /\ UNCHANGED <<slot, cell, object, dead, dma_objects, unpaired>>

RunFree(v) ==
    /\ dead' = dead \cup (IF IsObj(v) THEN {v[2]} ELSE {})
    /\ hazard' = hazard \cup (IF IsObj(v) /\ v[2] \in dead THEN {"double_free"} ELSE {})
    /\ UNCHANGED <<value, slot, cell, object, dma_objects, unpaired>>

\* An access by memset, memcpy or a device: the bytes at each of the addresses.
RunAccess(addresses, n) ==
    /\ hazard' = hazard \cup UNION {Errors(v, n) : v \in addresses}
    /\ UNCHANGED <<value, slot, cell, object, dead, dma_objects, unpaired>>

RunStore(addr, v, n) ==
    /\ hazard' = hazard \cup Errors(addr, n)
    /\ slot' = IF IsSlot(addr) /\ addr[3] = 0 THEN [slot EXCEPT ![addr[2]] = v] ELSE slot
    /\ cell' = IF IsObj(addr)
               THEN [a \in DOMAIN cell \cup {addr} |-> IF a = addr THEN v ELSE cell[a]]
               ELSE cell
    /\ UNCHANGED <<value, object, dead, dma_objects, unpaired>>

RunLoad(name, addr, n) ==
    /\ hazard' = hazard \cup Errors(addr, n)
    /\ Define(name, IF IsSlot(addr) /\ addr[3] = 0 THEN slot[addr[2]]
                    ELSE IF addr \in DOMAIN cell THEN cell[addr]
                    ELSE Data)
    /\ UNCHANGED <<slot, cell, object, dead, dma_objects, unpaired>>

\* iommu_map maps one range: one of the buffers.
RunIommuMap ==
    /\ IF unpaired = {} THEN UNCHANGED unpaired ELSE \E o \in unpaired : unpaired' = unpaired \ {o}
    /\ UNCHANGED <<value, slot, cell, object, dead, dma_objects, hazard>>

\* A fresh call of the next function: new names, new slots.
RunCall ==
    /\ value' = [n \in DOMAIN value |-> Data]
    /\ slot' = [n \in DOMAIN slot |-> Data]
    /\ UNCHANGED <<cell, object, dead, dma_objects, unpaired, hazard>>

\* An interrupt handler frees an object.
Interrupt(o) ==
    /\ o \in DOMAIN object
    /\ dead' = dead \cup {o}
    /\ UNCHANGED <<value, slot, cell, object, dma_objects, unpaired, hazard>>
=============================================================================
