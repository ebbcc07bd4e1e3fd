-------------------------------- MODULE Vram --------------------------------
(***************************************************************************)
(* libvram: memory of a graphics card as an allocator.  The constructor    *)
(* sets Vulkan up in three steps, each of which may throw; every           *)
(* allocation is one Vulkan buffer bound to one piece of device memory.    *)
(* Vulkan itself is external: its calls return what they may return.       *)
(***************************************************************************)
EXTENDS Integers, Sequences, FiniteSets

CONSTANTS
  Hosts,        \* the machines: sequences of physical devices
  MaxBuffers    \* bound: calls of libvram::malloc

(* A physical device has its queue families (whether each does graphics),  *)
(* whether it has the swapchain extension, and its memory types (whether   *)
(* each is host visible, host coherent and device local).                  *)

VARIABLES
  host,         \* what vkEnumeratePhysicalDevices lists
  vstage,       \* how far initVulkan got
  gpu,          \* physicalDevice, an index into host, or 0
  family,       \* index of the queue family of graphicsQueue, from 0
  memtype,      \* memory type of the last allocation, from 0, or -1
  made,         \* buffers that vkCreateBuffer returned
  allocated,    \* buffers with device memory behind them
  buffers,      \* this->buffers
  memories,     \* this->bufferMemories, each by the buffer it is bound to
  thrown        \* calls of malloc that threw

vrvars == <<host, vstage, gpu, family, memtype, made, allocated, buffers, memories, thrown>>

NOTFOUND == -1

\* the first index, from 0, at which a sequence of Booleans is true
FirstTrue(s) ==
  IF \E i \in DOMAIN s : s[i]
  THEN (CHOOSE i \in DOMAIN s : s[i] /\ \A j \in 1..(i - 1) : ~ s[j]) - 1
  ELSE NOTFOUND

findQueueFamilies(d) == FirstTrue(d.families)
checkDeviceExtensionSupport(d) == d.swapchain
isDeviceSuitable(d) == findQueueFamilies(d) # NOTFOUND /\ checkDeviceExtensionSupport(d)
findMemoryType(d, filter) == FirstTrue([i \in DOMAIN d.types |-> i \in filter /\ d.types[i]])

VrInit ==
  /\ host = <<>> /\ vstage = "start" /\ gpu = 0 /\ family = NOTFOUND /\ memtype = NOTFOUND
  /\ made = {} /\ allocated = {} /\ buffers = <<>> /\ memories = <<>> /\ thrown = 0

\* vkCreateInstance may fail; the devices of the machine become known
createInstance ==
  /\ vstage = "start"
  /\ host' \in Hosts
  /\ vstage' \in {"instance", "failed"}
  /\ UNCHANGED <<gpu, family, memtype, made, allocated, buffers, memories, thrown>>

pickPhysicalDevice ==
  /\ vstage = "instance"
  /\ gpu' = FirstTrue([i \in DOMAIN host |-> isDeviceSuitable(host[i])]) + 1
  /\ vstage' = IF gpu' = 0 THEN "failed" ELSE "picked"
  /\ UNCHANGED <<host, family, memtype, made, allocated, buffers, memories, thrown>>

\* vkCreateDevice may fail
createLogicalDevice ==
  /\ vstage = "picked"
  /\ \/ vstage' = "ready" /\ family' = findQueueFamilies(host[gpu])
     \/ vstage' = "failed" /\ UNCHANGED family
  /\ UNCHANGED <<host, gpu, memtype, made, allocated, buffers, memories, thrown>>

NewBuffer == Cardinality(made) + 1

\* malloc: a buffer, memory of a suitable type, the mapping, and only then the
\* two vectors; an exception on the way leaves what was made before it
createVertexBuffer_PushEarly(ok) ==
  LET b == NewBuffer
  IN  /\ vstage = "ready" /\ thrown + Len(buffers) < MaxBuffers
      /\ made' = made \cup {b}
      /\ buffers' = Append(buffers, b)
      /\ memtype' = findMemoryType(host[gpu], DOMAIN host[gpu].types)
      /\ allocated' = IF ok THEN allocated \cup {b} ELSE allocated
      /\ memories' = IF ok THEN Append(memories, b) ELSE memories
      /\ thrown' = IF ok THEN thrown ELSE thrown + 1
      /\ UNCHANGED <<host, vstage, gpu, family>>
createVertexBuffer(ok) ==
  /\ vstage = "ready" /\ thrown + Len(buffers) < MaxBuffers
  /\ \E filter \in (SUBSET DOMAIN host[gpu].types) \ {{}} :
       LET b == NewBuffer
           m == findMemoryType(host[gpu], filter)
       IN  \/ \* vkCreateBuffer failed
              /\ ~ ok /\ UNCHANGED <<made, allocated, buffers, memories, memtype>>
           \/ \* no such type, or vkAllocateMemory failed
              /\ ~ ok /\ made' = made \cup {b} /\ memtype' = m
              /\ UNCHANGED <<allocated, buffers, memories>>
           \/ \* vkMapMemory failed
              /\ ~ ok /\ m # NOTFOUND /\ made' = made \cup {b} /\ memtype' = m
              /\ allocated' = allocated \cup {b} /\ UNCHANGED <<buffers, memories>>
           \/ /\ ok /\ m # NOTFOUND /\ made' = made \cup {b} /\ memtype' = m
              /\ allocated' = allocated \cup {b}
              /\ buffers' = Append(buffers, b) /\ memories' = Append(memories, b)
  /\ thrown' = IF ok THEN thrown ELSE thrown + 1
  /\ UNCHANGED <<host, vstage, gpu, family>>

VrSetup == createInstance \/ pickPhysicalDevice \/ createLogicalDevice

-----------------------------------------------------------------------------
(* Properties.                                                             *)

\* What cleanup() would walk is consistent whatever call of createVertexBuffer
\* threw and where: the i-th memory backs the i-th buffer, every listed buffer
\* has memory, and the only buffers that are not listed are those of calls that
\* threw.
VramPaired ==
  /\ buffers = memories
  /\ \A i \in DOMAIN buffers : buffers[i] \in allocated
  /\ allocated \subseteq made
  /\ Cardinality(made) - Len(buffers) <= thrown
=============================================================================
