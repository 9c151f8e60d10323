------------------------------ MODULE Manifest ------------------------------
(***************************************************************************)
(* CapabilityManifest (src/src/capability/manifest.rs): bit sets of tool,  *)
(* resource and prompt ids, kept in words of WordBits bits.  An id too     *)
(* large for its set is ignored when set and absent when asked for.        *)
(* Version and signature are carried along and left out here.              *)
(***************************************************************************)
EXTENDS Naturals

CONSTANTS
    WordBits,                                \* 64 in the code
    ToolWords, ResourceWords, PromptWords    \* 128, 16 and 8 in the code

ASSUME ManifestAssumption ==
    /\ WordBits \in Nat \ {0}
    /\ ToolWords \in Nat \ {0} /\ ResourceWords \in Nat \ {0} /\ PromptWords \in Nat \ {0}

MAX_TOOLS     == ToolWords * WordBits
MAX_RESOURCES == ResourceWords * WordBits
MAX_PROMPTS   == PromptWords * WordBits

NoBits(n)    == [w \in 0 .. n - 1 |-> {}]

\* has_tool, has_resource, has_prompt.
HasBit(bits, n, id) == id < n * WordBits /\ (id % WordBits) \in bits[id \div WordBits]

\* tool_count, resource_count, prompt_count are only compared with zero.
AnyBit(bits) == \E w \in DOMAIN bits : bits[w] # {}

AndBits(a, b) == [w \in DOMAIN a |-> a[w] \cap b[w]]

NewManifest == [tools |-> NoBits(ToolWords), resources |-> NoBits(ResourceWords),
                prompts |-> NoBits(PromptWords)]

Intersect(m, o) == [tools     |-> AndBits(m.tools, o.tools),
                    resources |-> AndBits(m.resources, o.resources),
                    prompts   |-> AndBits(m.prompts, o.prompts)]

HasTool(m, id)     == HasBit(m.tools, ToolWords, id)
HasResource(m, id) == HasBit(m.resources, ResourceWords, id)
HasPrompt(m, id)   == HasBit(m.prompts, PromptWords, id)

\* The manifest whose bit sets hold the given ids.
WithIds(tools, resources, prompts) ==
    LET bits(n, ids) == [w \in 0 .. n - 1 |->
                           {b \in 0 .. WordBits - 1 : w * WordBits + b \in ids}]
    IN  [tools |-> bits(ToolWords, tools), resources |-> bits(ResourceWords, resources),
         prompts |-> bits(PromptWords, prompts)]
=============================================================================
