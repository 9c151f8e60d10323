------------------------------ MODULE Context ------------------------------
(***************************************************************************)
(* DcpContext (src/src/context/mod.rs): a block of memory with a slot for  *)
(* the state of each tool.  A slot is free when its tool id is 0.  Slots   *)
(* are written by tool id (set_tool_state) or by index (update_tool_state, *)
(* clear_tool_state); the writers take &mut self, so that calls follow one *)
(* another.  The bytes of a state are one value.                           *)
(***************************************************************************)
EXTENDS Naturals, FiniteSets, FiniteSetsExt

CONSTANTS
    MAX_TOOL_STATES,
    ContextTools,     \* tool ids; 0 may be one of them
    ContextData,
    MaxContextOps     \* bound: calls

ASSUME ContextAssumption == MAX_TOOL_STATES \in Nat

VARIABLES
    tool_states,      \* index -> [tool_id, data]
    message_count,
    ops,              \* calls so far
    last_set,         \* history: tool -> what set_tool_state stored last, or NoData
    by_index          \* history: tools whose slots were also written by index

contextVars == <<tool_states, message_count, ops, last_set, by_index>>

NoData == "none"
EmptyState == [tool_id |-> 0, data |-> NoData]
Slots == 0 .. MAX_TOOL_STATES - 1

ContextInit ==
    /\ tool_states = [i \in Slots |-> EmptyState]
    /\ message_count = 0 /\ ops = 0
    /\ last_set = [t \in ContextTools |-> NoData] /\ by_index = {}

SlotsOf(tool) == {i \in Slots : tool_states[i].tool_id = tool}

\* find_tool_state: the first slot of the tool.
FindToolState(tool) ==
    IF SlotsOf(tool) = {} THEN NoData ELSE tool_states[Min(SlotsOf(tool))].data

\* Mutant: the first slot that is free or has the tool is taken.
SlotForFirstFit(tool) ==
    LET fits == SlotsOf(tool) \cup SlotsOf(0)
    IN  IF fits = {} THEN {} ELSE {Min(fits)}

\* set_tool_state: the slot of the tool, else the first free one, else none.
SlotFor(tool) ==
    IF SlotsOf(tool) # {} THEN {Min(SlotsOf(tool))}
    ELSE IF SlotsOf(0) # {} THEN {Min(SlotsOf(0))} ELSE {}

Called == ops < MaxContextOps /\ ops' = ops + 1

SetToolState(tool, data) ==
    /\ Called
    /\ IF SlotFor(tool) = {}
       THEN UNCHANGED <<tool_states, last_set>>
       ELSE /\ tool_states' = [i \in Slots |-> IF i \in SlotFor(tool)
                                               THEN [tool_id |-> tool, data |-> data] ELSE tool_states[i]]
            /\ last_set' = [last_set EXCEPT ![tool] = data]
    /\ UNCHANGED <<message_count, by_index>>

\* update_tool_state; an index out of bounds is refused.
UpdateToolState(index, state) ==
    /\ Called
    /\ index \in Slots
    /\ tool_states' = [tool_states EXCEPT ![index] = state]
    /\ by_index' = by_index \cup ({state.tool_id, tool_states[index].tool_id} \ {0})
    /\ UNCHANGED <<message_count, last_set>>

\* clear_tool_state
ClearToolState(index) ==
    /\ Called
    /\ index \in Slots
    /\ tool_states' = [tool_states EXCEPT ![index] = EmptyState]
    /\ last_set' = [t \in ContextTools |-> IF t = tool_states[index].tool_id THEN NoData ELSE last_set[t]]
    /\ UNCHANGED <<message_count, by_index>>

IncrementMessageCount ==
    Called /\ message_count' = message_count + 1 /\ UNCHANGED <<tool_states, last_set, by_index>>

ContextNext ==
    \/ \E t \in ContextTools, d \in ContextData : SetToolState(t, d)
    \/ \E i \in Slots, t \in ContextTools, d \in ContextData :
          UpdateToolState(i, [tool_id |-> t, data |-> d])
    \/ \E i \in Slots : ClearToolState(i)
    \/ IncrementMessageCount

\* Through any sequence of calls that fill, free and refill the slots, what is
\* found for a tool is what was set for it last, and it has one slot at most;
\* unless a slot of it was written by index.  A tool with id 0 is left out: its
\* slot counts as free, and another tool may take it.
ContextFaithful ==
    \A t \in ContextTools \ ({0} \cup by_index) :
        FindToolState(t) = last_set[t] /\ Cardinality(SlotsOf(t)) <= 1
=============================================================================
