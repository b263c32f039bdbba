----------------------------- MODULE MacCommands -----------------------------
(***************************************************************************)
(* LoRaMacCommands.c: the MAC commands waiting for the next uplink, a      *)
(* linked list over a few memory slots.  The context of the module is one  *)
(* record, and its operations are functions of it, since one handler makes *)
(* several of them.  Pointers are slot numbers, 0 is the null pointer.     *)
(***************************************************************************)
EXTENDS Integers, Sequences, SequencesExt

CONSTANTS
  Cids,                \* the command identifiers
  StickyCids,          \* CIDsStickyAnsCmds, in its order
  CmdSize,             \* serialized size of each command, with its identifier
  NUM_OF_MAC_COMMANDS,
  NoCid                \* the identifier of a free slot

ASSUME CommandsAssumption ==
  /\ StickyCids \in Seq(Cids) /\ NoCid \notin Cids
  /\ CmdSize \in [Cids -> Nat \ {0}]
  /\ NUM_OF_MAC_COMMANDS \in Nat \ {0}

Slots == 1 .. NUM_OF_MAC_COMMANDS
FreeSlot == [CID |-> NoCid, Next |-> 0]
Context == [slot : [Slots -> [CID : Cids \cup {NoCid}, Next : Slots \cup {0}]],
            First : Slots \cup {0}, Last : Slots \cup {0},
            SerializedCmdsSize : Nat]

(* LoRaMacCommandsInit *)
NoCommands == [slot |-> [s \in Slots |-> FreeSlot], First |-> 0, Last |-> 0,
               SerializedCmdsSize |-> 0]

IsSticky(cid) == cid \in ToSet(StickyCids)

(* The slots on the list, in its order; every loop over the list. *)
Elements(ctx) ==
  LET follow[s \in Slots \cup {0}] == IF s = 0 THEN <<>> ELSE <<s>> \o follow[ctx.slot[s].Next]
  IN  follow[ctx.First]

(* The first element of the list that is sought, or null. *)
FirstOf(ctx, sought) ==
  LET seek[s \in Slots \cup {0}] ==
        IF s = 0 \/ s \in sought THEN s ELSE seek[ctx.slot[s].Next]
  IN  seek[ctx.First]

(* mallocNewMacCommandSlot: the first free slot. *)
FreeSlots(ctx) == {s \in Slots : ctx.slot[s] = FreeSlot}
NewSlot(ctx) == CHOOSE s \in FreeSlots(ctx) : \A r \in FreeSlots(ctx) : s <= r

(* linkedListAdd *)
ListAdd(ctx, s) ==
  LET linked == IF ctx.Last = 0 THEN ctx ELSE [ctx EXCEPT !.slot[ctx.Last].Next = s]
  IN  [linked EXCEPT !.First = IF ctx.First = 0 THEN s ELSE @, !.Last = s, !.slot[s].Next = 0]

(* linkedListGetPrevious *)
Previous(ctx, s) ==
  IF ctx.First = s THEN 0 ELSE FirstOf(ctx, {r \in Slots : ctx.slot[r].Next = s})

(* Fault: Last is not moved back when the last element goes. *)
ListRemoveKeepsLast(ctx, s) ==
  LET previous == Previous(ctx, s)
      next == ctx.slot[s].Next
      unlinked == IF previous = 0 THEN ctx ELSE [ctx EXCEPT !.slot[previous].Next = next]
  IN  [unlinked EXCEPT !.First = IF @ = s THEN next ELSE @, !.slot[s].Next = 0]

(* linkedListRemove *)
ListRemove(ctx, s) ==
  LET previous == Previous(ctx, s)
      next == ctx.slot[s].Next
      unlinked == IF previous = 0 THEN ctx ELSE [ctx EXCEPT !.slot[previous].Next = next]
  IN  [unlinked EXCEPT !.First = IF @ = s THEN next ELSE @,
                       !.Last = IF @ = s THEN previous ELSE @,
                       !.slot[s].Next = 0]

(* LoRaMacCommandsAddCmd; its callers in ProcessMacCommands ignore that    *)
(* there is no slot left.                                                  *)
AddCmd(ctx, cid) ==
  IF FreeSlots(ctx) = {} THEN ctx
  ELSE LET s == NewSlot(ctx)
       IN  [ListAdd(ctx, s) EXCEPT !.slot[s].CID = cid, !.SerializedCmdsSize = @ + CmdSize[cid]]

(* LoRaMacCommandsRemoveCmd, with freeMacCommandSlot. *)
RemoveCmd(ctx, s) ==
  [ListRemove(ctx, s) EXCEPT !.slot[s] = FreeSlot,
                             !.SerializedCmdsSize = @ - CmdSize[ctx.slot[s].CID]]

(* LoRaMacCommandsGetCmd: the first command of this kind on the list. *)
GetCmd(ctx, cid) == FirstOf(ctx, {s \in Slots : ctx.slot[s].CID = cid})

(* Fault: the sticky commands go as well. *)
RemoveAllCmds(ctx) == FoldLeft(RemoveCmd, ctx, Elements(ctx))

(* LoRaMacCommandsRemoveNoneStickyCmds *)
RemoveNoneStickyCmds(ctx) ==
  LET list == Elements(ctx)
      after[n \in 0 .. Len(list)] ==
        IF n = 0 THEN ctx
        ELSE IF IsSticky(ctx.slot[list[n]].CID) THEN after[n - 1]
             ELSE RemoveCmd(after[n - 1], list[n])
  IN  after[Len(list)]

(* LoRaMacCommandsRemoveStickyAnsCmds: the first command of each kind. *)
RemoveIfFound(ctx, cid) ==
  LET s == GetCmd(ctx, cid) IN IF s = 0 THEN ctx ELSE RemoveCmd(ctx, s)
RemoveStickyAnsCmds(ctx) ==
  LET after[n \in 0 .. Len(StickyCids)] ==
        IF n = 0 THEN ctx ELSE RemoveIfFound(after[n - 1], StickyCids[n])
  IN  after[Len(StickyCids)]

(* LoRaMacCommandsSerializeCmds: the slots whose commands are written, as  *)
(* long as the next one fits.                                              *)
SerializeCmds(ctx, availableSize) ==
  LET from[s \in Slots \cup {0}] ==
        [room \in 0 .. availableSize |->
           IF s = 0 \/ CmdSize[ctx.slot[s].CID] > room THEN {}
           ELSE {s} \cup from[ctx.slot[s].Next][room - CmdSize[ctx.slot[s].CID]]]
  IN  from[ctx.First][availableSize]

=============================================================================
