------------------------------ MODULE MCMarshal ------------------------------
(* The MARSHAL path for TLC.  Alone, one spawn meets every answer, request *)
(* length and up to MAX_FAULTS faults; as a pair, two spawns share the     *)
(* server's slots, with one fault and a different answer to each.          *)
EXTENDS MarshalClient

CONSTANTS c1, c2
VARIABLE pair

mcVars == <<marshalVars, stream, pair>>

AllReplies == {<<0, 0, 0>>, <<0, 1, 0>>, <<0, 2, 0>>, <<1, 1>>, <<1, 3, 0>>, <<1, 4, 0>>, <<9>>}
NoneArriving(bytes) == {}
ShortJson == <<5>>
Jsons == {ShortJson, <<5, 5>>}

MCInit ==
    /\ MarshalInit /\ WireInit
    /\ pair \in BOOLEAN
    /\ pair => proxy

InScope ==
    IF pair THEN \A c \in Client : /\ client'[c].pc # "idle" => client'[c].max_polls <= 1
                                   /\ client'[c].sid # NoSession => client'[c].json = ShortJson
                                   /\ client'[c].pc # "denied"
    ELSE client'[c2].pc = "idle"
RepliesInScope == pair => \A s \in Session : replied'[s] \in {<<>>, <<0, s - 1, 0>>}
FaultsInScope == pair => faults' <= 1

MCNext == MarshalNext /\ InScope /\ RepliesInScope /\ FaultsInScope /\ UNCHANGED <<stream, pair>>

MCSpec == MCInit /\ [][MCNext]_mcVars /\ MarshalFairness
=============================================================================
