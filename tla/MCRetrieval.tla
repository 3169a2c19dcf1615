---------------------------- MODULE MCRetrieval ----------------------------
EXTENDS Retrieval
MCChunkTable ==
    [c \in Chunks |->
        CASE c \in {1, 2} -> [document |-> "guide", version |-> 1, matches |-> TRUE]
          [] c = 3 -> [document |-> "guide", version |-> 2, matches |-> TRUE]
          [] c \in {4, 5} -> [document |-> "notes", version |-> 1, matches |-> TRUE]
          [] c = 6 -> [document |-> "other", version |-> 1, matches |-> FALSE]]
=============================================================================
