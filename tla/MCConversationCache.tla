------------------------ MODULE MCConversationCache ------------------------
(* Values for the constants of ConversationCache: two files whose names    *)
(* are the same once they are cut, and one with a name of its own.         *)
EXTENDS ConversationCache
CONSTANTS f1, f2, f3, t1, t2
SharedTables == [f \in File |-> IF f = f1 THEN t1 ELSE t2]
Questions == {{f2}, {f1, f2}, {f2, f3}}
=============================================================================
