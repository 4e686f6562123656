--------------------------- MODULE MCCommandServer ---------------------------
(* The tests of loadTests(), with small files: the memory is larger than the *)
(* file, the file large enough for the fifty bytes of test_read_offset().  The *)
(* file of the second test_map1() is one a3 may not write to.                  *)
EXTENDS CommandServer

MCSession == <<"ping", "shm1", "shm_write", "map_inexistent", "map1", "map1",
               "read_offset", "read_section", "read_logical">>
MCSections == <<[offset |-> 4, size |-> 14], [offset |-> 20, size |-> 12],
                [offset |-> 40, size |-> 60]>>
=============================================================================
