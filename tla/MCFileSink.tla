----------------------------- MODULE MCFileSink -----------------------------
EXTENDS FileSink

(* Lines of 20, 20 and 30 characters with m_maxsize = 80: the first two    *)
(* fit in one file (10 + 20 + 20 + 12 <= 80), the third rotates it.        *)
MCLineLen == [e \in Events |-> IF e = 3 THEN 30 ELSE 20]

=============================================================================
