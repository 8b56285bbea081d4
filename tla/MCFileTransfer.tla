--------------------------- MODULE MCFileTransfer ---------------------------
EXTENDS FileTransfer

\* A firmware of one chunk with one update, and a file that grows from two
\* chunks to three with its second update.
MCPlace   == [f \in {"firmware", "config"} |-> IF f = "firmware" THEN 2 ELSE 1]
MCLatest  == [f \in {"firmware", "config"} |-> IF f = "firmware" THEN 2 ELSE 3]
MCSize    == [f \in {"firmware", "config"} |->
                [r \in Revisions |->
                   IF f = "firmware" THEN 1 ELSE IF r > 2 THEN 3 ELSE 2]]
=============================================================================
