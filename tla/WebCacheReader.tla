--------------------------- MODULE WebCacheReader ---------------------------
(* How the download of WebCache looks to whoever reads the cached file. *)
EXTENDS WebCache

\* What a reader makes of the cache file; a mixed or incomplete one is no document.
DocumentIn(body) == IF Whole(body) THEN body[1] ELSE Hole

InFile(entry) == IF entry = None THEN None ELSE DocumentIn(data[entry])
Visible == InFile(file)
Busy    == {p \in Procs : pc[p] # "idle"}
Ready   == {[by |-> p, document |-> InFile(tmp)] : p \in {q \in Procs : pc[q] = "rename"}}

Reader == INSTANCE CacheReplacement
             WITH Documents <- Pages, cache <- Visible, loading <- Busy, ready <- Ready

\* The cached file is absent or one complete document; it goes missing only when its
\* successor is ready, one process at a time replaces it, and what it publishes is
\* what was ready: the download implements CacheReplacement wherever a lock file in
\* use cannot be removed and the size of every response is checked.
ReplacesWhenReady == Reader!Spec
=============================================================================
