----------------------------- MODULE MCReadPath -----------------------------
(* The read path for model checking: every request asks for one page.      *)
EXTENDS ReadPath

CONSTANTS Page, CacheKey
UrlOf == [r \in Requests |-> Page]
KeyOf == [u \in Urls |-> CacheKey]

=============================================================================
