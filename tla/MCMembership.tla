---------------------------- MODULE MCMembership ----------------------------
(* Instances of Membership for the model checker.  A URL is a string here: *)
(* "HTTP://a" is another spelling of the origin "http://a", and the slash  *)
(* at the end of "http://b/" is trimmed everywhere.                        *)
EXTENDS Membership, TLC

CONSTANTS r1, r2

MCOrigins == {"http://a", "http://b", "http://c"}

TwoUrls == {"http://a", "http://b/"}
PlainUrls == TwoUrls \cup {"http://c"}
SpelledUrls == {"HTTP://a", "http://b/", "http://c"}

MCOriginOf == [u \in Urls |-> CASE u = "HTTP://a"  -> "http://a"
                                [] u = "http://b/" -> "http://b"
                                [] OTHER           -> u]

MCSpelling == [u \in Urls |-> IF u = "http://b/" THEN "http://b" ELSE u]

TwoOrigins == {"http://a", "http://b"}

Symmetry == Permutations(Requests)
=============================================================================
