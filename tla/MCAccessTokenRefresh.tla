----------------------- MODULE MCAccessTokenRefresh -----------------------
\* TLC instances of AccessTokenRefresh.
EXTENDS AccessTokenRefresh, TLC

\* Calls, logins and refresh tokens are interchangeable.
Symmetry ==
  Permutations(Calls) \cup Permutations(Logins) \cup Permutations(RefreshTokens)

\* No guard reads an answer once given: states that differ by it alone are one, and
\* so are those that differ by who was exposed in a section it has left.
WithoutResult ==
  <<pc, timer, retries, mem, lock, Exposed, access, refresh, idp>>
===========================================================================
