------------------------------ MODULE MCProxy -------------------------------
(* Two requests, one shared key and one key of team A, a pool for each.    *)
EXTENDS Proxy

CONSTANTS kS, kA, pS, pA, tA, tB, mS, mA, s1, u1, u2, r1, r2

MCKeyPool   == kS :> pS @@ kA :> pA
MCKeyOwner  == kS :> NoTeam @@ kA :> tA
MCModelPool == mS :> pS @@ mA :> pA
MCModelTier == mS :> 2 @@ mA :> 0
MCCapability == mS :> {"chat", "image"} @@ mA :> {"chat"}
MCPoolTier  == pS :> 2 @@ pA :> 0
MCPreferred == pS :> mS @@ pA :> NoModel

\* A streamed turn of a session of team A's, a whole answer in the same
\* session from outside, a pin of the shared model, and an image.
Turn    == [team |-> tA,     kind |-> "chat",  stream |-> TRUE,  session |-> s1,     user |-> u1,     pin |-> NoModel]
Outside == [team |-> NoTeam, kind |-> "chat",  stream |-> FALSE, session |-> s1,     user |-> u1,     pin |-> NoModel]
Pinned  == [team |-> tB,     kind |-> "chat",  stream |-> TRUE,  session |-> NoUser, user |-> NoUser, pin |-> mS]
Image   == [team |-> tA,     kind |-> "image", stream |-> FALSE, session |-> NoUser, user |-> u2,     pin |-> NoModel]
MCMixes == {r1 :> a @@ r2 :> b : <<a, b>> \in {<<Turn, Outside>>, <<Turn, Image>>, <<Outside, Pinned>>}}

=============================================================================
