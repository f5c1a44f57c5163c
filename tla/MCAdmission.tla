---------------------------- MODULE MCAdmission ----------------------------
EXTENDS Admission, TLC

\* A request is known only by what it holds.
AnyRequests == Permutations(Requests)

=============================================================================
