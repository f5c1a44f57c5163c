------------------------------ MODULE MCStream ------------------------------
(* Every kind of frame a provider sends: text, a tool call opened and       *)
(* continued, two tools, both in one frame, usage whole, in part and in     *)
(* quotes, the finish, an error, an error with text and the usage so far,   *)
(* and one with no choice in it (it still begins the message).              *)
EXTENDS Stream

CONSTANTS t0, t1

Numbers(n) == [given |-> TRUE, input |-> n, output |-> n, numbers |-> {"input", "output"}]

MCFrames ==
  { Blank,
    [Blank EXCEPT !.text = TRUE],
    [Blank EXCEPT !.tool = t0],
    [Blank EXCEPT !.tool = t0, !.args = TRUE],
    [Blank EXCEPT !.tool = t1, !.args = TRUE],
    [Blank EXCEPT !.text = TRUE, !.tool = t1],
    [Blank EXCEPT !.usage = Numbers(1)],
    [Blank EXCEPT !.usage = [Numbers(3) EXCEPT !.output = Absent, !.numbers = {"input"}]],
    [Blank EXCEPT !.usage = [Numbers(3) EXCEPT !.numbers = {}]],
    [Blank EXCEPT !.text = TRUE, !.finish = TRUE, !.usage = Numbers(2)],
    [Blank EXCEPT !.error = TRUE],
    [Blank EXCEPT !.error = TRUE, !.text = TRUE, !.usage = Numbers(1)] }

MCToolCalls == {t0, t1}

=============================================================================
