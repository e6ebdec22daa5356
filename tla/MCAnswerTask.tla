---------------------------- MODULE MCAnswerTask ----------------------------
(* A page that asks; and a thread that asks for another, stops an answer    *)
(* or revises a question.                                                  *)
EXTENDS AnswerTask, TLC

CONSTANTS page, other

MCServes == [c \in Requests |-> IF c = page THEN {"auto"}
                                           ELSE {"auto", "whole", "cancel", "revise"}]

MCStops == [c \in Requests |-> IF c = page THEN {"auto", "manual", "whole"}
                                          ELSE {"cancel", "dismiss", "revise"}]

Swaps == Permutations(Tasks) \cup Permutations(Questions)
=============================================================================
