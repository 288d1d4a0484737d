-------------------------- MODULE MCTrayController --------------------------
\* TrayController with two child processes, which are interchangeable, and
\* scenarios that bring together the actions that can get in each other's way.
EXTENDS TrayController, TLC

CONSTANTS p1, p2, none

MCScenarios ==
  [wishes : {{"camera", "home", "creator", "failed"},
             {"camera", "screen", "settings", "link"},
             {"camera", "exit", "link"},
             {"phone", "link", "failed"},
             {"phone", "unreadable"}}, starts : {1}, windows : {2}]
  \cup [wishes : {{"exit", "route", "camera"}}, starts : {2}, windows : {1}]

ProcessSymmetry == Permutations(Process)
=============================================================================
