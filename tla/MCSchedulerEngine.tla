-------------------------- MODULE MCSchedulerEngine --------------------------
EXTENDS SchedulerEngine

CONSTANTS s1, s2, tA

\* Two sessions of one trader: the old one and the one that took over
OneTrader == [s \in Sessions |-> tA]

=============================================================================
