------------------------------- MODULE MCAgents -------------------------------
\* A small instance of Agents.
EXTENDS Agents

\* The excerpts of disk_full, memory_leak and network_failure in data/runbooks, the second
\* with a Category line that an operator added.
MCExcerpts ==
  <<[mentions |-> {"database", "infrastructure"}, hint |-> None],
    [mentions |-> {"infrastructure"}, hint |-> "unknown"],
    [mentions |-> {"database", "network"}, hint |-> None]>>

\* A name on a Category line is a keyword too if it has one.
MCTitles ==
  [mentions : {{}, {"network"}, {"infrastructure"}}, hint : {None}]
    \cup {[mentions |-> {}, hint |-> "unknown"],
          [mentions |-> {"infrastructure"}, hint |-> "no_category"],
          [mentions |-> {"network", "infrastructure"}, hint |-> "network"]}

MCAnomalies ==
  {[signature |-> s, count |-> {}] : s \in {{}, {"network"}, {"infrastructure"}}}
    \cup {[signature |-> {}, count |-> {"authentication"}]}
=============================================================================
