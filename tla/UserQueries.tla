------------------------------ MODULE UserQueries ------------------------------
(***************************************************************************)
(* What the GET handlers of RequestHandlers.hpp compute from the users     *)
(* they have walked over, as the loops do it.  The maps are unordered and  *)
(* std::sort is not stable, so the order of what is listed, and which of   *)
(* several countries with the same total, is open.                         *)
(***************************************************************************)
EXTENDS Integers, SequencesExt

CONSTANTS
  MaxCountries,   \* how many countries are listed: 5 in the code
  TopScore        \* what a superuser's score is at least: 900 in the code

ASSUME LimitAssumption == MaxCountries \in Nat /\ TopScore \in Int

\* map[key]++
Incremented(map, key) ==
  [k \in DOMAIN map \union {key} |-> (IF k \in DOMAIN map THEN map[k] ELSE 0)
                                       + (IF k = key THEN 1 ELSE 0)]
NoCounts == [k \in {} |-> 0]
Entries(map) == {[key |-> k, total |-> map[k]] : k \in DOMAIN map}

Superusers(users) ==
  FoldLeft(LAMBDA list, u : IF u.active /\ u.score >= TopScore THEN Append(list, u.name) ELSE list,
           <<>>, users)

Countries(users) == FoldLeft(LAMBDA m, u : Incremented(m, u.country), NoCounts, users)

\* the lists that may be the answer
TopCountries(users) ==
  LET entries == Entries(Countries(users))
      sorted == {s \in SetToSeqs(entries) :
                   \A i \in 2..Len(s) : s[i - 1].total >= s[i].total}
  IN {SubSeq(s, 1, Min({MaxCountries, Len(s)})) : s \in sorted}

NoTeam == [members |-> 0, active |-> 0, leaders |-> 0, completed |-> 0]
\* slip: total_members++ has got into the test of `active'
WithActiveMember(teams, u) ==
  LET name == u.team.name
      old == IF name \in DOMAIN teams THEN teams[name] ELSE NoTeam
      one == IF u.active THEN 1 ELSE 0
      new == [members |-> old.members + one,
              active |-> old.active + one,
              leaders |-> old.leaders + (IF u.team.leader THEN 1 ELSE 0),
              completed |-> old.completed + u.team.completed]
  IN [k \in DOMAIN teams \union {name} |-> IF k = name THEN new ELSE teams[k]]

WithMember(teams, u) ==
  LET name == u.team.name
      old == IF name \in DOMAIN teams THEN teams[name] ELSE NoTeam
      new == [members |-> old.members + 1,
              active |-> old.active + (IF u.active THEN 1 ELSE 0),
              leaders |-> old.leaders + (IF u.team.leader THEN 1 ELSE 0),
              completed |-> old.completed + u.team.completed]
  IN [k \in DOMAIN teams \union {name} |-> IF k = name THEN new ELSE teams[k]]

\* active_percentage is a float: the two numbers it is the quotient of
Insight(name, t) == [team |-> name, total_members |-> t.members,
                     active_percentage |-> <<t.active * 100, t.members>>,
                     leaders |-> t.leaders, completed_projects |-> t.completed]
NoTeams == [k \in {} |-> NoTeam]
Teams(users) == FoldLeft(WithMember, NoTeams, users)
TeamInsights(users) == {Insight(name, Teams(users)[name]) : name \in DOMAIN Teams(users)}

LoginsOf(map, u) ==
  FoldLeft(LAMBDA m, log : IF log.action = "login" THEN Incremented(m, log.date) ELSE m,
           map, u.logs)
LoginsByDay(users) == FoldLeft(LoginsOf, NoCounts, users)
ActiveUsers(users) == Entries(LoginsByDay(users))

-----------------------------------------------------------------------------
(* What the reports say of the users of s, counted one thing at a time      *)

Places(s, P(_)) == Cardinality({i \in 1..Len(s) : P(s[i])})

SuperusersRight(list, s) ==
  /\ Len(list) = Places(s, LAMBDA u : u.active /\ u.score >= TopScore)
  /\ \A i \in 1..Len(list) :
       \E j \in 1..Len(s) : s[j].name = list[i] /\ s[j].active /\ s[j].score >= TopScore

\* no listed total is wrong, and no country left out has more than a listed one
CountriesRight(list, s) ==
  LET Total(c) == Places(s, LAMBDA u : u.country = c)
      all == {s[i].country : i \in 1..Len(s)}
      listed == {list[i].key : i \in 1..Len(list)}
  IN /\ Len(list) = Cardinality(listed)
     /\ Len(list) = Min({MaxCountries, Cardinality(all)})
     /\ \A i \in 1..Len(list) : list[i].total = Total(list[i].key)
     /\ \A c \in listed, d \in all \ listed : Total(c) >= Total(d)
     /\ \A i, j \in 1..Len(list) : i < j => list[i].total >= list[j].total

\* each team once, with all its members, and no share of an empty team
TeamsRight(teams, s) ==
  /\ {t.team : t \in teams} = {s[i].team.name : i \in 1..Len(s)}
  /\ Cardinality({t.team : t \in teams}) = Cardinality(teams)
  /\ \A t \in teams :
       LET Members(P(_)) == Places(s, LAMBDA u : u.team.name = t.team /\ P(u))
       IN /\ t.total_members = Members(LAMBDA u : TRUE)
          /\ t.active_percentage = <<Members(LAMBDA u : u.active) * 100, t.total_members>>
          /\ t.leaders = Members(LAMBDA u : u.team.leader)
          /\ t.completed_projects =
               Cardinality(UNION {{i} \X (1..s[i].team.completed) :
                                    i \in {i \in 1..Len(s) : s[i].team.name = t.team}})

\* each login is counted once, on its day
LoginsRight(entries, s) ==
  LET Logins(d) ==
        Cardinality(UNION {{i} \X {j \in 1..Len(s[i].logs) : /\ s[i].logs[j].action = "login"
                                                            /\ s[i].logs[j].date = d} :
                             i \in 1..Len(s)})
      days == UNION {{s[i].logs[j].date : j \in 1..Len(s[i].logs)} : i \in 1..Len(s)}
  IN entries = {e \in {[key |-> d, total |-> Logins(d)] : d \in days} : e.total > 0}
=============================================================================
