------------------------------- MODULE Rating -------------------------------
(***************************************************************************)
(* Ratings and screenings of agents (src/agent_rating.rs): records of the  *)
(* key-value store that expire, and commands that show them.  A score is   *)
(* the mean of all votes; here it is kept as their sum, in half points, so *)
(* that 10 stands for five stars.  Showing a score of more than five stars *)
(* panics: the command loop, and with it the process, ends.                *)
(*                                                                         *)
(* The votes of finished agents (update_rating_from_result) are modelled   *)
(* although nothing in the program casts them yet.                         *)
(***************************************************************************)
EXTENDS Naturals, Sequences

CONSTANTS
    Rated,      \* agents
    Votes,      \* what a user may type, in half points; it is not checked
    Findings,   \* numbers of findings of a result
    BronzeAt, SilverAt, \* completions for the first ranks: 10 and 50 in the code
    MaxVotes    \* bound: votes and completions of an agent

VARIABLES
    rating,     \* each agent's rating
    report,     \* each agent's last screening
    bridges,    \* whether the agent's skill has only bridges that are known
    highest,    \* the highest vote since the rating was made
    running

ratingVars == <<rating, report, bridges, highest, running>>

NoRating == [sum |-> 0, votes |-> 0, runs |-> 0, found |-> 0, rank |-> 0]

RatingInit ==
    /\ rating = [n \in Rated |-> NoRating]
    /\ report = [n \in Rated |-> "none"]
    /\ bridges = [n \in Rated |-> "known"]
    /\ highest = [n \in Rated |-> 0]
    /\ running = TRUE

-----------------------------------------------------------------------------
(* Scores.                                                                 *)

(* Mutant: the three points of an agent nobody rated count as a vote.      *)
SumWithDefault(r, vote) == IF r.votes = 0 THEN 6 + vote ELSE r.sum + vote
SumWith(r, vote) == r.sum + vote

Vote(r, vote) == [r EXCEPT !.sum = SumWith(r, vote), !.votes = @ + 1]

(* The score to the nearest half point, three stars without a vote; an     *)
(* underflow of the empty stars is a panic.                                *)
Stars(r) == IF r.votes = 0 THEN 6 ELSE (2 * r.sum + r.votes) \div (2 * r.votes)
format_stars(n) == running' = (Stars(rating'[n]) <= 10)

RankAt == <<BronzeAt, SilverAt, 200, 1000>>
ConfidenceAt == <<50, 70, 85, 95>>
(* avg_confidence counts 10 percent for each finding, and may exceed 100.  *)
calculate_rank(runs, found) ==
    LET Earned == {k \in DOMAIN RankAt : runs >= RankAt[k] /\ 10 * found >= ConfidenceAt[k] * runs}
    IN  IF Earned = {} THEN 0 ELSE CHOOSE k \in Earned : \A l \in Earned : l <= k

-----------------------------------------------------------------------------
(* /rate: the record is saved before it is shown.                          *)
rate_agent(n, vote) ==
    /\ running /\ rating[n].votes < MaxVotes
    /\ rating' = [rating EXCEPT ![n] = Vote(@, vote)]
    /\ highest' = [highest EXCEPT ![n] = IF vote > @ THEN vote ELSE @]
    /\ format_stars(n)
    /\ UNCHANGED <<report, bridges>>

(* Mutant: the rank is computed from the numbers before the result.        *)
RankBefore(old, new) == calculate_rank(old.runs, old.found)
Rank(old, new) == calculate_rank(new.runs, new.found)

update_rating_from_result(n, found, completed) ==
    /\ running /\ rating[n].runs < MaxVotes /\ rating[n].votes < MaxVotes
    /\ LET old == rating[n]
           ran == [old EXCEPT !.runs = @ + 1, !.found = @ + found]
           new == IF completed THEN Vote(ran, 9) ELSE ran
       IN  rating' = [rating EXCEPT ![n] = [new EXCEPT !.rank = Rank(old, new)]]
    /\ highest' = [highest EXCEPT ![n] = IF completed /\ @ < 9 THEN 9 ELSE @]
    /\ UNCHANGED <<report, bridges, running>>

(* /rating, or /top, which shows all of them.                              *)
Show(n) ==
    /\ running
    /\ UNCHANGED <<rating, report, bridges, highest>>
    /\ format_stars(n)

(* Warnings (tools, words of the prompt, where it was imported from) are   *)
(* listed; only a bridge that is not known fails the screening.  Starting  *)
(* an agent asks for no report.                                            *)
screen_agent(n) ==
    /\ running
    /\ report' = [report EXCEPT ![n] = IF bridges[n] = "known" THEN "passed" ELSE "failed"]
    /\ UNCHANGED <<rating, bridges, highest, running>>

(* Another skill under the same name: the report of the first stays.       *)
Replace(n) ==
    /\ running
    /\ \E b \in {"known", "unknown"} : bridges' = [bridges EXCEPT ![n] = b]
    /\ UNCHANGED <<rating, report, highest, running>>

(* 30 days for a rating, one for a report.                                 *)
Expire(n) ==
    \/ /\ rating' = [rating EXCEPT ![n] = NoRating]
       /\ highest' = [highest EXCEPT ![n] = 0]
       /\ UNCHANGED <<report, bridges, running>>
    \/ /\ report' = [report EXCEPT ![n] = "none"]
       /\ UNCHANGED <<rating, bridges, highest, running>>

(* The next process finds the ratings in Redis, or none without it.        *)
RatingRestart ==
    /\ ~running
    /\ running' = TRUE
    /\ \/ UNCHANGED <<rating, report, highest>>
       \/ /\ rating' = [n \in Rated |-> NoRating]
          /\ report' = [n \in Rated |-> "none"]
          /\ highest' = [n \in Rated |-> 0]
    /\ UNCHANGED bridges

RatingNext ==
    \/ \E n \in Rated :
        \/ \E vote \in Votes : rate_agent(n, vote)
        \/ \E found \in Findings, completed \in BOOLEAN :
                update_rating_from_result(n, found, completed)
        \/ Show(n) \/ screen_agent(n) \/ Replace(n) \/ Expire(n)
    \/ RatingRestart

RatingSpec == RatingInit /\ [][RatingNext]_ratingVars

-----------------------------------------------------------------------------
(* A score that ends the process when it is shown needs a vote of more     *)
(* than five stars that has not expired: no sequence of votes within the   *)
(* scale, results and expiries brings the mean above it (format_stars,     *)
(* rate_agent).                                                            *)
PanicNeedsVote == \A n \in Rated : Stars(rating[n]) > 10 => highest[n] > 10

(* The rank an agent has is the one its completions and its confidence     *)
(* earn now; votes do not move it (calculate_rank).                        *)
RankCurrent == \A n \in Rated :
    rating[n].rank = calculate_rank(rating[n].runs, rating[n].found)
=============================================================================
