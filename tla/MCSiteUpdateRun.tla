--------------------------- MODULE MCSiteUpdateRun ---------------------------
(* Three tasks in a chain, a stock of cement and a site where steel may turn *)
(* up; a report that completes the first task, blocks the second and states  *)
(* the stock, and a second report that may be a safety stop, complete the    *)
(* second task, or name one blocker twice and plan to go on with the task it *)
(* completes.  In between people may send a command of their own, or two     *)
(* deliveries of the order of three: two units, and then what is still due   *)
(* of it or two more, which is too much.                                     *)
EXTENDS SiteUpdateRun

CONSTANTS t1, t2, t3, cement, steel, u1, u2, order

MCTask == {t1, t2, t3}
MCDepends == t1 :> {} @@ t2 :> {t1} @@ t3 :> {t2}
MCMaterial == {cement, steel}
MCUpdate == {u1, u2}
MCAt == u1 :> 1 @@ u2 :> 2
MCNeeds == cement :> (t1 :> 1 @@ t2 :> 3 @@ t3 :> 0) @@ steel :> (t1 :> 0 @@ t2 :> 0 @@ t3 :> 0)

Says(evidence) ==
  [safety |-> <<"low">>,
   completed |-> <<[task |-> t1, sure |-> TRUE, evidence |-> evidence], [task |-> t1, sure |-> TRUE, evidence |-> "again"]>>,
   issues |-> <<[type |-> "blocker", task |-> t2, sure |-> TRUE, evidence |-> evidence]>>,
   stock |-> <<[material |-> cement, quantity |-> 2, sure |-> TRUE, evidence |-> evidence],
               [material |-> cement, quantity |-> 5, sure |-> TRUE, evidence |-> "again"]>>,
   focus |-> <<[task |-> t2, sure |-> TRUE]>>]

Stop == [safety |-> <<"high">>, completed |-> <<>>, issues |-> <<>>, stock |-> <<>>, focus |-> <<>>]
Steel == [Stop EXCEPT !.safety = <<>>,
  !.completed = <<[task |-> t2, sure |-> TRUE, evidence |-> "photo"], [task |-> t3, sure |-> FALSE, evidence |-> "photo"]>>,
  !.stock = <<[material |-> steel, quantity |-> 1, sure |-> TRUE, evidence |-> "photo"]>>]

Blocker(evidence) == [type |-> "blocker", task |-> t2, sure |-> TRUE, evidence |-> evidence]
Ahead == [Stop EXCEPT !.safety = <<>>,
  !.completed = <<[task |-> t1, sure |-> TRUE, evidence |-> "photo"]>>,
  !.issues = <<Blocker("said"), Blocker("again")>>,
  !.stock = <<[material |-> cement, quantity |-> 2, sure |-> TRUE, evidence |-> "photo"]>>,
  !.focus = <<[task |-> t1, sure |-> TRUE], [task |-> t2, sure |-> TRUE]>>]

MCInterpretations == u1 :> {Says("said")} @@ u2 :> {Stop, Steel, Ahead}

Ask(op, id, arg) ==
  [key |-> <<"user", op, id>>, env |-> [op |-> op, id |-> id, arg |-> arg], expected |-> 0, at |-> 3,
   quantity |-> 0]
Deliver(k, quantity, complete) ==
  [Ask("deliver", cement, [request |-> <<order>>, quantity |-> quantity, complete |-> complete])
    EXCEPT !.key = <<"user", "deliver", k>>]

MCUserCommand ==
  <<Ask("progress", t1, [target |-> "in_progress", percent |-> 50, human |-> TRUE, reconciled |-> FALSE, evidence |-> None]),
   Ask("progress", t1, [target |-> None, percent |-> 20, human |-> FALSE, reconciled |-> FALSE, evidence |-> None]),
   Ask("details", t2, [note |-> "n"]),
   Ask("create_task", t3, [note |-> "n"]),
   Ask("set", cement, [quantity |-> 4]),
   Ask("adjust", cement, [delta |-> 1, evidence |-> None]),
   Ask("material", cement, [minimum |-> 2]),
   [Ask("create_material", steel, <<>>) EXCEPT !.quantity = 2],
   Ask("purchase", cement, [quantity |-> 2]),
   Ask("edit_log", <<>>, [summary |-> "edited"]),
   [Ask("update_issue", <<u1, "issue", 1, "blocker">>, [status |-> "mitigated"]) EXCEPT !.key = <<"user", "update_issue", u1>>],
   Deliver(1, 2, FALSE), Deliver(2, 1, TRUE), Deliver(3, 2, FALSE)>>

MCOccasions == {{i} : i \in 1..11} \cup {{12, 13}, {12, 14}}

Planned == [status |-> "planned", percent |-> 0, start |-> Never, end |-> Never, version |-> 0]
MCSetup ==
  [task |-> t1 :> Planned @@ t2 :> [Planned EXCEPT !.status = "in_progress", !.percent = 30, !.start = 0]
             @@ t3 :> [Planned EXCEPT !.status = "absent"],
   stock |-> cement :> [available |-> 1, minimum |-> 1, version |-> 0]
             @@ steel :> [available |-> 0, minimum |-> 0, version |-> Never],
   request |-> {[key |-> <<order>>, material |-> cement, quantity |-> 3, delivered |-> 0,
                 status |-> "delayed"]}]
=============================================================================
