---------------------------- MODULE MCAIGateway ----------------------------
(* Small instances of AIGateway: one local provider and one in the cloud. *)
EXTENDS AIGateway, TLC

CONSTANTS lmstudio, openai

LocalFirst == lmstudio :> 1 @@ openai :> 2

CloudOnly == openai :> 1

DailyAndMonthly == "daily" :> 1 @@ "monthly" :> 2
=============================================================================
