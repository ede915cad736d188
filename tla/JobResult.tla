----------------------------- MODULE JobResult -----------------------------
(***************************************************************************)
(* The vocabulary of the asynchronous worker (app/geoworker.py): what a    *)
(* message body may hold, how each family of job functions posts its       *)
(* artifacts, what the function returns, and how _job_succeeded reads it.  *)
(*                                                                         *)
(* A job is kept to what process_payload branches on: the family its       *)
(* function_name resolves to, the output slots of its `post` block, and    *)
(* whether the front door stamped a `metering` block on it.                *)
(***************************************************************************)
EXTENDS Naturals, Sequences

(***************************************************************************)
(* The families of metadata.function_name:                                 *)
(*   "raster"   handle_posting, topo_blended: one post per output,         *)
(*              every answer inspected, unknown extensions raise           *)
(*   "vector"   _post_vector_outputs: as above, any extension              *)
(*   "scalar"   _post_scalar_from_payload: one post if scalar_url is set   *)
(*   "grid"     rasterize_and_colorize: posts, answers not inspected       *)
(*   "helper"   names a method that is not a job function (getattr finds   *)
(*              it all the same), returns None and posts nothing           *)
(*   "unknown"  resolves to nothing callable                               *)
(*   "missing"  the job carries no metadata.function_name                  *)
(***************************************************************************)
Families == {"raster", "vector", "scalar", "grid", "helper", "unknown", "missing"}

Slots == {"tif", "png", "other", "scalar"}

Job == [fn : Families, outs : Seq(Slots), metered : BOOLEAN]

(* What an SQS record's body is to _parse_body: a list of jobs, or not one. *)
BodyType == [parsed : BOOLEAN, jobs : Seq(Job)]

(***************************************************************************)
(* How one postback can end, seen from both sides:                         *)
(*   "2xx"        stored and acknowledged                                  *)
(*   "3xx"        redirected: requests.post is called with                 *)
(*                allow_redirects=False, so nothing is stored              *)
(*   "rejected"   4xx or 5xx, nothing stored                               *)
(*   "raised"     the call (or rendering its file) raises, nothing stored  *)
(*   "lost"       stored, but the answer never arrives: the call raises    *)
(***************************************************************************)
Answers == {"2xx", "3xx", "rejected", "raised", "lost"}

StoredBy(answer) == answer \in {"2xx", "lost"}

(* requests.Response.ok: any status below 400, not only 2xx. *)
RespOk(answer) == answer \in {"2xx", "3xx"}

Raises(answer) == answer \in {"raised", "lost"}

(* The families whose posting loop looks at every response. *)
Inspecting == {"raster", "vector"}

(* The families that post at all. *)
Posting == Inspecting \union {"scalar", "grid"}

-----------------------------------------------------------------------------
(***************************************************************************)
(* A job function's return, as the set of the strings in it. Items that    *)
(* are not strings carry no marker and are left out; an exception, or a    *)
(* name that is not callable, gives the string "ERROR".                    *)
(***************************************************************************)
ResultItems == {"ERROR", "posted successfully", "Error posting", "Scalar posted", "path"}

ErrorResult == {"ERROR"}

(* The strings that contain "error" once lower-cased. *)
HasErrorMarker(item) == item \in {"ERROR", "Error posting"}

(* Mutant: only the exception marker counts, a refused postback passes. *)
JobSucceededUnlessRaised(result) == result # ErrorResult

JobSucceeded(result) == ~ \E item \in result : HasErrorMarker(item)

(* The item one answered postback adds to the result. *)
PostItem(fn, answer) ==
    CASE fn \in Inspecting -> IF RespOk(answer) THEN "posted successfully" ELSE "Error posting"
      [] fn = "scalar"     -> "Scalar posted"
      [] OTHER             -> "path"

(* What stops a posting loop before the request is made. *)
SlotRefused(fn, slot) == fn = "raster" /\ slot \notin {"tif", "png"}

(* A scalar job whose post block has no scalar_url. *)
NoScalarUrl(job) == job.fn = "scalar" /\ job.outs = <<>>

=============================================================================
