\* A good reply and a bad one; one manual resume or Stop, then one by the watcher;
\* the job stops twice; one failure or one event of another job.
CONSTANTS
  r = r
  b = b
  Replies = {r, b}
  BadReplies = {b}
  ManualKinds = {"cli", "gui"}
  MaxManual = 1
  MaxSettles = 2
  MaxTrouble = 1
SPECIFICATION FairSpec
CONSTRAINT Unclashed
INVARIANTS WatcherPresent 
PROPERTY ReplyHandled
