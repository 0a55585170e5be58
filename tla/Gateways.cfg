\* Every request may be done and the log full: the bounded gateways stop.
SPECIFICATION Spec
CONSTANTS
  r1 = r1  r2 = r2  s1 = s1  s2 = s2  w1 = w1  t1 = t1  t2 = t2
  qwen = qwen  chatterbox = chatterbox
  Requests = {r1, r2}
  MaxChunks = 2
  Speakers = {s1, s2}
  Watchers = {w1}
  Models = {qwen, chatterbox}
  NoModel = NoModel  NoThread = NoThread
  Family <- FamilyOf
  Style <- StyleOf
  LogThreads = {t1, t2}
  Keeps = {0, 1, 2}
  MaxEntries = 5
  MaxRotations = 5
SYMMETRY Alike
INVARIANTS ReplyAsReported MetadataKeepsNoContent SpeechIsAdmissible RecentEntriesKept
CHECK_DEADLOCK FALSE
