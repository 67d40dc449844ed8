CONSTANTS
  Columns = {1, 2}
  TrackKeys <- MCKeys
  MaxInputs = 3
  MaxTracks <- MCMaxTracks
  MaxReq = 2
SPECIFICATION MCPlayerSpec
INVARIANTS
  ViewMatchesSource
  PassIsPartition
  AnswerGoesToItsRow
  AwaitedIsOnItsWay
  ShownIsSounding
