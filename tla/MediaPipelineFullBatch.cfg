SPECIFICATION MissedSpec
CONSTANTS
  photo = photo
  audio = audio
  jingle = jingle
  track = track
  post = post
  story = story
  u1 = u1
  u2 = u2
  Uploads = {photo,audio}
  Sounds = {track}
  S3Sounds = {track}
  Moderatable = {}
  Passthrough = {photo,audio}
  Content = {post,story}
  Statuses = {story}
  Uploader = {u1}
  NoMedia = NoMedia
  NoContent = NoContent
  MaxStalled <- CodeMaxStalled
  BatchSize = 1
  MaxFaults = 0
PROPERTY ReevaluatesMissed
